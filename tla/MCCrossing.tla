------------------------------- MODULE MCCrossing -------------------------------
LOCAL Config == INSTANCE WireConfig
LOCAL Control == INSTANCE WireControl
LOCAL Host == INSTANCE WireHost
LOCAL Plugins == INSTANCE WirePlugins
LOCAL Stores == INSTANCE WireStores
\* The one type that a null does not survive is in a run of its own.
MCTypes == (Config!Declared \cup Control!Declared \cup Host!Declared \cup Plugins!Declared \cup Stores!Declared)
           \ {Plugins!SubjectPatch}
MCMirrors == {<<Host!DaemonEventRecord, Stores!DaemonEventRecord>>,
              <<Plugins!AgentRunRequest, Plugins!AgentRunParams>>,
              <<Plugins!AgentCancelRequest, Plugins!AgentCancelParams>>,
              <<Plugins!SubjectFilter, Plugins!ListRequest>>}
MCPatches == {Plugins!SubjectPatch}
================================================================================
