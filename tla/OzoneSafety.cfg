SPECIFICATION Spec
CONSTANTS
  Configs <- MCConfigs
  staticHandlers = {"NotFound"}
  handlerTypes = {"custom"}
  tlsPluginTypes = {}
  OptionSets <- MCOptions
  MaxGen = 2
INVARIANTS
  TypeOK
  
  ConfiguredOnce
  CleanupsComplete
  ServersComplete
  MetricsFollow
PROPERTIES
  LoadEnds
CHECK_DEADLOCK FALSE
