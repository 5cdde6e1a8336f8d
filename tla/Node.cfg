SPECIFICATION NodeSpec
CONSTANTS
  None = None
  MaxVersion = 3
  MaxFailures = 2
  MaxStops = 2
INVARIANTS ContextsApart 
PROPERTIES ImplementsStore ServiceStartsAgain PlanetMonotone PlanetConverges
PROPERTIES PolicyRestored WindowSettles EndsAreShown
CHECK_DEADLOCK FALSE
