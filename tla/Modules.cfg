\* Two files under two names, importing each other.  Two imports, of native modules or
\* of two files under the name of one; texts of two calls, the second to a name that
\* two modules have.
CONSTANTS
  Names = {"x", "y"}
  Paths = {"A", "B"}
  Programs <- SmallPrograms
  MaxLoads = 3
  Available = {"math", "random", "terminal", "fs"}
  UserModules = {"math"}
  UserFiles = {"A", "B"}
  FileFunction <- UserDeclarations
  Contested = {"flush", "sqrt"}
  MaxImports = 2
  MaxText = 2
SPECIFICATION ModulesSpec
CHECK_DEADLOCK FALSE
INVARIANTS
  OneModulePerFile
  ReloadedOnlyIfReplaced
  AcceptedUsesResolve
  AcceptedCallsKeepTheirFunction
  FirstRegistrationAnswers
  CallsAsDeclared
PROPERTY
  RegistryImportsEnd
