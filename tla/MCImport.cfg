SPECIFICATION Spec
CONSTANTS
  User = {"main", "u", "core"}
  Entry = {"main", "str", "ast"}
  Library = {"str", "json"}
  FrontEnd = {"compile", "ast", "repl"}
  Compiler = "compile"
  Prelude = {"core"}
  Uses <- Imported
  Edited = {"u", "str"}
  MaxDepth = 4
INVARIANTS TypeOK LoadingOnStack RunsSource OneFrontEnd
PROPERTIES LoadedStays
