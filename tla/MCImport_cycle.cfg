SPECIFICATION Spec
CONSTANTS
  User = {"main", "u", "core"}
  Entry = {"main", "str"}
  Library = {"str", "json"}
  FrontEnd = {"compile", "ast", "repl"}
  Compiler = "compile"
  Prelude = {"core"}
  Uses <- Imported
  Edited = {"u", "str"}
  MaxDepth = 8
PROPERTIES NoFalseCycle
