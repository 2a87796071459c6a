SPECIFICATION Spec
CONSTANTS
  app = app
  handler = handler
  main = main
  plugin = plugin
  short = short
  replica = replica
  f = f
  lib = lib
  own = own
  other = other
  None = None
  Threads = {app, handler}
  States = {main, plugin, replica}
  Functions = {f}
  Libraries = {lib, short}
  Directories = {own, other}
  Handles <- HandlesOf
  DirectoryOf <- DirectoryOfState
  LibrariesIn <- LibrariesOf
  Prefixed <- PrefixedOf
  Matches <- NamedAfter
  DirectoryOrder <- Order
  ByteValues = 2
  LongWidth = 4
  Widths = {1, 2, 4}
  BlockSize = 5
  PokedValues <- Poked
  TypeCount = 6
  MaxArguments = 3
  UseMap = 1
  Keys = {"reply_to", "agent", "message", "merge", "original_message", "message_name",
          "parameters", "default", "image", "size", "options", "older", "error",
          "0", "1", "true", "false", "16", "0x10", "0xb0", "176", "3.14159", "inf"}
  Numerals <- NumeralsOf
  Spelled <- SpelledOf
  Rounded <- RoundedOf
  Addresses = {"0xb0"}
  Messages = {"ask", "answer"}
  AgentOf <- AgentOfMessage
  Defaults <- DefaultsOf
  Tables <- ScriptTables
  MaxReplies = 2
  Files = {"a", "b", "c"}
  Chunks = 3
  Urls <- UrlsToTry
INVARIANTS
  ScriptTypeOK
  OnlyExceptionsKeepHandler
  CallsWhatItImported
  ReadsBack
  SignatureFoundOnce
  GivenArrives
  ReplyKnowsQuestion
  ForwardedAsReceived
  LostOnlyIfIgnored
PROPERTIES
  LibraryStays
CHECK_DEADLOCK FALSE
