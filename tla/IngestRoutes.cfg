SPECIFICATION Spec
CONSTANTS
  Upload <- MCUpload
  File <- MCFile
  file <- MCfile
  slugify <- MCslugify
  parsed <- MCparsed
  Hash <- MCHash
  hash <- MChash
  Page <- MCPage
  generates <- MCgenerates
  links <- MClinks
  written <- MCwritten
  AutoRetries = 1
  MaxTasks = 2
  MaxEvents = 2
  MaxEdits = 1
INVARIANTS TypeOK CacheIsHonest
CHECK_DEADLOCK FALSE
