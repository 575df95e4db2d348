SPECIFICATION Spec
CONSTANTS
  Upload <- MCUpload
  File <- MCFile
  file <- MCfile
  slugify <- MCslugify
  parsed <- MCparsed
  Hash <- MCHash
  hash <- MChash
  Page <- MCPage
  generates <- MCgenerates
  links <- MClinks
  written <- MCwritten
  AutoRetries = 1
  MaxTasks = 2
  MaxEvents = 1
  MaxEdits = 0
PROPERTY SharedPagesKept
CHECK_DEADLOCK FALSE
