\* Lengths around every boundary of the decoders, and every method and system.
SPECIFICATION HeaderSpec
CONSTANTS
  StreamLens = {21, 40, 70}
  HeaderLens = {21, 22, 24, 25, 26, 32, 36, 44, 50}
  PathLens = {0, 1, 2, 12}
  ExtLens = {0, 2, 3, 4, 5, 12, 19, 27}
  CompLens = {0, 9, 15}
  InMethods = {"-lhd-", "-lh0-", "-lh7-", "-pm-"}
  InOsTypes = {"unknown", "unix", "os9", "os9_68k", "amiga", "lhark"}
  InExtTypes = {"common", "filename", "path", "unix_perms", "unix_uid_gid", "unix_username",
                "unix_group", "unix_timestamp", "windows_timestamps", "file_sizes", "os9",
                "unknown"}
  LEVEL_3_MAX_HEADER_LEN = 48
INVARIANTS InBounds WalksWhatWasRead LengthsExact Usable
