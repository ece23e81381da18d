------------------------------ MODULE Options ------------------------------
(***************************************************************************)
(* src/main.c and src/options.h: what the command argument of lha asks     *)
(* for.  An argument is a sequence of characters.  What may be missing (the*)
(* result of parsing, extract_path) is a set of at most one element.       *)
(***************************************************************************)
EXTENDS Integers, Sequences

init_options ==
  [overwrite_policy |-> "PROMPT", quiet |-> 0, verbose |-> FALSE, dry_run |-> FALSE,
   extract_path |-> {}, use_path |-> TRUE]

mode_for_char(c) ==
  CASE c = "l" -> "LIST"
    [] c = "v" -> "LIST_VERBOSE"
    [] c = "t" -> "CRC_CHECK"
    [] c \in {"e", "x"} -> "EXTRACT"
    [] c = "p" -> "PRINT"
    [] OTHER -> "UNKNOWN"

(* The quiet levels that may follow "q". *)
Level == [c \in {"0", "1", "2", "3", "4", "5", "6", "7", "8", "9"} |->
  CASE c = "0" -> 0 [] c = "1" -> 1 [] c = "2" -> 2 [] c = "3" -> 3 [] c = "4" -> 4
    [] c = "5" -> 5 [] c = "6" -> 6 [] c = "7" -> 7 [] c = "8" -> 8 [] c = "9" -> 9]

Starts(arg, chars) == arg # <<>> /\ Head(arg) \in chars

(* The option letters from arg on.  A level is omitted or follows its "q". *)
(* All that follows "w", but for one "=", is the directory.                *)
RECURSIVE parse_options(_, _)
parse_options(arg, options) ==
  IF arg = <<>> THEN {options}
  ELSE LET rest == Tail(arg)
       IN  CASE Head(arg) = "f" -> parse_options(rest, [options EXCEPT !.overwrite_policy = "ALL"])
             [] Head(arg) = "i" -> parse_options(rest, [options EXCEPT !.use_path = FALSE])
             [] Head(arg) = "n" -> parse_options(rest, [options EXCEPT !.dry_run = TRUE])
             [] Head(arg) = "v" -> parse_options(rest, [options EXCEPT !.verbose = TRUE])
             [] Head(arg) = "q" ->
                  LET given == Starts(rest, DOMAIN Level)
                  IN  parse_options(IF given THEN Tail(rest) ELSE rest,
                        [options EXCEPT !.quiet = IF given THEN Level[Head(rest)] ELSE 2,
                                        !.overwrite_policy = "ALL"])
             [] Head(arg) = "w" ->
                  {[options EXCEPT !.extract_path =
                      {IF Starts(rest, {"="}) THEN Tail(rest) ELSE rest}]}
             [] OTHER -> {}

(* The mode and the options for the argument cmd, if it is understood. *)
parse_command_line(cmd) ==
  LET arg == IF Starts(cmd, {"-"}) THEN Tail(cmd) ELSE cmd
  IN  IF arg = <<>> \/ mode_for_char(Head(arg)) = "UNKNOWN" THEN {}
      ELSE {[mode |-> mode_for_char(Head(arg)), options |-> options] :
              options \in parse_options(Tail(arg), init_options)}
=============================================================================
