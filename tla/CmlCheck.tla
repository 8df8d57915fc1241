------------------------------- MODULE CmlCheck -------------------------------
(***************************************************************************)
(* cml-check: main() of check/main.c and cml_rulebase_parse() of           *)
(* libcml/rulebase.c, which the other front ends call too, once. Several   *)
(* files are read in merge mode into one rulebase, and checked together    *)
(* when all have been read.                                                *)
(*                                                                         *)
(* What went wrong is told by three things that must agree: a counter of   *)
(* the errors reported (cml_message_count[CML_ERROR]), which every file    *)
(* that can be opened sets back to 0, what each part returns, and the exit *)
(* status. What the parts find wrong, and how much, is open here; Cml1 is  *)
(* about what they do. A program that dies has no exit status.             *)
(***************************************************************************)
EXTENDS Naturals, Sequences

CONSTANTS
  Paths,      \* the names of files
  SuffixOf,   \* how each ends
  MaxFiles,   \* the bound on the files of one call
  MaxErrors   \* the bound on the errors one part reports

Endings == {"/Config.in", "/config.in", ".cml1", ".cml", "other"}

ASSUME PathsAssumption == SuffixOf \in [Paths -> Endings]
ASSUME CallBoundsAssumption == MaxFiles \in Nat /\ MaxErrors \in Nat

VARIABLES
  files,          \* the arguments
  nth,            \* which of them is being read, or was last
  stage,          \* the part of the program that comes next
  lang,           \* the parser that each file was given to
  message_count,  \* cml_message_count[CML_ERROR]
  started,        \* rb->start is set
  parsetest,      \* rb->parsetest
  failed,         \* of cml_rulebase_parse()
  ret,            \* of main()
  blamed,         \* the files that "failed to load" was said of
  reported        \* while which files an error was reported; 0 is the check of all together

checkVars == <<files, nth, stage, lang, message_count, started, parsetest, failed, ret, blamed,
               reported>>

merge_mode == Len(files) > 1

(* Errors are counted, and belong to what is being done.                   *)
Reporting(n, what) ==
  /\ message_count' = message_count + n
  /\ reported' = IF n > 0 THEN reported \cup {what} ELSE reported

-----------------------------------------------------------------------------
(* cml_rulebase_parse().                                                   *)

(* What strcmp() returns of the end of the name: 0 when it is the suffix.  *)
str_has_suffix(path, suffix) == IF SuffixOf[path] = suffix THEN 0 ELSE 1

(* No name ends in all three suffixes, so the first test always succeeds.  *)
ParserOf(path) ==
  IF \/ str_has_suffix(path, "/Config.in") # 0
     \/ str_has_suffix(path, "/config.in") # 0
     \/ str_has_suffix(path, ".cml1") # 0
  THEN "CML1"
  ELSE IF str_has_suffix(path, ".cml") # 0 THEN "CML2" ELSE "none"

cml_rulebase_parse ==
  /\ stage = "main" /\ nth < Len(files)
  /\ nth' = nth + 1
  /\ lang' = Append(lang, ParserOf(files[nth + 1]))
  /\ failed' = FALSE
  /\ stage' = "open"
  /\ UNCHANGED <<files, message_count, started, parsetest, ret, blamed, reported>>

(* yylex_push_file() fails, before the counter is set back.                *)
CannotOpen ==
  /\ stage = "open"
  /\ Reporting(1, nth)
  /\ failed' = TRUE
  /\ stage' = "test"
  /\ UNCHANGED <<files, nth, lang, started, parsetest, ret, blamed>>

(* Mutant: the errors of earlier files go on counting.                     *)
OpensCounting ==
  /\ stage = "open"
  /\ started' = TRUE
  /\ stage' = "yyparse"
  /\ UNCHANGED <<files, nth, lang, message_count, parsetest, failed, ret, blamed, reported>>

OpensFile ==
  /\ stage = "open"
  /\ message_count' = 0
  /\ started' = TRUE
  /\ stage' = "yyparse"
  /\ UNCHANGED <<files, nth, lang, parsetest, failed, ret, blamed, reported>>

(* yyparse() reports errors; it gives up on some and recovers from others. *)
(* The file may ask for its tests to be run.                               *)
Parses ==
  /\ stage = "yyparse"
  /\ \E n \in 0..MaxErrors, gave_up, tests \in BOOLEAN :
       /\ gave_up => n > 0
       /\ Reporting(n, nth)
       /\ failed' = (gave_up \/ message_count' > 0)
       /\ parsetest' = (parsetest \/ tests)
  /\ stage' = IF failed' \/ merge_mode THEN "test" ELSE "cml1_pass2"
  /\ UNCHANGED <<files, nth, lang, started, ret, blamed>>

(* cml1_pass2() returns nothing.                                           *)
Pass2 ==
  /\ stage = "cml1_pass2"
  /\ \E n \in 0..MaxErrors : Reporting(n, nth)
  /\ stage' = "post_parse"
  /\ UNCHANGED <<files, nth, lang, started, parsetest, failed, ret, blamed>>

(* cml_rulebase_post_parse() tells only of errors of its own.              *)
PostParse ==
  /\ stage = "post_parse"
  /\ \E n \in 0..MaxErrors : Reporting(n, nth)
  /\ failed' = (message_count' # message_count)
  /\ stage' = "test"
  /\ UNCHANGED <<files, nth, lang, started, parsetest, ret, blamed>>

(* cml_rulebase_run_test(): the tests of this file and of those before it, *)
(* whatever became of the file. A test that passes may have reported what  *)
(* it expected.                                                            *)
RunsTest ==
  /\ stage = "test"
  /\ IF parsetest
     THEN \E n \in 0..MaxErrors, passed \in BOOLEAN :
            /\ ~passed => n > 0
            /\ Reporting(n, nth)
            /\ failed' = (failed \/ ~passed)
     ELSE UNCHANGED <<message_count, reported, failed>>
  /\ stage' = "count"
  /\ UNCHANGED <<files, nth, lang, started, parsetest, ret, blamed>>

(* Mutant: what the parts return is taken for the whole answer.            *)
ReturnsUncounted ==
  /\ stage = "count"
  /\ ret' = IF failed THEN 2 ELSE ret
  /\ blamed' = IF failed THEN blamed \cup {nth} ELSE blamed
  /\ stage' = "main"
  /\ UNCHANGED <<files, nth, lang, started, parsetest, failed, message_count, reported>>

(* The counter has the last word, and main() remembers the answer. That    *)
(* there were errors counts as one more, but is none of its own.           *)
Returns ==
  /\ stage = "count"
  /\ IF message_count > 0
     THEN message_count' = message_count + 1 /\ failed' = TRUE
     ELSE UNCHANGED <<message_count, failed>>
  /\ ret' = IF failed' THEN 2 ELSE ret
  /\ blamed' = IF failed' THEN blamed \cup {nth} ELSE blamed
  /\ stage' = "main"
  /\ UNCHANGED <<files, nth, lang, started, parsetest, reported>>

-----------------------------------------------------------------------------
(* main() when all files have been read. In merge mode the second pass and *)
(* the checks are run now, whether or not some file failed.                *)
Exits ==
  /\ stage = "main" /\ nth = Len(files)
  /\ IF merge_mode
     THEN /\ started
          /\ \E n \in 0..MaxErrors : Reporting(n, 0)
          /\ ret' = IF message_count' # message_count THEN 2 ELSE ret
     ELSE UNCHANGED <<message_count, reported, ret>>
  /\ stage' = "exit"
  /\ UNCHANGED <<files, nth, lang, started, parsetest, failed, blamed>>

(* The assertions on the stacks fail after errors (Cml1Parse), a freeze    *)
(* test falls through to one that follows a null pointer, and so does the  *)
(* second pass when no file could be opened.                               *)
Crashes ==
  /\ \/ stage = "yyparse" /\ MaxErrors > 0
     \/ stage = "test" /\ parsetest
     \/ stage = "main" /\ nth = Len(files) /\ merge_mode /\ ~started
  /\ stage' = "dead"
  /\ UNCHANGED <<files, nth, lang, message_count, started, parsetest, failed, ret, blamed, reported>>

CheckInit ==
  /\ files \in UNION {[1..n -> Paths] : n \in 1..MaxFiles}
  /\ nth = 0
  /\ stage = "main"
  /\ lang = <<>>
  /\ message_count = 0
  /\ started = FALSE
  /\ parsetest = FALSE
  /\ failed = FALSE
  /\ ret = 0
  /\ blamed = {}
  /\ reported = {}

CheckNext ==
  \/ cml_rulebase_parse \/ CannotOpen \/ OpensFile \/ Parses \/ Pass2 \/ PostParse
  \/ RunsTest \/ Returns \/ Exits \/ Crashes

CheckSpec == CheckInit /\ [][CheckNext]_checkVars

-----------------------------------------------------------------------------
(* cml-check exits with 2 exactly when an error was reported: by a file, a *)
(* pass, a test or the check of all files together, and although the       *)
(* counter is set back between them.                                       *)
ExitTellsErrors == stage = "exit" => (ret = 2 <=> reported # {})

(* "failed to load rulebase" (check/main.c) is said of the files during    *)
(* which an error was reported and of no other, through a counter that is  *)
(* common to all files.                                                    *)
BlamesTheFile == stage = "exit" => blamed = reported \ {0}

(* "Automatically detects whether a rulebase filename is CML1 or CML2 and  *)
(* calls the appropriate parse routine" (ChangeLog).                       *)
LanguageByName ==
  \A i \in 1..Len(lang) : SuffixOf[files[i]] = ".cml" => lang[i] = "CML2"
=============================================================================
