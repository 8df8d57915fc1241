----------------------------- MODULE TerminalProofs -----------------------------
(***************************************************************************)
(* One accident does not lose a configuration, for every rulebase, every   *)
(* set of files and any number of saves, and what curses says at its end   *)
(* is true.                                                                *)
(***************************************************************************)
EXTENDS Terminal, TLAPS

(* The file is open for writing, or about to be: the old one has moved.    *)
Replacing(f) == saving.at \in {"open", "write"} /\ saving.file = f

SavingType ==
  \/ saving = Idle
  \/ /\ saving.at \in {"rename", "open", "write"}
     /\ saving.file \in Files
     /\ saving = [at |-> saving.at, file |-> saving.file, lines |-> saving.lines, of |-> saving.of]

(* What SurvivesAnAccident leaves out: before any accident every file that *)
(* has held a configuration holds one, but for the file that is being      *)
(* replaced, which is then under the name with .old.                       *)
DInv ==
  /\ SavingType
  /\ faults \in Nat
  /\ kept \subseteq Files
  /\ whole \subseteq DOMAIN disk
  /\ faults = 0 => \A f \in kept : IF Replacing(f) THEN Old(f) \in whole ELSE f \in whole
  /\ faults = 1 => \A f \in kept : Replacing(f) \/ f \in whole \/ Old(f) \in whole

(* Which files there are after one has been given another name.            *)
LEMMA MovedNames ==
  ASSUME NEW files, NEW f
  PROVE  DOMAIN Moved(files, f) =
           (DOMAIN files \ {f, Old(f)}) \cup (IF f \in DOMAIN files THEN {Old(f)} ELSE {})
BY DEF Moved

(* ... after one has been written.                                         *)
LEMMA WithName ==
  ASSUME NEW files, NEW f, NEW content
  PROVE  DOMAIN With(files, f, content) = DOMAIN files \cup {f}
BY DEF With

LEMMA StartsWhole == Init => DInv
BY ConfigAssumption DEF Init, DiskInit, DInv, SavingType, Idle, whole, Replacing

LEMMA BeginsWhole ==
  ASSUME DInv, NEW f \in Files, NEW v, SaveBegins(f, v)
  PROVE  DInv'
<1>1. saving' = [at |-> "rename", file |-> f, lines |-> Lines(v), of |-> v]
  BY DEF SaveBegins
<1>2. SavingType'
  BY <1>1 DEF SavingType
<1> QED BY <1>1, <1>2 DEF DInv, SaveBegins, whole, Replacing, Idle

LEMMA RenamesWhole ==
  ASSUME DInv, SaveRenames
  PROVE  DInv'
<1> DEFINE f == saving.file
<1>1. /\ saving.at = "rename" /\ f \in Files
      /\ saving' = [at |-> "open", file |-> f, lines |-> saving.lines, of |-> saving.of]
  BY DEF DInv, SavingType, SaveRenames, Idle
<1>2. SavingType'
  BY <1>1 DEF SavingType
<1>3. \A g \in Files : Replacing(g)' <=> g = f
  BY <1>1 DEF Replacing
<1>4. CASE f \in DOMAIN disk
  <2>1. DOMAIN disk' = (DOMAIN disk \ {f, Old(f)}) \cup {Old(f)}
    BY <1>4, MovedNames DEF SaveRenames
  <2>2. whole' = (whole \ {f, Old(f)}) \cup (IF f \in whole THEN {Old(f)} ELSE {})
    BY <1>4, MovedNames DEF SaveRenames, whole
  <2>3. (whole \subseteq DOMAIN disk)'
    BY <2>1, <2>2 DEF DInv
  <2>4. faults = 0 => \A g \in kept : IF g = f THEN Old(g) \in whole' ELSE g \in whole'
    BY <1>1, <2>2, OldAssumption DEF DInv, Replacing
  <2>5. faults = 1 => \A g \in kept : g = f \/ g \in whole' \/ Old(g) \in whole'
    BY <1>1, <2>2, OldAssumption DEF DInv, Replacing
  <2> QED BY <1>2, <1>3, <2>3, <2>4, <2>5 DEF DInv, SaveRenames
<1>5. CASE f \notin DOMAIN disk
  <2>1. UNCHANGED <<disk, held, kept, faults>>
    BY <1>5 DEF SaveRenames
  <2>2. faults = 0 => f \notin kept
    BY <1>1, <1>5 DEF DInv, Replacing
  <2> QED BY <1>1, <1>2, <1>3, <2>1, <2>2 DEF DInv, Replacing, whole
<1> QED BY <1>4, <1>5

LEMMA OpensWhole ==
  ASSUME DInv, SaveOpens
  PROVE  DInv'
<1> DEFINE f == saving.file
<1>1. /\ saving.at = "open" /\ f \in Files
      /\ saving' = [at |-> "write", file |-> f, lines |-> saving.lines, of |-> saving.of]
  BY DEF DInv, SavingType, SaveOpens, Idle
<1>2. SavingType'
  BY <1>1 DEF SavingType
<1>3. \A g \in Files : (Replacing(g) <=> g = f) /\ (Replacing(g)' <=> g = f)
  BY <1>1 DEF Replacing
<1>4. DOMAIN disk' = DOMAIN disk \cup {f}
  BY WithName DEF SaveOpens
<1>5. whole' = whole \ {f}
  BY DEF SaveOpens, whole, Restrict
<1> QED BY <1>1, <1>2, <1>3, <1>4, <1>5, OldAssumption DEF DInv, SaveOpens

(* A save that comes to its end, well or not, or is cut short.             *)
LEMMA EndsWhole ==
  ASSUME DInv, saving' = Idle, (whole \subseteq DOMAIN disk)',
         \/ UNCHANGED <<held, kept>> /\ \/ faults' = faults + 1
                                        \/ faults' = faults /\ saving.at \notin {"open", "write"}
         \/ /\ whole' = whole \cup {saving.file} /\ kept' = kept \cup {saving.file}
            /\ saving.at = "write" /\ faults' = faults
  PROVE  DInv'
<1>1. \A f : ~Replacing(f)'
  BY DEF Replacing, Idle
<1>2. SavingType'
  BY DEF SavingType
<1>3. faults' \in Nat /\ faults \in Nat
  BY DEF DInv
<1>4. CASE UNCHANGED <<held, kept>> /\ faults' = faults + 1
  BY <1>1, <1>2, <1>3, <1>4 DEF DInv, whole
<1>5. CASE UNCHANGED <<held, kept>> /\ faults' = faults /\ saving.at \notin {"open", "write"}
  BY <1>1, <1>2, <1>3, <1>5 DEF DInv, whole, Replacing
<1>6. CASE /\ whole' = whole \cup {saving.file} /\ kept' = kept \cup {saving.file}
           /\ saving.at = "write" /\ faults' = faults
  <2>1. saving.file \in Files
    BY <1>6 DEF DInv, SavingType, Idle
  <2> QED BY <1>1, <1>2, <1>3, <1>6, <2>1 DEF DInv, Replacing
<1> QED BY <1>4, <1>5, <1>6

LEMMA FailsWhole ==
  ASSUME DInv, SaveFails
  PROVE  DInv'
<1>1. (whole \subseteq DOMAIN disk)'
  BY DEF SaveFails, whole, DInv
<1> QED BY <1>1, EndsWhole DEF SaveFails

LEMMA ClosesWhole ==
  ASSUME DInv, SaveCloses
  PROVE  DInv'
<1>1. CASE /\ disk' = With(disk, saving.file, saving.lines)
           /\ held' = With(held, saving.file, saving.of)
           /\ kept' = kept \cup {saving.file} /\ UNCHANGED faults
  <2>1. whole' = whole \cup {saving.file} /\ DOMAIN disk' = DOMAIN disk \cup {saving.file}
    BY <1>1, WithName DEF whole
  <2> QED BY <1>1, <2>1, EndsWhole DEF SaveCloses, DInv
<1>2. CASE /\ \E part \in Partial(saving.lines) : disk' = With(disk, saving.file, part)
           /\ faults' = faults + 1 /\ UNCHANGED <<held, kept>>
  <2>1. DOMAIN disk' = DOMAIN disk \cup {saving.file}
    BY <1>2, WithName
  <2>2. (whole \subseteq DOMAIN disk)'
    BY <1>2, <2>1 DEF whole, DInv
  <2> QED BY <1>2, <2>2, EndsWhole DEF SaveCloses
<1> QED BY <1>1, <1>2 DEF SaveCloses

LEMMA KilledWhole ==
  ASSUME DInv, Killed
  PROVE  DInv'
<1>1. CASE saving.at \in {"idle", "rename"}
  <2>1. (whole \subseteq DOMAIN disk)'
    BY <1>1 DEF Killed, whole, DInv
  <2> QED BY <1>1, <2>1, EndsWhole DEF Killed
<1>2. CASE saving.at \notin {"idle", "rename"}
  <2>1. DOMAIN disk \subseteq DOMAIN disk'
    <3>1. CASE saving.at = "open" BY <1>2, <3>1 DEF Killed
    <3>2. CASE saving.at # "open"
      <4>1. PICK part \in Partial(saving.lines) : disk' = With(disk, saving.file, part)
        BY <1>2, <3>2 DEF Killed
      <4>2. DOMAIN disk' = DOMAIN disk \cup {saving.file}
        BY <4>1, WithName
      <4> QED BY <4>2
    <3> QED BY <3>1, <3>2
  <2>2. (whole \subseteq DOMAIN disk)'
    BY <2>1 DEF Killed, whole, DInv
  <2> QED BY <1>2, <2>2, EndsWhole DEF Killed
<1> QED BY <1>1, <1>2

LEMMA StaysWhole == DInv /\ [Next]_vars => DInv'
<1> SUFFICES ASSUME DInv, [Next]_vars PROVE DInv' OBVIOUS
<1>1. CASE UNCHANGED diskVars
  BY <1>1 DEF diskVars, DInv, SavingType, Replacing, whole
<1>2. ASSUME NEW f \in Files, show_saveas(f) PROVE DInv'
  BY <1>2, BeginsWhole DEF show_saveas
<1>3. CASE ui_run_ends
  BY <1>1, <1>3, BeginsWhole, ConfigAssumption DEF ui_run_ends
<1>4. CASE walk_ends
  BY <1>4, BeginsWhole, ConfigAssumption DEF walk_ends
<1>5. CASE Save
  BY <1>5, RenamesWhole, OpensWhole, ClosesWhole, FailsWhole DEF Save
<1>6. CASE Kill
  BY <1>6, KilledWhole DEF Kill
<1>7. CASE \/ \E p \in {"curses", "glass"} : StartUp(p)
           \/ \E dialog \in {"load", "saveas"} : handle_command_event(dialog)
           \/ show_menu_returns \/ dialog_left \/ UNCHANGED vars
  BY <1>1, <1>7 DEF StartUp, handle_command_event, show_menu_returns, dialog_left, vars
<1>8. CASE \E n \in Nodes : handle_event(n)
  BY <1>1, <1>8 DEF handle_event, handle_event_toggle, show_entry, show_radio, show_menu, set_value, show_broken_rules, Crash, Dies
<1>9. CASE query_visitor_passes \/ get_value \/ get_value_radio \/ quitting
  BY <1>1, <1>9 DEF query_visitor_passes, get_value, get_value_radio, quitting, Refuse, GoesOn, Crash, Dies
<1>10. ASSUME NEW f \in Files, show_load(f) PROVE DInv'
  <2>1. UNCHANGED diskVars
    BY <1>10 DEF show_load, Dies
  <2> QED BY <1>1, <2>1
<1> QED BY <1>2, <1>3, <1>4, <1>5, <1>6, <1>7, <1>8, <1>9, <1>10 DEF Next

(* The invariant that the theorem rests on: where the configuration is     *)
(* while the file is being replaced.                                       *)
THEOREM Invariance == Spec => []DInv
BY StartsWhole, StaysWhole, PTL DEF Spec

(* After one accident, whenever it strikes, every file that has held a     *)
(* whole configuration still does, or the file with .old does: save.c.     *)
THEOREM OneAccident == Spec => []SurvivesAnAccident
<1>1. DInv => SurvivesAnAccident
  BY DEF DInv, SurvivesAnAccident, Replacing, Idle
<1> QED BY <1>1, Invariance, PTL

-----------------------------------------------------------------------------
(* The last words.                                                         *)

(* What LastWordsTrue leaves out: as long as curses says that nothing has  *)
(* changed, the values are those of the last load or save, and what is     *)
(* written at the end is what is shown.                                    *)
WordsInv ==
  /\ faults \in Nat
  /\ saving # Idle => phase \in {"saveas", "exit"}
  /\ phase \in {"menus", "load", "saveas"} /\ ~changed => basis = value
  /\ phase = "exit" => saving # Idle /\ saving.file = Config /\ saving.lines = Lines(value)
  /\ LastWordsTrue

(* Nothing that the words are about changes, and the program goes on.      *)
LEMMA SameValues ==
  ASSUME UNCHANGED <<chosen, loaded>>
  PROVE  value' = value
BY DEF value

LEMMA StartsUnsaid == Init => WordsInv
<1> SUFFICES ASSUME Init PROVE WordsInv
  OBVIOUS
<1>1. saving = Idle /\ faults = 0
  BY DEF Init, DiskInit
<1>2. phase = "ended" /\ said = None
  BY DEF Init
<1>3. said # "no changes" /\ said # "saved"
  BY <1>2, WordsAssumption
<1> QED BY <1>1, <1>2, <1>3 DEF WordsInv, LastWordsTrue

LEMMA StartUpUnsaid ==
  ASSUME WordsInv, NEW p \in {"curses", "glass"}, StartUp(p)
  PROVE  WordsInv'
<1>1. saving = Idle
  BY DEF StartUp, WordsInv, Over
<1>2. basis' = value'
  BY DEF StartUp, value
<1>3. \/ phase' = "ended" /\ said' = "no file"
      \/ phase' \in {"menus", "asking"} /\ said' = None
  BY DEF StartUp, Ends
<1>4. UNCHANGED <<saving, faults>>
  BY DEF StartUp, diskVars
<1> QED BY <1>1, <1>2, <1>3, <1>4 DEF WordsInv, LastWordsTrue

(* A value is set, or its setting is refused.                              *)
LEMMA SetKeepsWords ==
  ASSUME WordsInv, Waits("menus"), NEW n, NEW x, set_value(n, x)
  PROVE  WordsInv'
<1>1. phase' = "menus" /\ UNCHANGED <<saving, faults>>
  BY DEF set_value, Waits, screenVars, diskVars
<1>2. CASE Accepted(n, x)
  BY <1>1, <1>2 DEF set_value, WordsInv, LastWordsTrue, Waits
<1>3. CASE ~Accepted(n, x)
  <2>1. UNCHANGED <<chosen, changed, basis, loaded>>
    BY <1>3 DEF set_value, show_broken_rules, userVars
  <2> QED BY <1>1, <2>1, SameValues DEF WordsInv, LastWordsTrue, Waits
<1> QED BY <1>2, <1>3

LEMMA DeathSaysNothing ==
  ASSUME WordsInv, saving = Idle, NEW how \in {"crashed", "aborted"}, Dies(how)
  PROVE  WordsInv'
BY DEF Dies, diskVars, WordsInv, LastWordsTrue

LEMMA EventKeepsWords ==
  ASSUME WordsInv, NEW n, handle_event(n)
  PROVE  WordsInv'
<1>1. Waits("menus") /\ saving = Idle
  BY DEF handle_event, Waits
<1>2. CASE handle_event_toggle(n) \/ show_entry(n)
  BY <1>1, <1>2, SetKeepsWords DEF handle_event_toggle, show_entry
<1>3. CASE show_radio(n)
  BY <1>1, <1>3, SetKeepsWords, DeathSaysNothing DEF show_radio, Crash
<1>4. CASE show_menu(n)
  BY <1>1, <1>4, SameValues DEF show_menu, userVars, runVars, diskVars, WordsInv, LastWordsTrue, Waits
<1> QED BY <1>2, <1>3, <1>4 DEF handle_event

LEMMA LoadKeepsWords ==
  ASSUME WordsInv, NEW f, show_load(f)
  PROVE  WordsInv'
<1> DEFINE bound == rb_parse(chosen, disk[f])
<1> HIDE DEF bound
<1>1. saving = Idle /\ phase = "load"
  BY DEF show_load, Waits
<1>2. CASE SecondLoad(bound)
  <2>1. Dies("aborted")
    BY <1>2 DEF show_load, bound
  <2> QED BY <1>1, <2>1, DeathSaysNothing
<1>3. CASE ~SecondLoad(bound)
  <2>1. /\ basis' = IF changed THEN None ELSE Values(chosen', loaded')
        /\ phase' = "menus"
        /\ UNCHANGED <<changed, said, diskVars>>
    BY <1>3 DEF show_load, bound
  <2> QED BY <1>1, <2>1 DEF WordsInv, LastWordsTrue, value, diskVars
<1> QED BY <1>2, <1>3

(* A save begins with the values that are shown.                           *)
LEMMA BeginsWithShown ==
  ASSUME WordsInv, NEW f, SaveBegins(f, value), UNCHANGED <<chosen, loaded, changed, basis>>,
         \/ phase = "saveas" /\ phase' = "saveas"
         \/ f = Config /\ phase' = "exit"
  PROVE  WordsInv'
<1>1. saving' = [at |-> "rename", file |-> f, lines |-> Lines(value), of |-> value] /\ faults' = faults
  BY DEF SaveBegins
<1>2. saving' # Idle /\ saving'.file = f /\ saving'.lines = Lines(value')
  BY <1>1, SameValues DEF Idle
<1> QED BY <1>1, <1>2, SameValues DEF WordsInv, LastWordsTrue

(* The steps of a save do not change what is shown. One that comes to its  *)
(* end has written what is shown, or was cut short.                        *)
LEMMA SaveKeepsWords ==
  ASSUME WordsInv, DInv, Save
  PROVE  WordsInv'
<1>1. saving # Idle
  BY DEF Save, SaveRenames, SaveOpens, SaveCloses, SaveFails, Idle
<1>2. phase \in {"saveas", "exit"} /\ SavingType
  BY <1>1 DEF WordsInv, DInv
<1>3. CASE (SaveRenames \/ SaveOpens) /\ UNCHANGED <<userVars, runVars, screenVars>>
  <2>1. /\ saving'.at \in {"open", "write"}
        /\ saving'.file = saving.file /\ saving'.lines = saving.lines
    BY <1>1, <1>2, <1>3 DEF SavingType, SaveRenames, SaveOpens
  <2>2. saving' # Idle
    BY <2>1 DEF Idle
  <2>3. UNCHANGED <<chosen, loaded, changed, basis, phase, said, faults>>
    BY <1>3 DEF userVars, runVars, screenVars, SaveRenames, SaveOpens
  <2> QED BY <1>1, <1>2, <2>1, <2>2, <2>3, SameValues DEF WordsInv, LastWordsTrue
<1>4. CASE SaveCloses /\ Saved
  <2>1. saving' = Idle /\ UNCHANGED <<chosen, loaded>> /\ value' = value
    BY <1>4, SameValues DEF SaveCloses, Saved
  <2>2. CASE phase = "saveas"
    <3>1. phase' = "menus" /\ basis' = value
      BY <1>4, <2>2 DEF Saved
    <3>2. faults' \in Nat
      BY <1>4 DEF SaveCloses, WordsInv
    <3> QED BY <2>1, <3>1, <3>2 DEF WordsInv, LastWordsTrue
  <2>3. CASE phase = "exit"
    <3>1. phase' = "ended" /\ said' = "saved"
      BY <1>4, <2>3 DEF Saved, Ends
    <3>2. saving.file = Config /\ saving.lines = Lines(value)
      BY <2>3 DEF WordsInv
    <3>3. faults' \in Nat /\ (faults' > 0 \/ (Config \in DOMAIN disk' /\ disk'[Config] = Lines(value')))
      <4>1. CASE disk' = With(disk, saving.file, saving.lines) /\ UNCHANGED faults
        BY <2>1, <3>2, <4>1 DEF With, WordsInv
      <4>2. CASE faults' = faults + 1
        BY <4>2 DEF WordsInv
      <4> QED BY <1>4, <4>1, <4>2 DEF SaveCloses
    <3> QED BY <2>1, <3>1, <3>3 DEF WordsInv, LastWordsTrue
  <2> QED BY <1>2, <2>2, <2>3
<1>5. CASE SaveFails /\ NotSaved
  <2>1. saving' = Idle /\ UNCHANGED <<chosen, loaded, changed, basis>>
    BY <1>5 DEF SaveFails, NotSaved, userVars, runVars
  <2>2. faults' = faults \/ faults' = faults + 1
    BY <1>5 DEF SaveFails
  <2>3. faults' \in Nat
    BY <2>2 DEF WordsInv
  <2>4. CASE phase = "saveas"
    <3>1. phase' = "saveas"
      BY <1>5, <2>4 DEF NotSaved
    <3> QED BY <2>1, <2>3, <2>4, <3>1, SameValues DEF WordsInv, LastWordsTrue
  <2>5. CASE phase # "saveas"
    <3>1. phase' = "ended" /\ said' = "not saved"
      BY <1>5, <2>5 DEF NotSaved, Ends
    <3> QED BY <2>1, <2>3, <3>1, SameValues DEF WordsInv, LastWordsTrue
  <2> QED BY <2>4, <2>5
<1> QED BY <1>3, <1>4, <1>5 DEF Save

LEMMA KillSaysNothing ==
  ASSUME WordsInv, Kill
  PROVE  WordsInv'
<1>1. saving' = Idle /\ phase' = "killed" /\ faults' \in Nat
  BY DEF Kill, Killed, WordsInv
<1> QED BY <1>1 DEF WordsInv, LastWordsTrue

LEMMA StaysTrue == WordsInv /\ DInv /\ [Next]_vars => WordsInv'
<1> SUFFICES ASSUME WordsInv, DInv, [Next]_vars PROVE WordsInv'
  OBVIOUS
<1>1. ASSUME NEW p \in {"curses", "glass"}, StartUp(p) PROVE WordsInv'
  BY <1>1, StartUpUnsaid
<1>2. ASSUME NEW n \in Nodes, handle_event(n) PROVE WordsInv'
  BY <1>2, EventKeepsWords
<1>3. CASE \/ \E dialog \in {"load", "saveas"} : handle_command_event(dialog)
           \/ show_menu_returns \/ dialog_left
  <2>1. /\ UNCHANGED <<chosen, loaded, changed, basis, saving, faults>> /\ saving = Idle
        /\ phase \in {"menus", "load", "saveas"} /\ phase' \in {"menus", "load", "saveas"}
    BY <1>3 DEF handle_command_event, show_menu_returns, dialog_left, Waits, userVars, runVars, diskVars
  <2> QED BY <2>1, SameValues DEF WordsInv, LastWordsTrue
<1>4. ASSUME NEW f \in Files, show_load(f) PROVE WordsInv'
  BY <1>4, LoadKeepsWords
<1>5. ASSUME NEW f \in Files, show_saveas(f) PROVE WordsInv'
  BY <1>5, BeginsWithShown DEF show_saveas, Waits, userVars, runVars, screenVars
<1>6. CASE ui_run_ends
  <2>1. phase = "menus" /\ saving = Idle /\ UNCHANGED <<chosen, loaded, changed, basis>>
    BY <1>6 DEF ui_run_ends, Waits, userVars, runVars
  <2>2. CASE ~changed /\ Ends("no changes") /\ UNCHANGED diskVars
    BY <2>1, <2>2, SameValues DEF Ends, diskVars, WordsInv, LastWordsTrue
  <2>3. CASE Ends("not saved") /\ UNCHANGED diskVars
    BY <2>1, <2>3, SameValues DEF Ends, diskVars, WordsInv, LastWordsTrue
  <2>4. CASE SaveBegins(Config, value) /\ phase' = "exit"
    BY <2>1, <2>4, BeginsWithShown
  <2> QED BY <1>6, <2>2, <2>3, <2>4 DEF ui_run_ends
<1>7. CASE walk_ends
  BY <1>7, BeginsWithShown DEF walk_ends, userVars, runVars
<1>8. CASE query_visitor_passes \/ get_value \/ get_value_radio \/ quitting
  <2>1. saving = Idle /\ phase = "asking"
    BY <1>8 DEF query_visitor_passes, get_value, get_value_radio, quitting, Asking, Waits
  <2>2. CASE Crash
    BY <2>1, <2>2, DeathSaysNothing DEF Crash
  <2>3. CASE quitting
    BY <2>1, <2>3 DEF quitting, Ends, diskVars, WordsInv, LastWordsTrue
  <2>4. CASE \E i : GoesOn(i)
    BY <2>1, <2>4 DEF GoesOn, diskVars, WordsInv, LastWordsTrue
  <2> QED BY <1>8, <2>2, <2>3, <2>4 DEF query_visitor_passes, get_value, get_value_radio, Refuse
<1>9. CASE Save
  BY <1>9, SaveKeepsWords
<1>10. CASE Kill
  BY <1>10, KillSaysNothing
<1>11. CASE UNCHANGED vars
  BY <1>11, SameValues DEF vars, userVars, runVars, screenVars, diskVars, WordsInv, LastWordsTrue
<1> QED BY <1>1, <1>2, <1>3, <1>4, <1>5, <1>6, <1>7, <1>8, <1>9, <1>10, <1>11 DEF Next

(* What curses or glass says last is true: nothing has changed since the   *)
(* last load or save, or the file holds what is shown, unless some save    *)
(* was cut short (ui_run(), curses/main.c).                                *)
THEOREM LastWords == Spec => []LastWordsTrue
<1>1. WordsInv => LastWordsTrue
  BY DEF WordsInv
<1> QED BY <1>1, StartsUnsaid, StaysTrue, Invariance, PTL DEF Spec
=============================================================================
