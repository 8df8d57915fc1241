-------------------------------- MODULE Terminal --------------------------------
(***************************************************************************)
(* The programs for a terminal: curses/main.c, a loop of menus, each of    *)
(* which calls the next, and glass/main.c, which asks one question after   *)
(* another; with the configuration file between one run and the next.      *)
(*                                                                         *)
(* A dialog that shows a help text, or that is answered with nothing that  *)
(* counts, comes up again; this is no step here.                           *)
(***************************************************************************)
EXTENDS Configfile

CONSTANTS
  Config,     \* defconfig_filename
  MaxRuns     \* the bound on how often a program is started

ASSUME ConfigAssumption == Config \in Files
ASSUME WordsAssumption == None \notin {"no changes", "saved"}

VARIABLES
  prog,       \* "curses" or "glass"
  phase,      \* what the program is doing, or how it ended
  runs,
  chosen,     \* what the user has set: frozen
  loaded,     \* what the file has set
  menus,      \* curses: the menus on the screen, innermost last
  changed,
  asked,      \* glass: where in the walk we are
  basis,      \* the values after the last load or save, until they are changed
  said        \* the last words of the program

userVars == <<chosen, changed>>
runVars == <<prog, runs, loaded, basis>>
screenVars == <<phase, menus, asked, said>>
vars == <<userVars, runVars, screenVars, diskVars>>

value == Values(chosen, loaded)

Over == {"ended", "crashed", "aborted", "killed"}

(* The program waits for the user.                                         *)
Waits(p) == phase = p /\ saving = Idle

Ends(words) == phase' = "ended" /\ said' = words

(* What was in memory is gone.                                             *)
Forgotten ==
  /\ chosen' = [s \in {} |-> None] /\ loaded' = chosen'
  /\ menus' = <<>> /\ changed' = FALSE /\ asked' = 1
  /\ basis' = None /\ said' = None

Dies(how) ==
  /\ phase' = how
  /\ Forgotten
  /\ UNCHANGED <<prog, runs, diskVars>>

(* A null or wild pointer is followed.                                     *)
Crash == Dies("crashed")

-----------------------------------------------------------------------------
(* main()                                                                  *)

(* Only curses/ goes on without a configuration file.                      *)
StartUp(p) ==
  /\ phase \in Over /\ runs < MaxRuns
  /\ prog' = p
  /\ runs' = runs + 1
  /\ chosen' = [s \in {} |-> None]
  /\ loaded' = rb_parse(chosen', IF Config \in DOMAIN disk THEN disk[Config] ELSE <<>>)
  /\ basis' = Values(chosen', loaded')
  /\ changed' = FALSE
  /\ menus' = IF p = "curses" THEN <<Start>> ELSE <<>>
  /\ asked' = 1
  /\ IF p = "glass" /\ Config \notin DOMAIN disk THEN Ends("no file")
     ELSE said' = None /\ phase' = IF p = "curses" THEN "menus" ELSE "asking"
  /\ UNCHANGED diskVars

(* A value is set and committed with freeze: the rules refuse it when they *)
(* and what is frozen leave nothing else.                                  *)
Accepted(n, x) == Completions(Sets(n, x) @@ chosen) # {}

Choose(n, x) == chosen' = Sets(n, x) @@ chosen

(* Mutant: curses/main.c forgets that something has changed.               *)
set_value_quietly(n, x) ==
  /\ IF Accepted(n, x) THEN Choose(n, x) ELSE UNCHANGED chosen
  /\ UNCHANGED <<changed, runVars, screenVars, diskVars>>

-----------------------------------------------------------------------------
(* curses/main.c                                                           *)

(* The broken rules, if any, are shown in a box until the user leaves it.  *)
show_broken_rules == UNCHANGED <<userVars, basis>>

set_value(n, x) ==
  /\ IF Accepted(n, x) THEN Choose(n, x) /\ changed' = TRUE /\ basis' = None
     ELSE show_broken_rules
  /\ UNCHANGED <<prog, runs, loaded, screenVars, diskVars>>

(* A child of the menu that is shown.                                      *)
Shown(m, n) == n # Start /\ Parent[n] = m /\ Visible(value, n)

(* handle_event(): what a key makes of the value.                          *)
Pressed(n, key) ==
  CASE key # "space"           -> key
    [] Type[n] = "boolean"     -> IF value[n] = "y" THEN "n" ELSE "y"
    [] OTHER                   -> [n |-> "m", y |-> "n", m |-> "y"][value[n]]

Keys(n) == {"space", "y", "n"} \cup (IF Type[n] = "tristate" THEN {"m"} ELSE {})

handle_event_toggle(n) ==
  /\ Kind[n] = "symbol" /\ Type[n] \in {"boolean", "tristate"}
  /\ \E key \in Keys(n) : set_value(n, Pressed(n, key))

(* show_string(), show_int(): there is no other way out than OK.           *)
show_entry(n) ==
  /\ Kind[n] = "symbol" /\ Type[n] \in {"string", "integer"}
  /\ \E x \in Data[n] : set_value(n, x)

(* show_radio(): lxdialog names the child that is selected. When it is the *)
(* current one, the name of the other one is looked for, and there is none.*)
show_radio(n) ==
  /\ Kind[n] = "radio"
  /\ \E child \in {s \in Symbols : Parent[s] = n} :
       IF value[child] # "y" THEN set_value(child, "y") ELSE Crash

show_menu(n) ==
  /\ Kind[n] = "menu"
  /\ \E child \in Nodes : Shown(n, child)
  /\ menus' = Append(menus, n)
  /\ UNCHANGED <<userVars, runVars, phase, asked, said, diskVars>>

handle_event(n) ==
  /\ Waits("menus") /\ menus # <<>>
  /\ Shown(Last(menus), n)
  /\ handle_event_toggle(n) \/ show_entry(n) \/ show_radio(n) \/ show_menu(n)

(* Exit, or the menu has become empty.                                     *)
show_menu_returns ==
  /\ Waits("menus") /\ menus # <<>>
  /\ menus' = Front(menus)
  /\ UNCHANGED <<userVars, runVars, phase, asked, said, diskVars>>

handle_command_event(dialog) ==
  /\ Waits("menus") /\ menus = <<Start>>
  /\ phase' = dialog
  /\ UNCHANGED <<userVars, runVars, menus, asked, said, diskVars>>

(* The empty name leaves the dialog.                                       *)
dialog_left ==
  /\ Waits("load") \/ Waits("saveas")
  /\ phase' = "menus"
  /\ UNCHANGED <<userVars, runVars, menus, asked, said, diskVars>>

(* Lines of an earlier file have left a transaction of the start menu, and *)
(* a line now opens the next one: the assertion of module Transactions     *)
(* that the second load of a session fails (TriggerAssert).                *)
SecondLoad(bound) == DOMAIN loaded # {} /\ DOMAIN bound # {}

(* show_load(): what is set already stays, unless the file sets it. That   *)
(* lines were refused is not among what cml_rulebase_commit() reports.     *)
show_load(f) ==
  LET bound == rb_parse(chosen, disk[f])
  IN  /\ Waits("load")
      /\ f \in DOMAIN disk
      /\ IF SecondLoad(bound) THEN Dies("aborted")
         ELSE /\ loaded' = bound @@ loaded
              /\ chosen' = Restrict(chosen, DOMAIN chosen \ DOMAIN bound)
              /\ basis' = IF changed THEN None ELSE Values(chosen', loaded')
              /\ phase' = "menus"
              /\ UNCHANGED <<prog, runs, changed, menus, asked, said, diskVars>>

show_saveas(f) ==
  /\ Waits("saveas")
  /\ SaveBegins(f, value)
  /\ UNCHANGED <<userVars, runVars, screenVars>>

(* ui_run(): the root menu has returned.                                   *)
ui_run_ends ==
  /\ Waits("menus") /\ menus = <<>>
  /\ IF ~changed THEN Ends("no changes") /\ UNCHANGED diskVars
     ELSE \/ Ends("not saved") /\ UNCHANGED diskVars
          \/ SaveBegins(Config, value) /\ phase' = "exit" /\ UNCHANGED said
  /\ UNCHANGED <<userVars, runVars, menus, asked>>

-----------------------------------------------------------------------------
(* glass/main.c                                                            *)

(* The first node of the walk that is not below the one at i.              *)
After(i) ==
  CHOOSE j \in (i + 1)..(Len(Order) + 1) :
    /\ j <= Len(Order) => Order[i] \notin Above[Order[j]]
    /\ \A k \in (i + 1)..(j - 1) : Order[i] \in Above[Order[k]]

Node == Order[asked]

Asking == Waits("asking") /\ asked <= Len(Order)

GoesOn(i) ==
  /\ asked' = i
  /\ UNCHANGED <<changed, runVars, phase, menus, said, diskVars>>

(* query_visitor() returns CML_SKIP for what is not visible; a menu is     *)
(* only a heading.                                                         *)
query_visitor_passes ==
  /\ Asking
  /\ \/ ~Visible(value, Node) /\ GoesOn(After(asked))
     \/ Visible(value, Node) /\ Kind[Node] = "menu" /\ GoesOn(asked + 1)
  /\ UNCHANGED chosen

(* The answer is refused. The question comes again if there are broken     *)
(* rules to show; there may be none.                                       *)
Refuse(next) ==
  /\ UNCHANGED chosen
  /\ GoesOn(asked) \/ GoesOn(next)

(* What an answer can mean: a choice by its name, the current or the first *)
(* choice if it is empty, or any value if there are no choices.            *)
choice_lookup(n) == Data[n]

get_value ==
  /\ Asking /\ Visible(value, Node) /\ Kind[Node] = "symbol"
  /\ \E x \in choice_lookup(Node) :
       IF Accepted(Node, x) THEN Choose(Node, x) /\ GoesOn(asked + 1) ELSE Refuse(asked + 1)

(* The choices of a radio menu have the type of a value that has not been  *)
(* read yet: the pointer to it is whatever the stack held.                 *)
get_value_radio ==
  /\ Asking /\ Visible(value, Node) /\ Kind[Node] = "radio"
  /\ \/ Crash
     \/ \E child \in {s \in Symbols : Parent[s] = Node} :
          IF Accepted(child, "y") THEN Choose(child, "y") /\ GoesOn(After(asked)) ELSE Refuse(After(asked))

(* The end of the input: exit(0), and nothing is saved.                    *)
quitting ==
  /\ Asking /\ Visible(value, Node) /\ Kind[Node] # "menu"
  /\ Ends("quitting")
  /\ UNCHANGED <<userVars, runVars, menus, asked, diskVars>>

walk_ends ==
  /\ Waits("asking") /\ asked > Len(Order)
  /\ SaveBegins(Config, value)
  /\ phase' = "exit"
  /\ UNCHANGED <<userVars, runVars, menus, asked, said>>

-----------------------------------------------------------------------------
(* Saving returns to show_saveas() or to the end of the program.           *)

Saved ==
  /\ IF phase = "saveas" THEN phase' = "menus" /\ changed' = FALSE /\ basis' = value /\ UNCHANGED said
     ELSE Ends("saved") /\ UNCHANGED <<changed, basis>>
  /\ UNCHANGED <<chosen, prog, runs, loaded, menus, asked>>

NotSaved ==
  /\ IF phase = "saveas" THEN UNCHANGED <<phase, said>> ELSE Ends("not saved")
  /\ UNCHANGED <<userVars, runVars, menus, asked>>

Save ==
  \/ (SaveRenames \/ SaveOpens) /\ UNCHANGED <<userVars, runVars, screenVars>>
  \/ SaveCloses /\ Saved
  \/ SaveFails /\ NotSaved

Kill ==
  /\ phase \notin Over
  /\ Killed
  /\ Forgotten
  /\ phase' = "killed"
  /\ UNCHANGED <<prog, runs>>

Init ==
  /\ prog = None /\ phase = "ended" /\ runs = 0
  /\ chosen = [s \in {} |-> None] /\ loaded = chosen
  /\ menus = <<>> /\ changed = FALSE /\ asked = 1
  /\ basis = None /\ said = None
  /\ DiskInit({Config}, Default)

Next ==
  \/ \E p \in {"curses", "glass"} : StartUp(p)
  \/ \E n \in Nodes : handle_event(n)
  \/ \E dialog \in {"load", "saveas"} : handle_command_event(dialog)
  \/ \E f \in Files : show_load(f) \/ show_saveas(f)
  \/ show_menu_returns \/ dialog_left \/ ui_run_ends
  \/ query_visitor_passes \/ get_value \/ get_value_radio \/ quitting \/ walk_ends
  \/ Save
  \/ Kill

Spec == Init /\ [][Next]_vars

-----------------------------------------------------------------------------
(* A file that has held a whole configuration, or its .old, still does     *)
(* after one accident: the program is killed or the disk is full while the *)
(* file is written, or it cannot be opened when the old one has been moved *)
(* (save.c:127-140). The next save may then lose it.                       *)
SurvivesAnAccident ==
  saving = Idle /\ faults <= 1 => \A f \in kept : f \in whole \/ Old(f) \in whole

(* A symbol that is on the screen and is to be saved, with its value.      *)
OnScreen(v) ==
  LET shown == {s \in Symbols : mn_is_saveable(v, s) /\ \A m \in Above[s] : Visible(v, m)}
  IN  [s \in shown |-> v[s]]

(* A program that starts shows every symbol as it was when the file was    *)
(* saved, unless the rules forbid it or it is a string with a quote ("TODO: *)
(* escapes", save.c:78): what save.c leaves out is not missed, and no line *)
(* of load.c undoes another.                                               *)
LoadedAsSaved ==
  [][(phase \in Over /\ phase' \in {"menus", "asking"} /\ Config \in whole
        /\ Completions(OnScreen(held[Config])) # {}) =>
       \A s \in DOMAIN OnScreen(held[Config]) : (value')[s] = ReadBack(held[Config][s])]_vars

(* The last words of a program are true: nothing has changed since the     *)
(* last load or save, or the file holds what was shown, unless some save   *)
(* was cut short (curses/main.c, ui_run()).                                *)
LastWordsTrue ==
  phase = "ended" =>
    /\ said = "no changes" => value = basis
    /\ said = "saved" => faults > 0 \/ (Config \in DOMAIN disk /\ disk[Config] = Lines(value))
=============================================================================
