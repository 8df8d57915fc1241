------------------------------- MODULE Configfile -------------------------------
(***************************************************************************)
(* Configuration files: what save.c writes, what load.c makes of a file,   *)
(* and the steps in which a file is replaced, between which the program    *)
(* may be killed or the disk may be full.                                  *)
(*                                                                         *)
(* The rulebase is seen through what it promises (module Rulebase): values *)
(* that are set stay, what they force is set with them, and everything     *)
(* else is as loaded or at its default.                                    *)
(***************************************************************************)
EXTENDS Naturals, Sequences, SequencesExt, TLC

CONSTANTS
  Order,         \* the nodes of the menu tree in the order of a walk, the start first
  Parent,        \* of each node but the start
  Derived,       \* the derived symbols
  Kind,          \* "menu", "radio" or "symbol"
  Type,          \* of a symbol: "boolean", "tristate", "integer" or "string"
  Data,          \* the values of a symbol
  Default,       \* its value when nothing else says
  Legal(_),      \* the rules hold for the values
  Conditional,   \* the nodes with a visibility expression
  Shows(_, _),   \* the value of that expression
  Dependees,     \* the nodes a node depends on
  Kept,          \* the nodes with a saveability expression
  Saves(_, _),   \* the value of that expression
  DerivedValue(_, _),
  ReadBack(_),   \* what a value that has been written is read as: a string ends at a quote
  Shortened(_),  \* what is read when the line with this value is cut short
  Files,
  MaxSaves,      \* the bound on the number of saves
  Old(_),        \* the name with .old
  None

Nodes == ToSet(Order)
Start == Order[1]
Symbols == {n \in Nodes : Kind[n] = "symbol"}

ASSUME OldAssumption == \A f, g \in Files : Old(f) # g /\ (Old(f) = Old(g) => f = g)
ASSUME NodesAssumption ==
  /\ Parent \in [Nodes \ {Start} -> Nodes]
  /\ Default \in [Symbols -> UNION {Data[s] : s \in Symbols}]
  /\ \A s \in Symbols : Default[s] \in Data[s]

-----------------------------------------------------------------------------
(* Values. A set of bindings is a function on some of the symbols.         *)

Valuations == {v \in [Symbols -> UNION {Data[s] : s \in Symbols}] : \A s \in Symbols : v[s] \in Data[s]}

LegalValuations == {v \in Valuations : Legal(v)}

Completions(bound) == {v \in LegalValuations : \A s \in DOMAIN bound : v[s] = bound[s]}

Bindings == UNION {{[s \in S |-> v[s]] : v \in Valuations} : S \in SUBSET Symbols}

(* The symbols to which the bindings leave one value.                      *)
Forced ==
  [bound \in Bindings |->
     LET possible == Completions(bound)
         only == {s \in Symbols : \E x \in Data[s] : possible # {} /\ \A v \in possible : v[s] = x}
     IN  [s \in only |-> CHOOSE x \in Data[s] : \A v \in possible : v[s] = x]]

(* The first of these that says what the value is: what the user chose,   *)
(* what follows from that, what was loaded, the default.                   *)
Values(chosen, loaded) ==
  LET forced == Forced[chosen]
  IN  [s \in Symbols |->
         CASE s \in DOMAIN chosen -> chosen[s]
           [] s \in DOMAIN forced \ DOMAIN chosen -> forced[s]
           [] s \in DOMAIN loaded \ (DOMAIN chosen \cup DOMAIN forced) -> loaded[s]
           [] OTHER -> Default[s]]

(* cml_node_is_visible(): what a node depends on only counts when it has a *)
(* visibility expression of its own.                                       *)
Visible(v, n) ==
  LET visible[m \in Nodes] == m \in Conditional => Shows(v, m) /\ \A d \in Dependees[m] : visible[d]
  IN  visible[n]

mn_is_saveable(v, n) == IF n \in Kept THEN Saves(v, n) ELSE Visible(v, n)

Siblings(n) == {s \in Symbols : Parent[s] = Parent[n]}

(* mn_set_value(): with a child of a radio menu its siblings are set.      *)
Sets(n, x) ==
  IF Kind[Parent[n]] = "radio" /\ x = "y"
  THEN [s \in Siblings(n) |-> IF s = n THEN "y" ELSE "n"]
  ELSE n :> x

-----------------------------------------------------------------------------
(* save.c                                                                  *)

Above[n \in Nodes] == IF n = Start THEN {} ELSE {Parent[n]} \cup Above[Parent[n]]

(* Mutant: options that are off are not mentioned.                         *)
WrittenIfSet(v, n) ==
  /\ \A m \in Above[n] : Visible(v, m)
  /\ mn_is_saveable(v, n) /\ Kind[n] = "symbol" /\ v[n] # "n"

(* save_defconfig_visitor() on the menu tree: the children of a menu that  *)
(* is not visible are skipped.                                             *)
Written(v, n) ==
  /\ \A m \in Above[n] : Visible(v, m)
  /\ mn_is_saveable(v, n)
  /\ Kind[n] = "symbol"

(* cml_rulebase_save_defconfig(): the symbols of the menu tree, then the   *)
(* derived ones. A symbol that is n is written as a comment that says so.  *)
Lines(v) ==
  [k \in DOMAIN SelectSeq(Order, LAMBDA n : Written(v, n)) |->
     LET n == SelectSeq(Order, LAMBDA m : Written(v, m))[k] IN [node |-> n, value |-> v[n]]]
  \o [k \in DOMAIN Derived |-> [node |-> Derived[k], value |-> DerivedValue(v, Derived[k])]]

(* What a file holds when not all of it has been written.                  *)
Partial(lines) ==
  LET whole(k) == SubSeq(lines, 1, k)
  IN  {whole(k) : k \in 0..(Len(lines) - 1)} \cup
      UNION {{Append(whole(k - 1), [lines[k] EXCEPT !.value = x]) : x \in Shortened(lines[k].value)} :
               k \in DOMAIN lines}

-----------------------------------------------------------------------------
(* load.c                                                                  *)

(* A line sets its symbol, and what that forces and is not so already, to  *)
(* which the user's choices contribute. All lines are one transaction: a   *)
(* symbol that has been set in it is chilled, a later line for it dropped. *)
(* The outcome is ignored, so a value that breaks a rule stays. Lines of   *)
(* unknown or derived symbols are skipped.                                 *)
LoadLine(chosen, bound, line) ==
  LET sets == Sets(line.node, ReadBack(line.value))
      set == bound @@ sets
      forced == Forced[set @@ chosen]
      new == {s \in DOMAIN forced \ DOMAIN (set @@ chosen) : forced[s] # Default[s]}
  IN  IF \/ line.node \notin Symbols \ DOMAIN bound
         \/ \E s \in DOMAIN sets \cap DOMAIN bound : bound[s] = "y"
      THEN bound
      ELSE set @@ [s \in new |-> forced[s]]

(* rb_parse()                                                              *)
rb_parse(chosen, lines) ==
  FoldLeft(LAMBDA bound, line : LoadLine(chosen, bound, line), [s \in {} |-> None], lines)

-----------------------------------------------------------------------------
(* The files, and the file that is being replaced.                         *)

VARIABLES
  disk,      \* what the files hold that are there
  saving,    \* the file that is being saved, what goes into it and how far we are
  held,      \* the values of which a file holds all
  kept,      \* the files that have held all of a configuration at some time
  saves,
  faults     \* how often a save was cut short

diskVars == <<disk, saving, held, kept, saves, faults>>

whole == DOMAIN held

Idle == [at |-> "idle"]

(* The files after the file has been given the name with .old.             *)
Moved(files, f) ==
  LET moved == IF f \in DOMAIN files THEN {Old(f)} ELSE {}
  IN  [g \in (DOMAIN files \ {f, Old(f)}) \cup moved |-> files[IF g = Old(f) THEN f ELSE g]]

(* The files when the one has that content.                                *)
With(files, f, content) ==
  [g \in DOMAIN files \cup {f} |-> IF g = f THEN content ELSE files[g]]

(* cml_rulebase_save_defconfig() is called.                                *)
SaveBegins(f, v) ==
  /\ saving = Idle /\ saves < MaxSaves
  /\ saving' = [at |-> "rename", file |-> f, lines |-> Lines(v), of |-> v]
  /\ saves' = saves + 1
  /\ UNCHANGED <<disk, held, kept, faults>>

(* Mutant: the file is overwritten where it is.                            *)
SaveLeaves ==
  /\ saving.at = "rename"
  /\ saving' = [saving EXCEPT !.at = "open"]
  /\ UNCHANGED <<disk, held, kept, saves, faults>>

(* The file is moved out of the way, if there is one.                      *)
SaveRenames ==
  /\ saving.at = "rename"
  /\ IF saving.file \in DOMAIN disk
     THEN disk' = Moved(disk, saving.file) /\ held' = Moved(held, saving.file)
     ELSE UNCHANGED <<disk, held>>
  /\ saving' = [saving EXCEPT !.at = "open"]
  /\ UNCHANGED <<kept, saves, faults>>

(* fopen()                                                                 *)
SaveOpens ==
  /\ saving.at = "open"
  /\ disk' = With(disk, saving.file, <<>>)
  /\ held' = Restrict(held, whole \ {saving.file})
  /\ saving' = [saving EXCEPT !.at = "write"]
  /\ UNCHANGED <<kept, saves, faults>>

(* rename() or fopen() fails and the caller is told. After fopen() the old *)
(* file has been moved.                                                    *)
SaveFails ==
  /\ saving.at \in {"rename", "open"}
  /\ saving' = Idle
  /\ faults' = IF saving.at = "open" THEN faults + 1 ELSE faults
  /\ UNCHANGED <<disk, held, kept, saves>>

(* The file is written and closed. Nobody looks whether there was room.    *)
SaveCloses ==
  /\ saving.at = "write"
  /\ saving' = Idle
  /\ UNCHANGED saves
  /\ \/ /\ disk' = With(disk, saving.file, saving.lines)
        /\ held' = With(held, saving.file, saving.of)
        /\ kept' = kept \cup {saving.file}
        /\ UNCHANGED faults
     \/ /\ \E part \in Partial(saving.lines) : disk' = With(disk, saving.file, part)
        /\ faults' = faults + 1
        /\ UNCHANGED <<held, kept>>

(* The process is killed. What it has written by then is any part.         *)
Killed ==
  /\ saving' = Idle
  /\ UNCHANGED <<held, kept, saves>>
  /\ IF saving.at \in {"idle", "rename"} THEN UNCHANGED <<disk, faults>>
     ELSE /\ faults' = faults + 1
          /\ IF saving.at = "open" THEN UNCHANGED disk
             ELSE \E part \in Partial(saving.lines) : disk' = With(disk, saving.file, part)

(* At first there may be configurations that earlier runs have saved.      *)
DiskInit(files, v) ==
  /\ \E there \in SUBSET files :
       /\ disk = [f \in there |-> Lines(v)]
       /\ held = [f \in there |-> v]
       /\ kept = there
  /\ saving = Idle
  /\ saves = 0
  /\ faults = 0
=============================================================================
