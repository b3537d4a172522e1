----------------------------- MODULE SkillBundle -----------------------------
(***************************************************************************)
(* tidybot-bundle: the skills that a skill needs are collected from the    *)
(* deps.txt files, put in order, and their code is joined in one script,   *)
(* while agents go on writing the skills' directories.  A line of code is  *)
(* what the bundler tells apart: its indentation, and whether it is an     *)
(* import, the head of a function or of the __main__ block, or another     *)
(* line.  Blank lines and banners are left out.                            *)
(***************************************************************************)
EXTENDS Integers, SequencesExt, FiniteSets

CONSTANTS
  Skills,      \* names that occur in deps.txt files
  Main,        \* the skill to bundle
  DepLists,    \* what a deps.txt file may say
  Libraries,   \* what the main.py files may say: functions from Skills to code
  MaxEdits     \* bound: changes of the directories during one run

Lines == [indent : Nat, kind : {"import", "def", "main", "other"}, name : STRING]

ASSUME BundleAssumption ==
  /\ Main \in Skills /\ IsFiniteSet(Skills)
  /\ DepLists \subseteq Seq(Skills)
  /\ \A lib \in Libraries : \A s \in Skills : lib[s] \in Seq(Lines)
  /\ MaxEdits \in Nat

VARIABLES
  disk,      \* the skills' directories: is main.py there, what is in deps.txt
  library,   \* the code in the main.py files
  call,      \* was an entry point given with --call
  pc,        \* "collect", "sort", "extract" or "over"
  queue, visited, all_deps,   \* resolve_dependencies: the breadth-first part
  stack, order,               \* ... and dfs, with the dependencies each call has left
  sections,  \* the sections, each with its label, skill and code
  edits      \* how often a directory has changed

vars == <<disk, library, call, pc, queue, visited, all_deps, stack, order, sections, edits>>

-----------------------------------------------------------------------------
(* An agent removes the directory of a skill, creates it, or writes its     *)
(* deps.txt.                                                                *)
Edited(s) ==
  /\ edits < MaxEdits /\ pc # "over"
  /\ \E there \in BOOLEAN, deps \in DepLists :
       disk' = [disk EXCEPT ![s] = [there |-> there, deps |-> deps]]
  /\ disk' # disk
  /\ edits' = edits + 1
  /\ UNCHANGED <<library, call, pc, queue, visited, all_deps, stack, order, sections>>

(* One round of the breadth-first search.  A skill that is not there is     *)
(* skipped with a warning and has no dependencies.                          *)
Collect ==
  LET s == Head(queue)
      new == SelectSeq(disk[s].deps, LAMBDA d : d \notin visited \cup {s})
  IN /\ pc = "collect" /\ queue # <<>>
     /\ visited' = visited \cup {s}
     /\ IF s \notin visited /\ disk[s].there
        THEN /\ all_deps' = [all_deps EXCEPT ![s] = disk[s].deps]
             /\ queue' = Tail(queue) \o new
        ELSE /\ queue' = Tail(queue)
             /\ UNCHANGED all_deps
     /\ UNCHANGED <<disk, library, call, pc, stack, order, sections, edits>>

BuggyFrame(s) == [skill |-> s, left |-> <<>>]   \* no descent: breadth-first order

Frame(s) == [skill |-> s, left |-> all_deps[s]]

Collected ==
  /\ pc = "collect" /\ queue = <<>>
  /\ pc' = "sort"
  /\ visited' = {Main}
  /\ stack' = <<Frame(Main)>>
  /\ UNCHANGED <<disk, library, call, queue, all_deps, order, sections, edits>>

BuggyMark(s) == visited   \* marked nowhere but at the start

Mark(s) == visited \cup {s}

(* One step of dfs: the next dependency, or the return of the inner call.   *)
Sort ==
  LET top  == Head(stack)
      rest == [top EXCEPT !.left = Tail(@)]
      d    == Head(top.left)
  IN /\ pc = "sort" /\ stack # <<>>
     /\ \/ /\ top.left = <<>>
           /\ order' = Append(order, top.skill)
           /\ stack' = Tail(stack)
           /\ UNCHANGED visited
        \/ /\ top.left # <<>> /\ d \in visited
           /\ stack' = <<rest>> \o Tail(stack)
           /\ UNCHANGED <<visited, order>>
        \/ /\ top.left # <<>> /\ d \notin visited
           /\ stack' = <<Frame(d), rest>> \o Tail(stack)
           /\ visited' = Mark(d)
           /\ UNCHANGED order
     /\ UNCHANGED <<disk, library, call, pc, queue, all_deps, sections, edits>>

Sorted ==
  /\ pc = "sort" /\ stack = <<>>
  /\ pc' = "extract"
  /\ UNCHANGED <<disk, library, call, queue, visited, all_deps, stack, order, sections, edits>>

-----------------------------------------------------------------------------
(* Code is filtered line by line; what is indented deeper than `skip`       *)
(* belongs to a block that is left out, until a line that is not.           *)
NoSkip == -1

BuggySkipped(acc, l) == acc.skip # NoSkip /\ l.indent >= acc.skip

Skipped(acc, l) == acc.skip # NoSkip /\ l.indent > acc.skip

(* extract_code without the __main__ blocks.                                *)
MainStripped(code) ==
  FoldLeft(LAMBDA acc, l :
             IF l.kind = "main" THEN [acc EXCEPT !.skip = l.indent]
             ELSE IF Skipped(acc, l) THEN acc
             ELSE [skip |-> NoSkip, out |-> Append(acc.out, l)],
           [skip |-> NoSkip, out |-> <<>>], code).out

(* The next section, from the directory as it is now; a skill that is gone  *)
(* leaves a comment in the script.                                          *)
Extract ==
  LET i == Len(sections) + 1
      s == order[i]
      last == i = Len(order)
      section == IF ~disk[s].there THEN [label |-> "ERROR", skill |-> s, code |-> <<>>]
                 ELSE [label |-> IF last THEN "MAIN" ELSE "DEPENDENCY", skill |-> s,
                       code  |-> IF ~last \/ call THEN MainStripped(library[s]) ELSE library[s]]
  IN /\ pc = "extract" /\ i <= Len(order)
     /\ sections' = Append(sections, section)
     /\ UNCHANGED <<disk, library, call, pc, queue, visited, all_deps, stack, order, edits>>

(* deduplicate_bundle: an import line or a function that was seen before,   *)
(* in whatever section and at whatever indentation, is left out.            *)
Line(acc, l) ==
  LET a    == [acc EXCEPT !.skip = NoSkip]
      kept == [a EXCEPT !.out = Append(@, l)]
  IN IF Skipped(acc, l) THEN acc
     ELSE CASE l.kind = "import" /\ l.name \in acc.imports    -> a
            [] l.kind = "import" /\ l.name \notin acc.imports -> [kept EXCEPT !.imports = @ \cup {l.name}]
            [] l.kind = "def" /\ l.name \in acc.defs          -> [a EXCEPT !.skip = l.indent]
            [] l.kind = "def" /\ l.name \notin acc.defs       -> [kept EXCEPT !.defs = @ \cup {l.name}]
            [] OTHER                                          -> kept

Scanned(secs) ==
  FoldLeft(LAMBDA acc, sec : FoldLeft(Line, [acc EXCEPT !.skip = NoSkip, !.out = <<>>], sec.code),
           [imports |-> {}, defs |-> {}, skip |-> NoSkip, out |-> <<>>], secs)

Deduplicated(secs) ==
  [i \in 1..Len(secs) |-> [secs[i] EXCEPT !.code = Scanned(SubSeq(secs, 1, i)).out]]

Bundled ==
  /\ pc = "extract" /\ Len(sections) = Len(order)
  /\ sections' = Deduplicated(sections)
  /\ pc' = "over"
  /\ UNCHANGED <<disk, library, call, queue, visited, all_deps, stack, order, edits>>

-----------------------------------------------------------------------------
Init ==
  /\ disk \in [Skills -> [there : {TRUE}, deps : DepLists]]
  /\ library \in Libraries
  /\ call \in BOOLEAN
  /\ pc = "collect"
  /\ queue = <<Main>> /\ visited = {} /\ all_deps = [s \in Skills |-> <<>>]
  /\ stack = <<>> /\ order = <<>> /\ sections = <<>>
  /\ edits = 0

Next ==
  \/ \E s \in Skills : Edited(s)
  \/ Collect \/ Collected \/ Sort \/ Sorted \/ Extract \/ Bundled

Spec == Init /\ [][Next]_vars

-----------------------------------------------------------------------------
(* What s needs, itself included: what is in every set of skills that holds *)
(* s and whatever its members depend on.                                    *)
Closed(deps, S) == \A x \in S : ToSet(deps[x]) \subseteq S

Needs(deps, s) == {x \in Skills : \A S \in SUBSET Skills : s \in S /\ Closed(deps, S) => x \in S}

Needed(s) == Needs(all_deps, s)   \* by the files as they were read

(* Dependencies come before dependents (tidybot-bundle.py:102), whatever    *)
(* the graph, also one with cycles or with skills that are missing; only    *)
(* two skills that need each other may stand in either order.               *)
DependenciesFirst ==
  pc \in {"extract", "over"} =>
    \A i \in 1..Len(order) : \A d \in ToSet(all_deps[order[i]]) :
      \/ \E j \in 1..(i - 1) : order[j] = d
      \/ order[i] \in Needed(d)

(* The script has one section for each skill that is needed, and only for   *)
(* these, missing ones included; the skill that was asked for comes last,   *)
(* and only an edit during the run can leave a section without its code.    *)
BundleComplete ==
  pc = "over" =>
    /\ Len(sections) = Cardinality(Needed(Main))
    /\ {sections[i].skill : i \in 1..Len(sections)} = Needed(Main)
    /\ sections[Len(sections)].skill = Main
    /\ edits = 0 => \A i \in 1..Len(sections) : sections[i].label # "ERROR"

(* The section in which the script defines function f for every caller.     *)
DefinedIn(f) ==
  {i \in 1..Len(sections) : \E k \in 1..Len(sections[i].code) :
     LET l == sections[i].code[k] IN l.kind = "def" /\ l.name = f /\ l.indent = 0}

(* A function that a skill offers is defined in the script once, and before *)
(* the sections of the skills that need it (usage.md:54), whichever of the  *)
(* sections that have one of this name it was taken from, and wherever the  *)
(* blocks that were left out ended; a __main__ block is the asked skill's.  *)
CallsDefined ==
  pc = "over" /\ edits = 0 =>
    \A i \in 1..Len(sections) :
      LET s == sections[i].skill
          offered(d) == {library[d][k].name : k \in {k \in 1..Len(library[d]) :
                           library[d][k].kind = "def" /\ library[d][k].indent = 0}}
      IN /\ \A f \in offered(s) : \E j \in 1..i : DefinedIn(f) = {j}
         /\ \A d \in ToSet(all_deps[s]) : \A f \in offered(d) :
              s \notin Needed(d) => \E j \in 1..(i - 1) : DefinedIn(f) = {j}
         /\ \A k \in 1..Len(sections[i].code) :
              sections[i].code[k].kind = "main" => s = Main /\ ~call

=============================================================================
