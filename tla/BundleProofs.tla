---------------------------- MODULE BundleProofs ----------------------------
(***************************************************************************)
(* Proofs about the bundler of SkillBundle, for every set of skills, every *)
(* dependency graph and any number of edits during the run: dependencies   *)
(* come first, the script has a section for exactly what is needed, and    *)
(* its code defines what its sections call, once and before the calls.     *)
(***************************************************************************)
EXTENDS SkillBundle, SequenceTheorems, FoldTheorems

(* What is needed, as a relation that the dependencies generate.            *)
LEMMA NeedsSelf ==
  ASSUME NEW deps, NEW s \in Skills
  PROVE  s \in Needs(deps, s)
BY DEF Needs

LEMMA NeedsStep ==
  ASSUME NEW deps, NEW s, NEW x \in Needs(deps, s), NEW d \in Skills, d \in ToSet(deps[x])
  PROVE  d \in Needs(deps, s)
BY DEF Needs, Closed

LEMMA NeedsLeast ==
  ASSUME NEW deps, NEW s, NEW S \in SUBSET Skills, s \in S, Closed(deps, S)
  PROVE  Needs(deps, s) \subseteq S
BY DEF Needs

-----------------------------------------------------------------------------
(* What the directories, the files as read and the calls of dfs hold.       *)
FrameSet == [skill : Skills, left : Seq(Skills)]

ReadOK ==
  /\ disk \in [Skills -> [there : BOOLEAN, deps : DepLists]]
  /\ all_deps \in [Skills -> Seq(Skills)]
  /\ edits \in Nat
  /\ edits = 0 => \A s \in Skills : disk[s].there

SortTypes ==
  /\ pc \in {"collect", "sort", "extract", "over"}
  /\ stack \in Seq(FrameSet) /\ order \in Seq(Skills)
  /\ pc = "collect" => stack = <<>> /\ order = <<>>
  /\ pc \in {"extract", "over"} => stack = <<>>
  /\ pc \in {"collect", "sort"} => sections = <<>>

(* The calls of dfs that have not returned follow a path, from the skill    *)
(* that was asked for; what one of them has behind it was visited.          *)
PathOK ==
  /\ \A i, j \in DOMAIN stack : i <= j => stack[i].skill \in Needs(all_deps, stack[j].skill)
  /\ stack # <<>> => stack[Len(stack)].skill = Main
  /\ \A i \in DOMAIN stack :
       /\ ToSet(stack[i].left) \subseteq ToSet(all_deps[stack[i].skill])
       /\ ToSet(all_deps[stack[i].skill]) \subseteq visited \cup ToSet(stack[i].left)

(* Each visited skill is in the order or on the stack, and only once.       *)
VisitedOK ==
  /\ visited = ToSet(order) \cup {stack[i].skill : i \in DOMAIN stack}
  /\ \A i, j \in DOMAIN stack : stack[i].skill = stack[j].skill => i = j
  /\ \A i, j \in DOMAIN order : order[i] = order[j] => i = j
  /\ \A i \in DOMAIN stack : stack[i].skill \notin ToSet(order)

OrderOK ==
  /\ visited \subseteq Needs(all_deps, Main) /\ Main \in visited
  /\ \A i \in DOMAIN order : ToSet(all_deps[order[i]]) \subseteq visited
  /\ \A i \in DOMAIN order : \A d \in ToSet(all_deps[order[i]]) :
       (\E j \in 1..(i - 1) : order[j] = d) \/ order[i] \in Needs(all_deps, d)
  /\ stack = <<>> => order # <<>> /\ order[Len(order)] = Main

(* Sections follow the order.                                               *)
SectionsOK ==
  /\ sections = [i \in 1..Len(sections) |-> sections[i]] /\ Len(sections) \in 0..Len(order)
  /\ \A i \in 1..Len(sections) :
       /\ {"label", "skill", "code"} = DOMAIN sections[i]
       /\ sections[i].skill = order[i]
       /\ edits = 0 => sections[i].label # "ERROR"
  /\ pc = "over" => Len(sections) = Len(order)

BInv ==
  /\ ReadOK /\ SortTypes /\ SectionsOK
  /\ pc # "collect" => PathOK /\ VisitedOK /\ OrderOK

-----------------------------------------------------------------------------
(* A function on 1..n is a sequence of length n.                            *)
LEMMA IsASequence ==
  ASSUME NEW f, NEW n \in Nat, f = [i \in 1..n |-> f[i]]
  PROVE  f \in Seq({f[i] : i \in 1..n}) /\ Len(f) = n
<1>1. f \in [1..n -> {f[i] : i \in 1..n}]
  OBVIOUS
<1> QED
  BY <1>1, LenProperties

LEMMA InitHolds == Init => BInv
<1> SUFFICES ASSUME Init PROVE BInv
  OBVIOUS
<1>1. ReadOK
  <2>1. disk \in [Skills -> [there : BOOLEAN, deps : DepLists]] /\ \A s \in Skills : disk[s].there
    BY DEF Init
  <2>2. <<>> \in Seq(Skills)
    OBVIOUS
  <2> QED
    BY <2>1, <2>2 DEF Init, ReadOK
<1>2. SortTypes
  BY DEF Init, SortTypes
<1>3. SectionsOK
  BY DEF Init, SectionsOK
<1> QED
  BY <1>1, <1>2, <1>3 DEF BInv, Init

(* What dfs knows is about its own variables.                               *)
LEMMA DfsFrame ==
  ASSUME UNCHANGED <<visited, all_deps, stack, order>>
  PROVE  PathOK' = PathOK /\ VisitedOK' = VisitedOK /\ OrderOK' = OrderOK
BY DEF PathOK, VisitedOK, OrderOK

(* What an edit of the directories leaves alone.                            *)
LEMMA EditedKeeps ==
  ASSUME BInv, NEW s \in Skills, Edited(s)
  PROVE  BInv'
<1>1. ReadOK'
  BY DEF BInv, ReadOK, Edited
<1>2. SortTypes'
  BY DEF BInv, SortTypes, Edited
<1>3. SectionsOK'
  BY DEF BInv, ReadOK, SectionsOK, Edited
<1> QED
  BY <1>1, <1>2, <1>3, DfsFrame DEF BInv, Edited

(* The breadth-first part only reads files.                                 *)
LEMMA CollectKeeps ==
  ASSUME BInv, Collect
  PROVE  BInv'
<1>1. ReadOK'
  <2>1. \A x \in Skills : disk[x].deps \in Seq(Skills)
    BY BundleAssumption DEF BInv, ReadOK, BundleAssumption
  <2> QED
    BY <2>1 DEF BInv, ReadOK, Collect
<1>2. SortTypes' /\ pc' = "collect"
  BY DEF BInv, SortTypes, Collect
<1>3. SectionsOK'
  BY DEF BInv, SectionsOK, Collect
<1> QED
  BY <1>1, <1>2, <1>3 DEF BInv

(* dfs starts with the skill that was asked for.                            *)
LEMMA CollectedKeeps ==
  ASSUME BInv, Collected
  PROVE  BInv'
<1> DEFINE top == Frame(Main)
<1>1. Main \in Skills /\ top \in FrameSet /\ top.skill = Main /\ top.left = all_deps[Main]
  BY BundleAssumption DEF BInv, ReadOK, Frame, FrameSet, BundleAssumption
<1>2. ReadOK' /\ SectionsOK'
  BY DEF BInv, ReadOK, SectionsOK, Collected
<1>3. SortTypes'
  BY <1>1 DEF BInv, SortTypes, Collected
<1>4. stack' = <<top>> /\ order' = <<>> /\ visited' = {Main} /\ all_deps' = all_deps
  BY DEF BInv, SortTypes, Collected
<1> HIDE DEF top
<1>5. Main \in Needs(all_deps, Main)
  BY <1>1, <1>4, NeedsSelf
<1>6. DOMAIN stack' = {1} /\ stack'[1] = top /\ Len(stack') = 1
  BY <1>4
<1>7. PathOK'
  BY <1>1, <1>4, <1>5, <1>6 DEF PathOK
<1>8. ToSet(order)' = {} /\ DOMAIN order' = {}
  BY <1>4 DEF ToSet
<1>9. VisitedOK'
  BY <1>1, <1>4, <1>6, <1>8 DEF VisitedOK
<1>10. OrderOK'
  BY <1>1, <1>4, <1>5, <1>6, <1>8 DEF OrderOK
<1> QED
  BY <1>2, <1>3, <1>7, <1>9, <1>10 DEF BInv

(* Where the elements of Tail(q), <<e>> \o Tail(q) and so on come from.      *)
LEMMA TailFacts ==
  ASSUME NEW S, NEW q \in Seq(S), q # <<>>
  PROVE  /\ Head(q) = q[1] /\ 1 \in DOMAIN q
         /\ Tail(q) \in Seq(S) /\ Len(Tail(q)) = Len(q) - 1 /\ DOMAIN Tail(q) = 1..(Len(q) - 1)
         /\ \A i \in DOMAIN Tail(q) : i + 1 \in DOMAIN q /\ Tail(q)[i] = q[i + 1]
         /\ \A i \in DOMAIN q \ {1} : i - 1 \in DOMAIN Tail(q)
OBVIOUS

LEMMA PassFacts ==
  ASSUME NEW S, NEW q \in Seq(S), q # <<>>, NEW e \in S
  PROVE  LET p == <<e>> \o Tail(q)
         IN /\ p \in Seq(S) /\ Len(p) = Len(q) /\ DOMAIN p = DOMAIN q /\ 1 \in DOMAIN q
            /\ p[1] = e /\ \A i \in DOMAIN q \ {1} : p[i] = q[i]
OBVIOUS

LEMMA DescendFacts ==
  ASSUME NEW S, NEW q \in Seq(S), q # <<>>, NEW e \in S, NEW f \in S
  PROVE  LET p == <<e, f>> \o Tail(q)
         IN /\ p \in Seq(S) /\ Len(p) = Len(q) + 1 /\ DOMAIN p = 1..(Len(q) + 1)
            /\ p[1] = e /\ p[2] = f
            /\ \A i \in DOMAIN p \ {1, 2} : i - 1 \in DOMAIN q /\ p[i] = q[i - 1]
OBVIOUS

LEMMA AppendFacts ==
  ASSUME NEW S, NEW q \in Seq(S), NEW e \in S
  PROVE  /\ Append(q, e) \in Seq(S) /\ Len(Append(q, e)) = Len(q) + 1
         /\ DOMAIN Append(q, e) = DOMAIN q \cup {Len(q) + 1}
         /\ \A i \in DOMAIN q : Append(q, e)[i] = q[i]
         /\ Append(q, e)[Len(q) + 1] = e
         /\ ToSet(Append(q, e)) = ToSet(q) \cup {e}
<1>1. /\ Append(q, e) \in Seq(S) /\ Len(Append(q, e)) = Len(q) + 1
      /\ DOMAIN Append(q, e) = DOMAIN q \cup {Len(q) + 1}
      /\ \A i \in DOMAIN q : Append(q, e)[i] = q[i]
      /\ Append(q, e)[Len(q) + 1] = e
  OBVIOUS
<1> QED
  BY <1>1 DEF ToSet

-----------------------------------------------------------------------------
(* The three steps of dfs.                                                  *)
SortReturns ==
  /\ pc = "sort" /\ stack # <<>> /\ Head(stack).left = <<>>
  /\ order' = Append(order, Head(stack).skill)
  /\ stack' = Tail(stack)
  /\ UNCHANGED <<disk, library, call, pc, queue, visited, all_deps, sections, edits>>

SortPasses ==
  LET top == Head(stack)
  IN /\ pc = "sort" /\ stack # <<>> /\ top.left # <<>> /\ Head(top.left) \in visited
     /\ stack' = <<[top EXCEPT !.left = Tail(@)]>> \o Tail(stack)
     /\ UNCHANGED <<disk, library, call, pc, queue, visited, all_deps, order, sections, edits>>

SortDescends ==
  LET top == Head(stack)
      d   == Head(top.left)
  IN /\ pc = "sort" /\ stack # <<>> /\ top.left # <<>> /\ d \notin visited
     /\ stack' = <<Frame(d), [top EXCEPT !.left = Tail(@)]>> \o Tail(stack)
     /\ visited' = visited \cup {d}
     /\ UNCHANGED <<disk, library, call, pc, queue, all_deps, order, sections, edits>>

LEMMA SortCases ==
  ASSUME Sort
  PROVE  SortReturns \/ SortPasses \/ SortDescends
BY DEF Sort, SortReturns, SortPasses, SortDescends, Mark

(* The inner call is over: its skill takes its place in the order.          *)
LEMMA ReturnsKeeps ==
  ASSUME BInv, SortReturns
  PROVE  BInv'
<1> DEFINE top == Head(stack)
<1>1. /\ stack \in Seq(FrameSet) /\ order \in Seq(Skills) /\ stack # <<>>
      /\ stack' = Tail(stack) /\ order' = Append(order, top.skill) /\ visited' = visited
      /\ PathOK /\ VisitedOK /\ OrderOK
  BY DEF BInv, SortTypes, SortReturns
<1>2. /\ top = stack[1] /\ 1 \in DOMAIN stack /\ top \in FrameSet /\ top.skill \in Skills
      /\ stack' \in Seq(FrameSet) /\ Len(stack') = Len(stack) - 1 /\ DOMAIN stack' = 1..(Len(stack) - 1)
      /\ \A i \in DOMAIN stack' : i + 1 \in DOMAIN stack /\ stack'[i] = stack[i + 1]
      /\ \A i \in DOMAIN stack \ {1} : i - 1 \in DOMAIN stack'
  <2>1. top \in FrameSet
    BY <1>1
  <2>2. top.skill \in Skills
    BY <2>1 DEF FrameSet
  <2> QED
    BY <1>1, <2>1, <2>2, TailFacts
<1>3. /\ order' \in Seq(Skills) /\ Len(order') = Len(order) + 1
      /\ DOMAIN order' = DOMAIN order \cup {Len(order) + 1} /\ Len(order) \in Nat
      /\ DOMAIN order = 1..Len(order)
      /\ \A i \in DOMAIN order : order'[i] = order[i]
      /\ order'[Len(order) + 1] = top.skill
      /\ ToSet(order') = ToSet(order) \cup {top.skill}
  BY <1>1, <1>2, AppendFacts
<1> HIDE DEF top
<1>5. ReadOK' /\ pc' = "sort" /\ all_deps' = all_deps /\ sections' = <<>> /\ sections = <<>>
  BY DEF BInv, ReadOK, SortTypes, SortReturns
<1>6. SortTypes'
  BY <1>2, <1>3, <1>5 DEF SortTypes
<1>7. SectionsOK'
  BY <1>3, <1>5 DEF SectionsOK
<1>8. PathOK'
  <2>1. \A i, j \in DOMAIN stack' : i <= j => stack'[i].skill \in Needs(all_deps, stack'[j].skill)
    BY <1>1, <1>2 DEF PathOK
  <2>2. stack' # <<>> => stack'[Len(stack')].skill = Main
    BY <1>1, <1>2 DEF PathOK
  <2>3. \A i \in DOMAIN stack' : /\ ToSet(stack'[i].left) \subseteq ToSet(all_deps[stack'[i].skill])
                                 /\ ToSet(all_deps[stack'[i].skill]) \subseteq visited \cup ToSet(stack'[i].left)
    BY <1>1, <1>2 DEF PathOK
  <2> QED
    BY <1>1, <1>5, <2>1, <2>2, <2>3 DEF PathOK
<1>9. VisitedOK'
  <2>1. {stack[i].skill : i \in DOMAIN stack} = {stack'[i].skill : i \in DOMAIN stack'} \cup {top.skill}
    <3>1. \A i \in DOMAIN stack : i = 1 \/ stack[i] = stack'[i - 1]
      BY <1>1, <1>2
    <3> QED
      BY <1>2, <3>1
  <2>2. visited' = ToSet(order') \cup {stack'[i].skill : i \in DOMAIN stack'}
    BY <1>1, <1>3, <2>1 DEF VisitedOK
  <2>3. \A i, j \in DOMAIN stack' : stack'[i].skill = stack'[j].skill => i = j
    BY <1>1, <1>2 DEF VisitedOK
  <2>4. \A i \in DOMAIN stack' : stack'[i].skill \notin ToSet(order')
    BY <1>1, <1>2, <1>3 DEF VisitedOK
  <2>5. \A i \in DOMAIN order : order[i] # top.skill
    <3>1. \A i \in DOMAIN order : order[i] \in ToSet(order)
      BY DEF ToSet
    <3> QED
      BY <1>1, <1>2, <3>1 DEF VisitedOK
  <2>6. \A i, j \in DOMAIN order' : order'[i] = order'[j] => i = j
    BY <1>1, <1>3, <2>5 DEF VisitedOK
  <2> QED
    BY <2>2, <2>3, <2>4, <2>6 DEF VisitedOK
<1>10. OrderOK'
  <2>1. \A d \in ToSet(all_deps[top.skill]) : d \in visited
    <3>1. top.left = <<>>
      BY DEF SortReturns, top
    <3>2. ToSet(top.left) = {}
      BY <3>1 DEF ToSet
    <3> QED
      BY <1>1, <1>2, <3>2 DEF PathOK
  <2>2. \A d \in ToSet(all_deps[top.skill]) :
          (\E j \in 1..Len(order) : order[j] = d) \/ top.skill \in Needs(all_deps, d)
    <3> TAKE d \in ToSet(all_deps[top.skill])
    <3>1. CASE d \in ToSet(order)
      BY <1>3, <3>1 DEF ToSet
    <3>2. ASSUME NEW k \in DOMAIN stack, stack[k].skill = d
          PROVE  top.skill \in Needs(all_deps, d)
      <4>1. 1 <= k
        BY <1>1
      <4> QED
        BY <1>1, <1>2, <3>2, <4>1 DEF PathOK
    <3> QED
      BY <1>1, <2>1, <3>1, <3>2 DEF VisitedOK
  <2>3. \A i \in DOMAIN order' : ToSet(all_deps[order'[i]]) \subseteq visited
    BY <1>1, <1>3, <2>1 DEF OrderOK
  <2>4. \A i \in DOMAIN order' : \A d \in ToSet(all_deps[order'[i]]) :
          (\E j \in 1..(i - 1) : order'[j] = d) \/ order'[i] \in Needs(all_deps, d)
    <3> SUFFICES ASSUME NEW i \in DOMAIN order', NEW d \in ToSet(all_deps[order'[i]]),
                        order'[i] \notin Needs(all_deps, d)
                 PROVE  \E j \in 1..(i - 1) : order'[j] = d
      OBVIOUS
    <3>1. CASE i = Len(order) + 1
      BY <1>3, <2>2, <3>1
    <3>2. CASE i \in DOMAIN order
      BY <1>1, <1>3, <3>2 DEF OrderOK
    <3> QED
      BY <1>3, <3>1, <3>2
  <2>5. stack' = <<>> => order' # <<>> /\ order'[Len(order')] = Main
    <3>1. ASSUME stack' = <<>> PROVE Len(stack) = 1
      BY <1>1, <1>2, <3>1
    <3> QED
      BY <1>1, <1>2, <1>3, <3>1 DEF PathOK
  <2>6. visited \subseteq Needs(all_deps, Main) /\ Main \in visited
    BY <1>1 DEF OrderOK
  <2> QED
    BY <1>1, <1>5, <2>3, <2>4, <2>5, <2>6 DEF OrderOK
<1> QED
  BY <1>5, <1>6, <1>7, <1>8, <1>9, <1>10 DEF BInv

(* The rest of a call, once its next dependency is taken.                   *)
LEMMA RestFacts ==
  ASSUME NEW f \in FrameSet, f.left # <<>>
  PROVE  LET rest == [f EXCEPT !.left = Tail(@)]
         IN /\ rest \in FrameSet /\ rest.skill = f.skill /\ rest.left = Tail(f.left)
            /\ f.skill \in Skills /\ Head(f.left) \in Skills
            /\ ToSet(f.left) = {Head(f.left)} \cup ToSet(Tail(f.left))
<1>1. f.left \in Seq(Skills) /\ f.skill \in Skills /\ DOMAIN f = {"skill", "left"}
  BY DEF FrameSet
<1>2. /\ Head(f.left) = f.left[1] /\ f.left[1] \in Skills /\ 1 \in DOMAIN f.left /\ Tail(f.left) \in Seq(Skills)
      /\ \A i \in DOMAIN Tail(f.left) : i + 1 \in DOMAIN f.left /\ Tail(f.left)[i] = f.left[i + 1]
      /\ \A i \in DOMAIN f.left \ {1} : i - 1 \in DOMAIN Tail(f.left) /\ f.left[i] = Tail(f.left)[i - 1]
  BY <1>1
<1>3. \A x : x \in ToSet(f.left) <=> x = Head(f.left) \/ x \in ToSet(Tail(f.left))
  BY <1>2 DEF ToSet
<1> QED
  BY <1>1, <1>2, <1>3 DEF FrameSet

(* A dependency that was visited before is passed over.                     *)
LEMMA PassesKeeps ==
  ASSUME BInv, SortPasses
  PROVE  BInv'
<1> DEFINE top == Head(stack)
           rest == [top EXCEPT !.left = Tail(@)]
<1>1. /\ stack \in Seq(FrameSet) /\ order \in Seq(Skills) /\ stack # <<>> /\ top.left # <<>>
      /\ stack' = <<rest>> \o Tail(stack) /\ Head(top.left) \in visited
      /\ PathOK /\ VisitedOK /\ OrderOK
  BY DEF BInv, SortTypes, SortPasses
<1>2. top = stack[1] /\ top \in FrameSet
  BY <1>1
<1>3. /\ rest \in FrameSet /\ rest.skill = top.skill
      /\ ToSet(top.left) = {Head(top.left)} \cup ToSet(rest.left)
  BY <1>1, <1>2, RestFacts
<1> HIDE DEF rest
<1>4. /\ stack' \in Seq(FrameSet) /\ Len(stack') = Len(stack) /\ DOMAIN stack' = DOMAIN stack
      /\ 1 \in DOMAIN stack /\ stack' # <<>>
      /\ stack'[1] = rest /\ \A i \in DOMAIN stack \ {1} : stack'[i] = stack[i]
  BY <1>1, <1>3, PassFacts
<1> DEFINE next == Head(top.left)
<1> HIDE DEF top, next
<1>5. /\ \A i \in DOMAIN stack : stack'[i].skill = stack[i].skill
      /\ {stack'[i].skill : i \in DOMAIN stack'} = {stack[i].skill : i \in DOMAIN stack}
  BY <1>2, <1>3, <1>4
<1>6. ReadOK' /\ SectionsOK' /\ pc' = "sort" /\ visited' = visited /\ all_deps' = all_deps /\ order' = order
  BY DEF BInv, ReadOK, SectionsOK, SortPasses
<1>7. SortTypes'
  BY <1>1, <1>4, <1>6 DEF BInv, SortTypes, SortPasses
<1>8. PathOK'
  <2>1. \A i \in DOMAIN stack' : /\ ToSet(stack'[i].left) \subseteq ToSet(all_deps[stack'[i].skill])
                                 /\ ToSet(all_deps[stack'[i].skill]) \subseteq visited \cup ToSet(stack'[i].left)
    <3> TAKE i \in DOMAIN stack'
    <3>1. CASE i = 1
      <4>1. /\ ToSet(top.left) \subseteq ToSet(all_deps[top.skill])
            /\ ToSet(all_deps[top.skill]) \subseteq visited \cup ToSet(top.left)
        BY <1>1, <1>2, <1>4 DEF PathOK
      <4> QED
        BY <1>1, <1>3, <1>4, <3>1, <4>1
    <3>2. CASE i # 1
      BY <1>1, <1>4, <3>2 DEF PathOK
    <3> QED
      BY <3>1, <3>2
  <2>2. stack'[Len(stack')].skill = Main
    BY <1>1, <1>4, <1>5 DEF PathOK
  <2> QED
    BY <1>1, <1>4, <1>5, <1>6, <2>1, <2>2 DEF PathOK
<1>9. VisitedOK'
  BY <1>1, <1>4, <1>5, <1>6 DEF VisitedOK
<1>10. OrderOK'
  BY <1>1, <1>4, <1>6 DEF OrderOK
<1> QED
  BY <1>6, <1>7, <1>8, <1>9, <1>10 DEF BInv

(* A dependency that was not visited gets a call of its own.                *)
LEMMA DescendsKeeps ==
  ASSUME BInv, SortDescends
  PROVE  BInv'
<1> DEFINE top == Head(stack)
           rest == [top EXCEPT !.left = Tail(@)]
           d == Head(top.left)
<1>1. /\ stack \in Seq(FrameSet) /\ order \in Seq(Skills) /\ stack # <<>> /\ top.left # <<>>
      /\ stack' = <<Frame(d), rest>> \o Tail(stack) /\ d \notin visited /\ visited' = visited \cup {d}
      /\ PathOK /\ VisitedOK /\ OrderOK /\ all_deps \in [Skills -> Seq(Skills)]
  BY DEF BInv, SortTypes, ReadOK, SortDescends
<1>2. top = stack[1] /\ top \in FrameSet /\ Len(stack) \in Nat \ {0} /\ DOMAIN stack = 1..Len(stack)
  BY <1>1
<1>3. /\ rest \in FrameSet /\ rest.skill = top.skill /\ top.skill \in Skills /\ d \in Skills
      /\ ToSet(top.left) = {d} \cup ToSet(rest.left)
  BY <1>1, <1>2, RestFacts
<1>4. Frame(d) \in FrameSet /\ Frame(d).skill = d /\ Frame(d).left = all_deps[d]
  BY <1>1, <1>3 DEF Frame, FrameSet
<1> HIDE DEF rest
<1>5. /\ stack' \in Seq(FrameSet) /\ Len(stack') = Len(stack) + 1 /\ DOMAIN stack' = 1..(Len(stack) + 1)
      /\ stack' # <<>> /\ stack'[1] = Frame(d) /\ stack'[2] = rest
      /\ \A i \in DOMAIN stack' \ {1, 2} : i - 1 \in DOMAIN stack /\ stack'[i] = stack[i - 1]
  BY <1>1, <1>3, <1>4, DescendFacts
<1> HIDE DEF top, d
<1>6. /\ ToSet(top.left) \subseteq ToSet(all_deps[top.skill]) /\ d \in ToSet(all_deps[top.skill])
      /\ ToSet(all_deps[top.skill]) \subseteq visited \cup ToSet(top.left)
  <2>1. 1 \in DOMAIN stack
    BY <1>2
  <2>2. /\ ToSet(top.left) \subseteq ToSet(all_deps[top.skill])
        /\ ToSet(all_deps[top.skill]) \subseteq visited \cup ToSet(top.left)
    BY <1>1, <1>2, <2>1 DEF PathOK
  <2> QED
    BY <1>3, <2>2
<1>7. /\ stack'[1].skill = d
      /\ \A i \in DOMAIN stack' \ {1} : i - 1 \in DOMAIN stack /\ stack'[i].skill = stack[i - 1].skill
      /\ \A i \in DOMAIN stack : i + 1 \in DOMAIN stack' /\ i + 1 # 1 /\ stack'[i + 1].skill = stack[i].skill
  <2>1. \A i \in DOMAIN stack' \ {1} : i - 1 \in DOMAIN stack /\ stack'[i].skill = stack[i - 1].skill
    BY <1>2, <1>3, <1>5
  <2>2. \A i \in DOMAIN stack : i + 1 \in DOMAIN stack' \ {1} /\ (i + 1) - 1 = i
    BY <1>2, <1>5
  <2> QED
    BY <1>4, <1>5, <2>1, <2>2
<1>8. ReadOK' /\ SectionsOK' /\ pc' = "sort" /\ all_deps' = all_deps /\ order' = order
  BY DEF BInv, ReadOK, SectionsOK, SortDescends
<1>9. SortTypes'
  BY <1>1, <1>5, <1>8 DEF BInv, SortTypes, SortDescends
<1>10. PathOK'
  <2>1. \A j \in DOMAIN stack : d \in Needs(all_deps, stack[j].skill)
    <3> TAKE j \in DOMAIN stack
    <3>1. top.skill \in Needs(all_deps, stack[j].skill)
      <4>1. 1 \in DOMAIN stack /\ 1 <= j
        BY <1>2
      <4> QED
        BY <1>1, <1>2, <4>1 DEF PathOK
    <3> QED
      BY <1>3, <1>6, <3>1, NeedsStep
  <2>2. \A i, j \in DOMAIN stack' : i <= j => stack'[i].skill \in Needs(all_deps, stack'[j].skill)
    <3> SUFFICES ASSUME NEW i \in DOMAIN stack', NEW j \in DOMAIN stack', i <= j
                 PROVE  stack'[i].skill \in Needs(all_deps, stack'[j].skill)
      OBVIOUS
    <3>1. CASE j = 1
      <4>1. i = 1
        BY <1>2, <1>5, <3>1
      <4> QED
        BY <1>3, <1>7, <3>1, <4>1, NeedsSelf
    <3>2. CASE i = 1 /\ j # 1
      BY <1>7, <2>1, <3>2
    <3>3. CASE i # 1
      <4>1. j # 1 /\ i - 1 <= j - 1
        BY <1>2, <1>5, <3>3
      <4>2. stack[i - 1].skill \in Needs(all_deps, stack[j - 1].skill)
        BY <1>1, <1>7, <3>3, <4>1 DEF PathOK
      <4> QED
        BY <1>7, <3>3, <4>1, <4>2
    <3> QED
      BY <3>1, <3>2, <3>3
  <2>3. \A i \in DOMAIN stack' :
          /\ ToSet(stack'[i].left) \subseteq ToSet(all_deps[stack'[i].skill])
          /\ ToSet(all_deps[stack'[i].skill]) \subseteq visited' \cup ToSet(stack'[i].left)
    <3> TAKE i \in DOMAIN stack'
    <3>1. CASE i = 1
      BY <1>4, <1>5, <3>1
    <3>2. CASE i = 2
      BY <1>1, <1>3, <1>5, <1>6, <3>2
    <3>3. CASE i \notin {1, 2}
      BY <1>1, <1>5, <3>3 DEF PathOK
    <3> QED
      BY <3>1, <3>2, <3>3
  <2>4. stack'[Len(stack')].skill = Main
    <3>1. Len(stack') \in DOMAIN stack' \ {1} /\ Len(stack') - 1 = Len(stack)
      BY <1>2, <1>5
    <3> QED
      BY <1>1, <1>7, <3>1 DEF PathOK
  <2> QED
    BY <1>5, <1>8, <2>2, <2>3, <2>4 DEF PathOK
<1>11. VisitedOK'
  <2>1. {stack'[i].skill : i \in DOMAIN stack'} = {d} \cup {stack[i].skill : i \in DOMAIN stack}
    <3>1. 1 \in DOMAIN stack'
      BY <1>2, <1>5
    <3> QED
      BY <1>7, <3>1
  <2>2. visited' = ToSet(order) \cup {stack'[i].skill : i \in DOMAIN stack'}
    BY <1>1, <2>1 DEF VisitedOK
  <2>3. \A i \in DOMAIN stack : stack[i].skill # d
    BY <1>1 DEF VisitedOK
  <2>4. \A i, j \in DOMAIN stack' : stack'[i].skill = stack'[j].skill => i = j
    <3> SUFFICES ASSUME NEW i \in DOMAIN stack', NEW j \in DOMAIN stack', stack'[i].skill = stack'[j].skill
                 PROVE  i = j
      OBVIOUS
    <3>1. CASE i # 1 /\ j # 1
      <4>1. /\ i - 1 \in DOMAIN stack /\ j - 1 \in DOMAIN stack
            /\ stack[i - 1].skill = stack[j - 1].skill
        BY <1>7, <3>1
      <4>2. i - 1 = j - 1
        BY <1>1, <4>1 DEF VisitedOK
      <4> QED
        BY <1>2, <1>5, <4>2
    <3> QED
      BY <1>7, <2>3, <3>1
  <2>5. \A i \in DOMAIN stack' : stack'[i].skill \notin ToSet(order)
    BY <1>1, <1>7 DEF VisitedOK
  <2> QED
    BY <1>1, <1>8, <2>2, <2>4, <2>5 DEF VisitedOK
<1>12. OrderOK'
  <2>1. top.skill \in Needs(all_deps, Main)
    <3>1. 1 \in DOMAIN stack /\ Len(stack) \in DOMAIN stack /\ 1 <= Len(stack)
      BY <1>2
    <3>2. top.skill \in Needs(all_deps, stack[Len(stack)].skill)
      BY <1>1, <1>2, <3>1 DEF PathOK
    <3> QED
      BY <1>1, <3>2 DEF PathOK
  <2>2. d \in Needs(all_deps, Main)
    BY <1>3, <1>6, <2>1, NeedsStep
  <2> QED
    BY <1>1, <1>5, <1>8, <2>2 DEF OrderOK
<1> QED
  BY <1>8, <1>9, <1>10, <1>11, <1>12 DEF BInv

LEMMA SortedKeeps ==
  ASSUME BInv, Sorted
  PROVE  BInv'
<1>1. ReadOK' /\ SectionsOK'
  BY DEF BInv, ReadOK, SectionsOK, Sorted
<1>2. SortTypes'
  BY DEF BInv, SortTypes, Sorted
<1> QED
  BY <1>1, <1>2, DfsFrame DEF BInv, Sorted

-----------------------------------------------------------------------------
(* A section more, for the next skill of the order.                         *)
LEMMA ExtractKeeps ==
  ASSUME BInv, Extract
  PROVE  BInv'
<1> DEFINE n == Len(sections)
<1>1. PICK e : /\ sections' = Append(sections, e) /\ {"label", "skill", "code"} = DOMAIN e
               /\ e.skill = order[n + 1] /\ (disk[order[n + 1]].there => e.label # "ERROR")
  <2> DEFINE s == order[n + 1]
             code == IF n + 1 # Len(order) \/ call THEN MainStripped(library[s]) ELSE library[s]
             lost == [label |-> "ERROR", skill |-> s, code |-> <<>>]
             sec  == [label |-> IF n + 1 = Len(order) THEN "MAIN" ELSE "DEPENDENCY", skill |-> s, code |-> code]
  <2>1. sections' = Append(sections, IF ~disk[s].there THEN lost ELSE sec)
    BY DEF Extract
  <2> HIDE DEF s, code
  <2>2. /\ DOMAIN lost = {"label", "skill", "code"} /\ lost.skill = s
        /\ DOMAIN sec = {"label", "skill", "code"} /\ sec.skill = s /\ sec.label # "ERROR"
    OBVIOUS
  <2> QED
    BY <2>1, <2>2 DEF s
<1>2. /\ n \in Nat /\ n + 1 <= Len(order) /\ order \in Seq(Skills) /\ sections = [i \in 1..n |-> sections[i]]
      /\ pc = "extract"
  BY DEF BInv, SortTypes, SectionsOK, Extract
<1>3. /\ Len(sections') = n + 1 /\ sections' = [i \in 1..(n + 1) |-> sections'[i]]
      /\ sections'[n + 1] = e /\ \A i \in 1..n : sections'[i] = sections[i]
  <2> DEFINE S == {sections[i] : i \in 1..n} \cup {e}
  <2>1. sections \in Seq(S)
    BY <1>2, IsASequence
  <2> HIDE DEF S
  <2>2. e \in S
    BY DEF S
  <2> QED
    <3>1. /\ sections' \in Seq(S) /\ Len(sections') = n + 1 /\ DOMAIN sections' = DOMAIN sections \cup {n + 1}
          /\ \A i \in DOMAIN sections : sections'[i] = sections[i]
          /\ sections'[n + 1] = e
      BY <1>1, <2>1, <2>2, AppendFacts
    <3>2. DOMAIN sections = 1..n
      BY <1>2
    <3>3. sections' \in [1..(n + 1) -> S]
      BY <3>1, LenProperties
    <3> QED
      BY <3>1, <3>2, <3>3
<1>4. edits = 0 => disk[order[n + 1]].there
  BY <1>2 DEF BInv, ReadOK
<1>5. order' = order /\ edits' = edits /\ pc' = pc
  BY DEF Extract
<1>6. SectionsOK'
  <2>1. \A i \in 1..(n + 1) : /\ {"label", "skill", "code"} = DOMAIN sections'[i]
                              /\ sections'[i].skill = order[i]
                              /\ edits = 0 => sections'[i].label # "ERROR"
    <3> TAKE i \in 1..(n + 1)
    <3>1. CASE i = n + 1
      BY <1>1, <1>3, <1>4, <3>1
    <3>2. CASE i \in 1..n
      BY <1>3, <3>2 DEF BInv, SectionsOK
    <3> QED
      BY <1>2, <3>1, <3>2
  <2> QED
    BY <1>2, <1>3, <1>5, <2>1 DEF SectionsOK
<1>7. ReadOK' /\ SortTypes'
  BY <1>2 DEF BInv, ReadOK, SortTypes, Extract
<1> QED
  BY <1>2, <1>5, <1>6, <1>7, DfsFrame DEF BInv, Extract

(* deduplicate_bundle changes the code of the sections and nothing else.    *)
LEMMA BundledKeeps ==
  ASSUME BInv, Bundled
  PROVE  BInv'
<1> DEFINE n == Len(sections)
<1>1. n \in Nat /\ n = Len(order) /\ pc = "extract" /\ pc' = "over" /\ UNCHANGED <<order, edits>>
  BY DEF BInv, SectionsOK, Bundled
<1>2. sections' = [i \in 1..n |-> [sections[i] EXCEPT !.code = Scanned(SubSeq(sections, 1, i)).out]]
  BY DEF Bundled, Deduplicated
<1>3. sections' = [i \in 1..n |-> sections'[i]] /\ Len(sections') = n
  <2>1. sections' = [i \in 1..n |-> sections'[i]]
    BY <1>2
  <2> QED
    BY <1>1, <2>1, IsASequence
<1>4. \A i \in 1..n : /\ DOMAIN sections'[i] = DOMAIN sections[i]
                      /\ "skill" \in DOMAIN sections[i] => sections'[i].skill = sections[i].skill
                      /\ "label" \in DOMAIN sections[i] => sections'[i].label = sections[i].label
  BY <1>2
<1>5. SectionsOK'
  BY <1>1, <1>3, <1>4 DEF BInv, SectionsOK
<1>6. ReadOK' /\ SortTypes'
  BY <1>1 DEF BInv, ReadOK, SortTypes, Bundled
<1> QED
  BY <1>1, <1>5, <1>6, DfsFrame DEF BInv, Bundled

-----------------------------------------------------------------------------
LEMMA StepKeeps ==
  ASSUME BInv, [Next]_vars
  PROVE  BInv'
<1>1. ASSUME UNCHANGED vars PROVE BInv'
  <2>1. ReadOK' /\ SortTypes' /\ SectionsOK'
    BY <1>1 DEF BInv, ReadOK, SortTypes, SectionsOK, vars
  <2> QED
    BY <1>1, <2>1, DfsFrame DEF BInv, vars
<1>2. ASSUME Sort PROVE BInv'
  BY <1>2, SortCases, ReturnsKeeps, PassesKeeps, DescendsKeeps
<1> QED
  BY <1>1, <1>2, EditedKeeps, CollectKeeps, CollectedKeeps, SortedKeeps, ExtractKeeps, BundledKeeps DEF Next

LEMMA BInvHolds == Spec => []BInv
<1>1. BInv /\ [Next]_vars => BInv'
  BY StepKeeps
<1> QED
  BY InitHolds, <1>1, PTL DEF Spec

(* Whatever the files say, cycles and missing skills included, a skill that *)
(* another one depends on comes before it, unless they need each other.     *)
THEOREM DependenciesFirstHolds == Spec => []DependenciesFirst
<1>1. BInv => DependenciesFirst
  BY DEF BInv, SortTypes, OrderOK, DependenciesFirst, Needed
<1> QED
  BY BInvHolds, <1>1, PTL

(* When dfs has returned, the visited skills are the needed ones.           *)
LEMMA OrderIsNeeded ==
  ASSUME BInv, pc \in {"extract", "over"}
  PROVE  /\ order \in Bijection(1..Len(order), Needs(all_deps, Main))
         /\ order # <<>> /\ order[Len(order)] = Main
<1>1. /\ stack = <<>> /\ order \in Seq(Skills) /\ VisitedOK /\ OrderOK
      /\ all_deps \in [Skills -> Seq(Skills)]
  BY DEF BInv, SortTypes, ReadOK
<1>2. visited = ToSet(order) /\ visited \subseteq Skills
  BY <1>1 DEF VisitedOK, ToSet
<1>3. Closed(all_deps, visited)
  <2>1. \A x \in visited : \E i \in DOMAIN order : x = order[i]
    BY <1>2 DEF ToSet
  <2> QED
    BY <1>1, <2>1 DEF OrderOK, Closed
<1>4. Needs(all_deps, Main) = ToSet(order)
  BY <1>1, <1>2, <1>3, NeedsLeast DEF OrderOK
<1>5. DOMAIN order = 1..Len(order) /\ \A i, j \in 1..Len(order) : order[i] = order[j] => i = j
  BY <1>1 DEF VisitedOK
<1>6. order \in Surjection(1..Len(order), ToSet(order))
  BY <1>1, <1>5 DEF ToSet, Surjection
<1>7. order \in Injection(1..Len(order), ToSet(order))
  BY <1>5, <1>6 DEF Injection, Surjection, IsInjective
<1> QED
  BY <1>1, <1>4, <1>6, <1>7 DEF Bijection, OrderOK

(* However the directories change meanwhile, the script has one section for *)
(* each needed skill and no other, the asked one last.                      *)
THEOREM BundleCompleteHolds == Spec => []BundleComplete
<1>1. ASSUME BInv PROVE BundleComplete
  <2> SUFFICES ASSUME pc = "over"
               PROVE  /\ Len(sections) = Cardinality(Needs(all_deps, Main))
                      /\ {sections[i].skill : i \in 1..Len(sections)} = Needs(all_deps, Main)
                      /\ sections[Len(sections)].skill = Main
                      /\ edits = 0 => \A i \in 1..Len(sections) : sections[i].label # "ERROR"
    BY DEF BundleComplete, Needed
  <2> DEFINE n == Len(order)
  <2>1. order \in Bijection(1..n, Needs(all_deps, Main)) /\ order[n] = Main /\ n \in Nat /\ n \in 1..n
    BY <1>1, OrderIsNeeded DEF BInv, SortTypes
  <2>2. Len(sections) = n /\ \A i \in 1..n : sections[i].skill = order[i]
    BY <1>1 DEF BInv, SectionsOK
  <2>3. Cardinality(Needs(all_deps, Main)) = n
    <3>1. IsFiniteSet(1..n) /\ Cardinality(1..n) = n
      BY <2>1, FS_Interval
    <3>2. ExistsBijection(1..n, Needs(all_deps, Main))
      BY <2>1 DEF ExistsBijection
    <3> QED
      BY <3>1, <3>2, FS_Bijection
  <2>4. {order[i] : i \in 1..n} = Needs(all_deps, Main)
    BY <2>1 DEF Bijection, Surjection
  <2>5. {sections[i].skill : i \in 1..n} = {order[i] : i \in 1..n}
    BY <2>2
  <2> QED
    BY <1>1, <2>1, <2>2, <2>3, <2>4, <2>5 DEF BInv, SectionsOK
<1> QED
  BY BInvHolds, <1>1, PTL

-----------------------------------------------------------------------------
(* A line that offers function f to other skills, one that is a method or    *)
(* an inner function of this name, and code with such a line.                *)
Offer(l, f)  == l.kind = "def" /\ l.name = f /\ l.indent = 0
Method(l, f) == l.kind = "def" /\ l.name = f /\ l.indent # 0

Offers(code, f) == \E k \in 1..Len(code) : Offer(code[k], f)
Hides(code, f)  == \E k \in 1..Len(code) : Method(code[k], f)

(* One line of extract_code.                                                *)
Strip(acc, l) ==
  IF l.kind = "main" THEN [acc EXCEPT !.skip = l.indent]
  ELSE IF Skipped(acc, l) THEN acc
  ELSE [skip |-> NoSkip, out |-> Append(acc.out, l)]

StripAccs == [skip : Int, out : Seq(Lines)]

(* What extract_code keeps between two lines.                               *)
LEMMA StripStays ==
  ASSUME NEW acc \in StripAccs, NEW l \in Lines
  PROVE  Strip(acc, l) \in StripAccs
BY DEF StripAccs, Strip, Lines, NoSkip

(* extract_code goes through the lines one by one.                          *)
LEMMA StripTrace ==
  ASSUME NEW code \in Seq(Lines)
  PROVE  \E h : /\ h[0] = [skip |-> NoSkip, out |-> <<>>]
                /\ \A i \in 1..Len(code) : h[i] = Strip(h[i - 1], code[i])
                /\ MainStripped(code) = h[Len(code)].out
<1> DEFINE n == Len(code)
           base == [skip |-> NoSkip, out |-> <<>>]
           G(g) == g = [s \in SUBSET DOMAIN code |-> IF s = {} THEN base
                          ELSE Strip(g[s \ {Max(s)}], code[Max(s)])]
           step == [p \in (1..n) \X StripAccs |-> Strip(p[2], code[p[1]])]
           k == CHOOSE g : G(g)
<1>1. n \in Nat /\ DOMAIN code = 1..n /\ \A i \in 1..n : code[i] \in Lines
  OBVIOUS
<1>2. base \in StripAccs
  BY DEF StripAccs, NoSkip
<1>3. \A i \in 1..n, acc \in StripAccs :
        step[<<i, acc>>] = Strip(acc, code[i]) /\ step[<<i, acc>>] \in StripAccs
  BY <1>1, StripStays
<1>4. MainStripped(code) = k[DOMAIN code].out
  BY DEF MainStripped, FoldLeft, MapThenFoldSet, Strip
<1> HIDE DEF step, base, n
<1>5. PICK g \in [SUBSET (1..n) -> StripAccs] : FoldsLeft(g, n, base, step)
  <2>1. StaysIn(StripAccs, step, 1..n)
    BY <1>3 DEF StaysIn
  <2> QED
    BY <1>1, <1>2, <2>1, LeftFoldExists
<1>6. \A s \in SUBSET (1..n) : s # {} =>
        step[<<Max(s), g[s \ {Max(s)}]>>] = Strip(g[s \ {Max(s)}], code[Max(s)])
  BY <1>1, <1>3, <1>5, MaxOf
<1>7. G(g)
  <2>1. g = [s \in SUBSET (1..n) |-> g[s]]
    BY <1>5
  <2> QED
    BY <1>1, <1>5, <1>6, <2>1 DEF FoldsLeft
<1>8. G(k)
  BY <1>7
<1> HIDE DEF k
<1>9. \A s \in SUBSET (1..n) :
        k[s] = IF s = {} THEN base ELSE Strip(k[s \ {Max(s)}], code[Max(s)])
  BY <1>1, <1>8
<1> DEFINE h == [i \in 0..n |-> k[1..i]]
<1>10. h[0] = base
  <2>1. 1..0 = {} /\ {} \in SUBSET (1..n) /\ 0 \in 0..n
    BY <1>1
  <2> QED
    BY <1>9, <2>1
<1>11. \A i \in 1..n : h[i] = Strip(h[i - 1], code[i])
  <2> TAKE i \in 1..n
  <2>1. i \in 0..n /\ i - 1 \in 0..n
    BY <1>1
  <2>2. k[1..i] = Strip(k[1..(i - 1)], code[i])
    BY <1>1, <1>9, MaxUpTo
  <2> QED
    BY <2>1, <2>2
<1>12. MainStripped(code) = h[n].out
  BY <1>1, <1>4
<1> QED
  BY <1>10, <1>11, <1>12 DEF base, n

(* Something that holds at the start of a trace and is kept holds all along. *)
LEMMA AllAlong ==
  ASSUME NEW n \in Nat, NEW T \in SUBSET (0..n), 0 \in T, \A i \in 1..n : i - 1 \in T => i \in T
  PROVE  n \in T
<1> DEFINE Bad == (0..n) \ T
<1>1. ASSUME Bad # {} PROVE FALSE
  <2>1. PICK i \in Bad : \A m \in Bad : ~(m < i)
    BY <1>1, LeastNat, Bad \in SUBSET Nat
  <2>2. i \in 1..n /\ i - 1 \in 0..n /\ i - 1 < i
    BY <2>1
  <2>3. i - 1 \in T
    BY <2>1, <2>2
  <2> QED
    BY <2>1, <2>2, <2>3
<1> QED
  BY <1>1

(* What extract_code has kept of the first i lines: no __main__ block, and   *)
(* every function at the left margin.                                        *)
StripOK(acc, code, i) ==
  /\ acc \in StripAccs /\ acc.skip \in Nat \cup {NoSkip}
  /\ \A k \in 1..Len(acc.out) : acc.out[k].kind # "main" /\ \E j \in 1..i : acc.out[k] = code[j]
  /\ \A j \in 1..i : code[j].kind = "def" /\ code[j].indent = 0 =>
       \E k \in 1..Len(acc.out) : acc.out[k] = code[j]

(* One more line is dropped, or kept as it stands.                          *)
LEMMA StripKeeps ==
  ASSUME NEW code \in Seq(Lines), NEW i \in 1..Len(code), NEW acc, StripOK(acc, code, i - 1)
  PROVE  StripOK(Strip(acc, code[i]), code, i)
<1> DEFINE l == code[i]
           after == Strip(acc, l)
<1> SUFFICES StripOK(after, code, i)
  OBVIOUS
<1>1. /\ l \in Lines /\ l.indent \in Nat /\ acc \in StripAccs /\ i \in Nat
      /\ acc.out \in Seq(Lines) /\ acc.skip \in Nat \cup {NoSkip}
      /\ i \in 1..i /\ \A j \in 1..i : j = i \/ j \in 1..(i - 1)
      /\ \A j \in 1..(i - 1) : j \in 1..i
  <2>1. l \in Lines
    OBVIOUS
  <2>2. acc \in StripAccs /\ acc.skip \in Nat \cup {NoSkip}
    BY DEF StripOK
  <2>3. l.indent \in Nat /\ acc.out \in Seq(Lines)
    BY <2>1, <2>2 DEF Lines, StripAccs
  <2> HIDE DEF l
  <2> QED
    BY <2>1, <2>2, <2>3
<1>2. after \in StripAccs
  BY <1>1, StripStays
<1> HIDE DEF l
<1>3. CASE l.kind = "main"
  <2>1. after.skip = l.indent /\ after.out = acc.out
    BY <1>1, <1>3 DEF Strip, StripAccs
  <2> HIDE DEF after
  <2>2. \A j \in 1..i : code[j].kind = "def" => j \in 1..(i - 1)
    BY <1>1, <1>3 DEF l
  <2>3. \A k \in 1..Len(acc.out) : acc.out[k].kind # "main" /\ \E j \in 1..i : acc.out[k] = code[j]
    BY <1>1 DEF StripOK
  <2>4. \A j \in 1..i : code[j].kind = "def" /\ code[j].indent = 0 =>
          \E k \in 1..Len(acc.out) : acc.out[k] = code[j]
    BY <2>2 DEF StripOK
  <2> QED
    BY <1>1, <1>2, <2>1, <2>3, <2>4 DEF StripOK
<1>4. CASE l.kind # "main" /\ Skipped(acc, l)
  <2>1. after = acc
    BY <1>4 DEF Strip
  <2>2. l.indent # 0
    BY <1>1, <1>4 DEF Skipped, NoSkip
  <2> HIDE DEF after
  <2>3. \A j \in 1..i : code[j].indent = 0 => j \in 1..(i - 1)
    BY <1>1, <2>2 DEF l
  <2>4. \A k \in 1..Len(acc.out) : acc.out[k].kind # "main" /\ \E j \in 1..i : acc.out[k] = code[j]
    BY <1>1 DEF StripOK
  <2>5. \A j \in 1..i : code[j].kind = "def" /\ code[j].indent = 0 =>
          \E k \in 1..Len(acc.out) : acc.out[k] = code[j]
    BY <2>3 DEF StripOK
  <2> QED
    BY <1>1, <1>2, <2>1, <2>4, <2>5 DEF StripOK
<1>5. CASE l.kind # "main" /\ ~Skipped(acc, l)
  <2>1. after.skip = NoSkip /\ after.out = Append(acc.out, l)
    BY <1>5 DEF Strip
  <2> HIDE DEF after
  <2>2. /\ Len(after.out) = Len(acc.out) + 1 /\ Len(acc.out) \in Nat
        /\ after.out[Len(acc.out) + 1] = l
        /\ \A k \in 1..Len(acc.out) : after.out[k] = acc.out[k]
    BY <1>1, <2>1
  <2>3. \A k \in 1..Len(after.out) : k \in 1..Len(acc.out) \/ after.out[k] = l
    BY <2>2
  <2>4. \A k \in 1..Len(after.out) :
          after.out[k].kind # "main" /\ \E j \in 1..i : after.out[k] = code[j]
    <3> TAKE k \in 1..Len(after.out)
    <3>1. CASE after.out[k] = l
      BY <1>1, <1>5, <3>1 DEF l
    <3>2. CASE k \in 1..Len(acc.out)
      <4>1. after.out[k] = acc.out[k]
        BY <2>2, <3>2
      <4>2. acc.out[k].kind # "main" /\ \E j \in 1..(i - 1) : acc.out[k] = code[j]
        BY <3>2 DEF StripOK
      <4> QED
        BY <1>1, <4>1, <4>2
    <3> QED
      BY <2>3, <3>1, <3>2
  <2>5. \A j \in 1..i : code[j].kind = "def" /\ code[j].indent = 0 =>
          \E k \in 1..Len(after.out) : after.out[k] = code[j]
    <3> TAKE j \in 1..i
    <3>1. CASE j = i
      <4>1. Len(acc.out) + 1 \in 1..Len(after.out)
        BY <2>2
      <4> QED
        BY <2>2, <3>1, <4>1 DEF l
    <3>2. CASE j \in 1..(i - 1)
      <4>1. \A k \in 1..Len(acc.out) : k \in 1..Len(after.out)
        BY <2>2
      <4> QED
        BY <2>2, <3>2, <4>1 DEF StripOK
    <3> QED
      BY <1>1, <3>1, <3>2
  <2>6. after.skip \in Nat \cup {NoSkip}
    BY <2>1
  <2> QED
    BY <1>2, <2>4, <2>5, <2>6 DEF StripOK
<1> QED
  BY <1>3, <1>4, <1>5 DEF l

(* extract_code drops __main__ blocks, and no function at the margin.       *)
LEMMA Stripped ==
  ASSUME NEW code \in Seq(Lines)
  PROVE  LET out == MainStripped(code)
         IN /\ out \in Seq(Lines)
            /\ \A k \in 1..Len(out) : out[k].kind # "main" /\ \E j \in 1..Len(code) : out[k] = code[j]
            /\ \A f : Offers(out, f) <=> Offers(code, f)
<1> DEFINE n == Len(code)
<1>1. PICK h : /\ h[0] = [skip |-> NoSkip, out |-> <<>>]
               /\ \A i \in 1..n : h[i] = Strip(h[i - 1], code[i])
               /\ MainStripped(code) = h[n].out
  BY StripTrace
<1> DEFINE T == {i \in 0..n : StripOK(h[i], code, i)}
<1>2. 0 \in T
  <2> DEFINE first == [skip |-> NoSkip, out |-> <<>>]
  <2>1. first \in StripAccs /\ first.skip = NoSkip /\ Len(first.out) = 0 /\ 0 \in 0..n
    BY DEF StripAccs, NoSkip
  <2> HIDE DEF first
  <2>2. StripOK(first, code, 0)
    BY <2>1 DEF StripOK
  <2> QED
    BY <1>1, <2>1, <2>2 DEF first
<1>3. \A i \in 1..n : i - 1 \in T => i \in T
  BY <1>1, StripKeeps
<1>4. n \in T
  <2>1. n \in Nat /\ T \in SUBSET (0..n)
    OBVIOUS
  <2> HIDE DEF T
  <2> QED
    BY <1>2, <1>3, <2>1, AllAlong
<1>5. StripOK(h[n], code, n)
  BY <1>4
<1> DEFINE out == MainStripped(code)
<1>6. /\ out \in Seq(Lines)
      /\ \A k \in 1..Len(out) : out[k].kind # "main" /\ \E j \in 1..n : out[k] = code[j]
      /\ \A j \in 1..n : code[j].kind = "def" /\ code[j].indent = 0 => \E k \in 1..Len(out) : out[k] = code[j]
  BY <1>1, <1>5 DEF StripOK, StripAccs
<1> HIDE DEF out
<1>7. \A f : Offers(out, f) <=> Offers(code, f)
  BY <1>6 DEF Offers, Offer
<1> QED
  BY <1>6, <1>7 DEF out

-----------------------------------------------------------------------------
(* deduplicate_bundle, line by line and section by section.                  *)
Accs == [imports : SUBSET STRING, defs : SUBSET STRING, skip : Int, out : Seq(Lines)]

NothingSeen == [imports |-> {}, defs |-> {}, skip |-> NoSkip, out |-> <<>>]

ScanLines(acc, code) == FoldLeft(Line, acc, code)

ScanCode(acc, code) == ScanLines([acc EXCEPT !.skip = NoSkip, !.out = <<>>], code)

(* A line is kept or not; whether a function was seen is known at its line.  *)
LEMMA LineDoes ==
  ASSUME NEW acc \in Accs, NEW l \in Lines
  PROVE  LET a == Line(acc, l)
         IN /\ a \in Accs
            /\ acc.skip \in Nat \cup {NoSkip} => a.skip \in Nat \cup {NoSkip}
            /\ a.out = acc.out \/ a.out = Append(acc.out, l)
            /\ \A f : acc.skip \in Nat \cup {NoSkip} /\ ~Method(l, f) =>
                 /\ f \in a.defs <=> f \in acc.defs \/ Offer(l, f)
                 /\ Offer(l, f) /\ f \in acc.defs => a.out = acc.out
                 /\ Offer(l, f) /\ f \notin acc.defs => a.out = Append(acc.out, l)
<1> DEFINE a == [acc EXCEPT !.skip = NoSkip]
           kept == [a EXCEPT !.out = Append(@, l)]
           skipped == [a EXCEPT !.skip = l.indent]
           import == [kept EXCEPT !.imports = @ \cup {l.name}]
           def == [kept EXCEPT !.defs = @ \cup {l.name}]
<1>1. /\ l.indent \in Nat /\ l.name \in STRING /\ acc.out \in Seq(Lines) /\ acc.skip \in Int
      /\ acc.imports \in SUBSET STRING /\ acc.defs \in SUBSET STRING /\ NoSkip \in Int
  BY DEF Accs, Lines, NoSkip
<1>2. /\ a \in Accs /\ a.skip = NoSkip /\ a.out = acc.out /\ a.defs = acc.defs
      /\ skipped \in Accs /\ skipped.skip = l.indent /\ skipped.out = acc.out /\ skipped.defs = acc.defs
      /\ kept \in Accs /\ kept.skip = NoSkip /\ kept.out = Append(acc.out, l) /\ kept.defs = acc.defs
      /\ import \in Accs /\ import.skip = NoSkip /\ import.out = Append(acc.out, l) /\ import.defs = acc.defs
      /\ def \in Accs /\ def.skip = NoSkip /\ def.out = Append(acc.out, l) /\ def.defs = acc.defs \cup {l.name}
  <2>1. a \in Accs /\ a.skip = NoSkip /\ a.out = acc.out /\ a.defs = acc.defs
    BY <1>1 DEF Accs
  <2> HIDE DEF a
  <2>2. skipped \in Accs /\ skipped.skip = l.indent /\ skipped.out = acc.out /\ skipped.defs = acc.defs
    BY <1>1, <2>1 DEF Accs
  <2>3. kept \in Accs /\ kept.skip = NoSkip /\ kept.out = Append(acc.out, l) /\ kept.defs = acc.defs
    <3>1. Append(a.out, l) \in Seq(Lines)
      BY <1>1, <2>1
    <3> QED
      BY <2>1, <3>1 DEF Accs
  <2> HIDE DEF kept
  <2>4. import \in Accs /\ import.skip = NoSkip /\ import.out = Append(acc.out, l) /\ import.defs = acc.defs
    BY <1>1, <2>3 DEF Accs
  <2>5. def \in Accs /\ def.skip = NoSkip /\ def.out = Append(acc.out, l) /\ def.defs = acc.defs \cup {l.name}
    BY <1>1, <2>3 DEF Accs
  <2> QED
    BY <2>1, <2>2, <2>3, <2>4, <2>5
<1>3. \/ Skipped(acc, l) /\ Line(acc, l) = acc
      \/ ~Skipped(acc, l) /\ l.kind = "import" /\ Line(acc, l) \in {a, import}
      \/ ~Skipped(acc, l) /\ l.kind = "def" /\ l.name \in acc.defs /\ Line(acc, l) = skipped
      \/ ~Skipped(acc, l) /\ l.kind = "def" /\ l.name \notin acc.defs /\ Line(acc, l) = def
      \/ ~Skipped(acc, l) /\ l.kind # "def" /\ Line(acc, l) = kept
  <2>1. CASE Skipped(acc, l)
    BY <2>1 DEF Line
  <2>2. CASE ~Skipped(acc, l) /\ l.kind = "import"
    BY <2>2 DEF Line
  <2>3. CASE ~Skipped(acc, l) /\ l.kind = "def" /\ l.name \in acc.defs
    BY <2>3 DEF Line
  <2>4. CASE ~Skipped(acc, l) /\ l.kind = "def" /\ l.name \notin acc.defs
    BY <2>4 DEF Line
  <2>5. CASE ~Skipped(acc, l) /\ l.kind \notin {"import", "def"}
    BY <2>5 DEF Line
  <2> QED
    BY <2>1, <2>2, <2>3, <2>4, <2>5
<1>4. acc.skip \in Nat \cup {NoSkip} /\ Skipped(acc, l) => l.indent # 0
  BY <1>1 DEF Skipped
<1>5. Append(acc.out, l) \in Seq(Lines)
  BY <1>1
<1> HIDE DEF a, kept, skipped, import, def
<1>6. Line(acc, l) \in Accs
  BY <1>2, <1>3
<1>7. acc.skip \in Nat \cup {NoSkip} => Line(acc, l).skip \in Nat \cup {NoSkip}
  BY <1>1, <1>2, <1>3
<1>8. Line(acc, l).out = acc.out \/ Line(acc, l).out = Append(acc.out, l)
  BY <1>2, <1>3
<1>9. ASSUME NEW f, acc.skip \in Nat \cup {NoSkip}, ~Method(l, f)
      PROVE  /\ f \in Line(acc, l).defs <=> f \in acc.defs \/ Offer(l, f)
             /\ Offer(l, f) /\ f \in acc.defs => Line(acc, l).out = acc.out
             /\ Offer(l, f) /\ f \notin acc.defs => Line(acc, l).out = Append(acc.out, l)
  BY <1>2, <1>3, <1>4, <1>9 DEF Offer, Method
<1> QED
  BY <1>6, <1>7, <1>8, <1>9

(* The lines of a section are scanned one by one.                            *)
LEMMA LineTrace ==
  ASSUME NEW code \in Seq(Lines), NEW base \in Accs
  PROVE  \E h : /\ h[0] = base
                /\ \A i \in 1..Len(code) : h[i] = Line(h[i - 1], code[i])
                /\ ScanLines(base, code) = h[Len(code)]
<1> DEFINE n == Len(code)
           G(g) == g = [s \in SUBSET DOMAIN code |-> IF s = {} THEN base
                          ELSE Line(g[s \ {Max(s)}], code[Max(s)])]
           step == [p \in (1..n) \X Accs |-> Line(p[2], code[p[1]])]
           k == CHOOSE g : G(g)
<1>1. n \in Nat /\ DOMAIN code = 1..n /\ \A i \in 1..n : code[i] \in Lines
  OBVIOUS
<1>2. base \in Accs
  OBVIOUS
<1>3. \A i \in 1..n, acc \in Accs :
        step[<<i, acc>>] = Line(acc, code[i]) /\ step[<<i, acc>>] \in Accs
  BY <1>1, LineDoes
<1>4. ScanLines(base, code) = k[DOMAIN code]
  BY DEF ScanLines, FoldLeft, MapThenFoldSet
<1> HIDE DEF step, n
<1>5. PICK g \in [SUBSET (1..n) -> Accs] : FoldsLeft(g, n, base, step)
  <2>1. StaysIn(Accs, step, 1..n)
    BY <1>3 DEF StaysIn
  <2> QED
    BY <1>1, <1>2, <2>1, LeftFoldExists
<1>6. \A s \in SUBSET (1..n) : s # {} =>
        step[<<Max(s), g[s \ {Max(s)}]>>] = Line(g[s \ {Max(s)}], code[Max(s)])
  BY <1>1, <1>3, <1>5, MaxOf
<1>7. G(g)
  <2>1. g = [s \in SUBSET (1..n) |-> g[s]]
    BY <1>5
  <2> QED
    BY <1>1, <1>5, <1>6, <2>1 DEF FoldsLeft
<1>8. G(k)
  BY <1>7
<1> HIDE DEF k
<1>9. \A s \in SUBSET (1..n) :
        k[s] = IF s = {} THEN base ELSE Line(k[s \ {Max(s)}], code[Max(s)])
  BY <1>1, <1>8
<1> DEFINE h == [i \in 0..n |-> k[1..i]]
<1>10. h[0] = base
  <2>1. 1..0 = {} /\ {} \in SUBSET (1..n) /\ 0 \in 0..n
    BY <1>1
  <2> QED
    BY <1>9, <2>1
<1>11. \A i \in 1..n : h[i] = Line(h[i - 1], code[i])
  <2> TAKE i \in 1..n
  <2>1. i \in 0..n /\ i - 1 \in 0..n
    BY <1>1
  <2>2. k[1..i] = Line(k[1..(i - 1)], code[i])
    BY <1>1, <1>9, MaxUpTo
  <2> QED
    BY <2>1, <2>2
<1>12. ScanLines(base, code) = h[n]
  BY <1>1, <1>4
<1> QED
  BY <1>10, <1>11, <1>12 DEF n

(* What is known after i lines of a section: which functions were seen, and  *)
(* that one is kept here if it is offered here and was not seen before.      *)
ScanOK(acc, before, code, i) ==
  /\ acc \in Accs /\ acc.skip \in Nat \cup {NoSkip}
  /\ \A k \in 1..Len(acc.out) : \E j \in 1..i : acc.out[k] = code[j]
  /\ \A f : ~Hides(code, f) =>
       /\ f \in acc.defs <=> f \in before.defs \/ \E j \in 1..i : Offer(code[j], f)
       /\ Offers(acc.out, f) <=> f \notin before.defs /\ \E j \in 1..i : Offer(code[j], f)

(* A line more: what is offered before, and what the line offers.           *)
LEMMA OffersAppended ==
  ASSUME NEW out \in Seq(Lines), NEW l \in Lines
  PROVE  /\ \A k \in 1..Len(Append(out, l)) :
              Append(out, l)[k] = l \/ (k \in 1..Len(out) /\ Append(out, l)[k] = out[k])
         /\ \A f : Offers(Append(out, l), f) <=> Offers(out, f) \/ Offer(l, f)
<1> DEFINE more == Append(out, l)
<1>1. /\ Len(more) = Len(out) + 1 /\ Len(out) \in Nat /\ more[Len(out) + 1] = l
      /\ \A k \in 1..Len(out) : more[k] = out[k]
  OBVIOUS
<1> HIDE DEF more
<1>2. \A k \in 1..Len(more) : more[k] = l \/ (k \in 1..Len(out) /\ more[k] = out[k])
  <2>1. \A k \in 1..Len(more) : k = Len(out) + 1 \/ k \in 1..Len(out)
    BY <1>1
  <2> QED
    BY <1>1, <2>1
<1>3. Len(out) + 1 \in 1..Len(more) /\ \A k \in 1..Len(out) : k \in 1..Len(more)
  BY <1>1
<1>4. \A f : Offers(more, f) <=> Offers(out, f) \/ Offer(l, f)
  BY <1>1, <1>2, <1>3 DEF Offers
<1> QED
  BY <1>2, <1>4 DEF more

(* One more line of deduplicate_bundle.                                     *)
LEMMA ScanKeeps ==
  ASSUME NEW before, NEW code \in Seq(Lines), NEW i \in 1..Len(code),
         NEW acc, ScanOK(acc, before, code, i - 1)
  PROVE  ScanOK(Line(acc, code[i]), before, code, i)
<1> DEFINE l == code[i]
           after == Line(acc, l)
<1> SUFFICES ScanOK(after, before, code, i)
  OBVIOUS
<1>1. /\ l \in Lines /\ acc \in Accs /\ acc.out \in Seq(Lines) /\ acc.skip \in Nat \cup {NoSkip}
      /\ i \in 1..i /\ \A j \in 1..i : j = i \/ j \in 1..(i - 1)
      /\ \A j \in 1..(i - 1) : j \in 1..i
  <2>1. l \in Lines
    OBVIOUS
  <2>2. acc \in Accs /\ acc.skip \in Nat \cup {NoSkip}
    BY DEF ScanOK
  <2>3. acc.out \in Seq(Lines)
    BY <2>2 DEF Accs
  <2> HIDE DEF l
  <2> QED
    BY <2>1, <2>2, <2>3
<1>2. l = code[i]
  OBVIOUS
<1> HIDE DEF l
<1>3. /\ after \in Accs /\ after.skip \in Nat \cup {NoSkip}
      /\ after.out = acc.out \/ after.out = Append(acc.out, l)
      /\ \A f : ~Method(l, f) =>
           /\ f \in after.defs <=> f \in acc.defs \/ Offer(l, f)
           /\ Offer(l, f) /\ f \in acc.defs => after.out = acc.out
           /\ Offer(l, f) /\ f \notin acc.defs => after.out = Append(acc.out, l)
  BY <1>1, LineDoes
<1> HIDE DEF after
<1>4. \A k \in 1..Len(after.out) : \E j \in 1..i : after.out[k] = code[j]
  <2> TAKE k \in 1..Len(after.out)
  <2>1. after.out[k] = l \/ (k \in 1..Len(acc.out) /\ after.out[k] = acc.out[k])
    BY <1>1, <1>3, OffersAppended
  <2>2. \A m \in 1..Len(acc.out) : \E j \in 1..(i - 1) : acc.out[m] = code[j]
    BY DEF ScanOK
  <2> QED
    BY <1>1, <1>2, <2>1, <2>2
<1>5. ASSUME NEW f, ~Hides(code, f)
      PROVE  /\ f \in after.defs <=> f \in before.defs \/ \E j \in 1..i : Offer(code[j], f)
             /\ Offers(after.out, f) <=> f \notin before.defs /\ \E j \in 1..i : Offer(code[j], f)
  <2>1. ~Method(l, f)
    BY <1>2, <1>5 DEF Hides
  <2>2. /\ f \in acc.defs <=> f \in before.defs \/ \E j \in 1..(i - 1) : Offer(code[j], f)
        /\ Offers(acc.out, f) <=> f \notin before.defs /\ \E j \in 1..(i - 1) : Offer(code[j], f)
    BY <1>5 DEF ScanOK
  <2>3. (\E j \in 1..i : Offer(code[j], f)) <=> Offer(l, f) \/ \E j \in 1..(i - 1) : Offer(code[j], f)
    BY <1>1, <1>2
  <2>4. Offers(Append(acc.out, l), f) <=> Offers(acc.out, f) \/ Offer(l, f)
    BY <1>1, OffersAppended
  <2> QED
    BY <1>3, <2>1, <2>2, <2>3, <2>4
<1> QED
  BY <1>3, <1>4, <1>5 DEF ScanOK

(* One section: the functions it offers are seen, and are kept if they were  *)
(* not seen in a section before.                                             *)
LEMMA ScanCodeDoes ==
  ASSUME NEW before \in Accs, NEW code \in Seq(Lines)
  PROVE  LET after == ScanCode(before, code)
         IN /\ after \in Accs
            /\ \A k \in 1..Len(after.out) : \E j \in 1..Len(code) : after.out[k] = code[j]
            /\ \A f : ~Hides(code, f) =>
                 /\ f \in after.defs <=> f \in before.defs \/ Offers(code, f)
                 /\ Offers(after.out, f) <=> f \notin before.defs /\ Offers(code, f)
<1> DEFINE n == Len(code)
           base == [before EXCEPT !.skip = NoSkip, !.out = <<>>]
<1>1. base \in Accs /\ base.defs = before.defs /\ base.skip = NoSkip /\ base.out = <<>>
  <2>1. <<>> \in Seq(Lines) /\ NoSkip \in Int
    BY DEF NoSkip
  <2> QED
    BY <2>1 DEF Accs
<1>2. ScanCode(before, code) = ScanLines(base, code)
  BY DEF ScanCode
<1> HIDE DEF base
<1>3. PICK h : /\ h[0] = base /\ \A i \in 1..n : h[i] = Line(h[i - 1], code[i])
               /\ ScanLines(base, code) = h[n]
  BY <1>1, LineTrace
<1> DEFINE T == {i \in 0..n : ScanOK(h[i], before, code, i)}
<1>4. 0 \in T
  <2>1. \A f : ~Offers(base.out, f)
    BY <1>1 DEF Offers
  <2>2. ScanOK(base, before, code, 0)
    BY <1>1, <2>1 DEF ScanOK
  <2>3. 0 \in 0..n
    OBVIOUS
  <2> QED
    BY <1>3, <2>2, <2>3
<1>5. \A i \in 1..n : i - 1 \in T => i \in T
  BY <1>3, ScanKeeps
<1>6. n \in T
  <2>1. n \in Nat /\ T \in SUBSET (0..n)
    OBVIOUS
  <2> HIDE DEF T
  <2> QED
    BY <1>4, <1>5, <2>1, AllAlong
<1>7. ScanOK(ScanCode(before, code), before, code, n)
  BY <1>2, <1>3, <1>6
<1> QED
  BY <1>7 DEF ScanOK, Offers

(* The sections are scanned one by one.                                      *)
LEMMA ScanTrace ==
  ASSUME NEW n \in Nat, NEW secs, DOMAIN secs = 1..n, \A i \in 1..n : secs[i].code \in Seq(Lines)
  PROVE  \E h : /\ h[0] = NothingSeen
                /\ \A i \in 1..n : h[i] = ScanCode(h[i - 1], secs[i].code)
                /\ Scanned(secs) = h[n]
<1> DEFINE base == NothingSeen
           G(g) == g = [s \in SUBSET DOMAIN secs |-> IF s = {} THEN base
                          ELSE ScanCode(g[s \ {Max(s)}], secs[Max(s)].code)]
           step == [p \in (1..n) \X Accs |-> ScanCode(p[2], secs[p[1]].code)]
           k == CHOOSE g : G(g)
<1>1. n \in Nat /\ DOMAIN secs = 1..n /\ \A i \in 1..n : secs[i].code \in Seq(Lines)
  OBVIOUS
<1>2. base \in Accs
  BY DEF Accs, NothingSeen, NoSkip
<1>3. \A i \in 1..n, acc \in Accs :
        step[<<i, acc>>] = ScanCode(acc, secs[i].code) /\ step[<<i, acc>>] \in Accs
  BY <1>1, ScanCodeDoes
<1>4. Scanned(secs) = k[DOMAIN secs]
  BY DEF Scanned, ScanCode, ScanLines, NothingSeen, FoldLeft, MapThenFoldSet
<1> HIDE DEF step, base
<1>5. PICK g \in [SUBSET (1..n) -> Accs] : FoldsLeft(g, n, base, step)
  <2>1. StaysIn(Accs, step, 1..n)
    BY <1>3 DEF StaysIn
  <2> QED
    BY <1>1, <1>2, <2>1, LeftFoldExists
<1>6. \A s \in SUBSET (1..n) : s # {} =>
        step[<<Max(s), g[s \ {Max(s)}]>>] = ScanCode(g[s \ {Max(s)}], secs[Max(s)].code)
  BY <1>1, <1>3, <1>5, MaxOf
<1>7. G(g)
  <2>1. g = [s \in SUBSET (1..n) |-> g[s]]
    BY <1>5
  <2> QED
    BY <1>1, <1>5, <1>6, <2>1 DEF FoldsLeft
<1>8. G(k)
  BY <1>7
<1> HIDE DEF k
<1>9. \A s \in SUBSET (1..n) :
        k[s] = IF s = {} THEN base ELSE ScanCode(k[s \ {Max(s)}], secs[Max(s)].code)
  BY <1>1, <1>8
<1> DEFINE h == [i \in 0..n |-> k[1..i]]
<1>10. h[0] = base
  <2>1. 1..0 = {} /\ {} \in SUBSET (1..n) /\ 0 \in 0..n
    BY <1>1
  <2> QED
    BY <1>9, <2>1
<1>11. \A i \in 1..n : h[i] = ScanCode(h[i - 1], secs[i].code)
  <2> TAKE i \in 1..n
  <2>1. i \in 0..n /\ i - 1 \in 0..n
    BY <1>1
  <2>2. k[1..i] = ScanCode(k[1..(i - 1)], secs[i].code)
    BY <1>1, <1>9, MaxUpTo
  <2> QED
    BY <2>1, <2>2
<1>12. Scanned(secs) = h[n]
  BY <1>1, <1>4
<1> QED
  BY <1>10, <1>11, <1>12 DEF base


(* The i-th section after deduplicate_bundle: it keeps what no section       *)
(* before it offers, unless a method took the name.                          *)
LEMMA ScannedDoes ==
  ASSUME NEW n \in Nat \ {0}, NEW secs, DOMAIN secs = 1..n,
         \A i \in 1..n : secs[i].code \in Seq(Lines)
  PROVE  LET out == Scanned(secs).out
         IN /\ \A k \in 1..Len(out) : \E j \in 1..Len(secs[n].code) : out[k] = secs[n].code[j]
            /\ \A f : (\A i \in 1..n : ~Hides(secs[i].code, f)) =>
                 (Offers(out, f) <=> /\ Offers(secs[n].code, f)
                                     /\ \A j \in 1..(n - 1) : ~Offers(secs[j].code, f))
<1>1. PICK h : /\ h[0] = NothingSeen
               /\ \A i \in 1..n : h[i] = ScanCode(h[i - 1], secs[i].code)
               /\ Scanned(secs) = h[n]
  BY ScanTrace
<1> DEFINE Apart(f) == \A i \in 1..n : ~Hides(secs[i].code, f)
           Seen(i) == \A f : Apart(f) => (f \in h[i].defs <=> \E j \in 1..i : Offers(secs[j].code, f))
           T == {i \in 0..n : h[i] \in Accs /\ Seen(i)}
<1>2. 0 \in T
  <2>1. NothingSeen \in Accs /\ NothingSeen.defs = {} /\ 0 \in 0..n
    BY DEF NothingSeen, Accs, NoSkip
  <2> QED
    BY <1>1, <2>1
<1>3. ASSUME NEW i \in 1..n, i - 1 \in T PROVE i \in T
  <2> DEFINE code == secs[i].code
  <2>1. h[i - 1] \in Accs /\ Seen(i - 1) /\ code \in Seq(Lines) /\ h[i] = ScanCode(h[i - 1], code)
    BY <1>1, <1>3
  <2>2. /\ h[i] \in Accs
        /\ \A f : ~Hides(code, f) => (f \in h[i].defs <=> f \in h[i - 1].defs \/ Offers(code, f))
    BY <2>1, ScanCodeDoes
  <2>3. i \in 1..i /\ \A j \in 1..i : j = i \/ j \in 1..(i - 1)
    OBVIOUS
  <2>4. \A j \in 1..(i - 1) : j \in 1..i
    OBVIOUS
  <2>5. Seen(i)
    <3> SUFFICES ASSUME NEW f, Apart(f)
                 PROVE  f \in h[i].defs <=> \E j \in 1..i : Offers(secs[j].code, f)
      OBVIOUS
    <3>1. f \in h[i].defs <=> (\E j \in 1..(i - 1) : Offers(secs[j].code, f)) \/ Offers(secs[i].code, f)
      BY <2>1, <2>2
    <3> QED
      BY <2>3, <2>4, <3>1
  <2>6. i \in 0..n
    OBVIOUS
  <2> HIDE DEF Seen
  <2> QED
    BY <2>2, <2>5, <2>6
<1>4. n - 1 \in T
  <2>1. n - 1 \in Nat /\ T \cap (0..(n - 1)) \in SUBSET (0..(n - 1)) /\ 0 \in 0..(n - 1)
    OBVIOUS
  <2>2. \A i \in 1..(n - 1) : i \in 1..n /\ i \in 0..(n - 1) /\ i - 1 \in 0..(n - 1)
    OBVIOUS
  <2> HIDE DEF T
  <2> QED
    BY <1>2, <1>3, <2>1, <2>2, AllAlong
<1> DEFINE code == secs[n].code
<1>5. h[n - 1] \in Accs /\ Seen(n - 1) /\ code \in Seq(Lines) /\ h[n] = ScanCode(h[n - 1], code) /\ n \in 1..n
  <2>1. n \in 1..n
    OBVIOUS
  <2>2. code \in Seq(Lines) /\ h[n] = ScanCode(h[n - 1], code)
    BY <1>1, <2>1
  <2>3. h[n - 1] \in Accs /\ Seen(n - 1)
    BY <1>4
  <2> QED
    BY <2>1, <2>2, <2>3
<1>6. /\ \A k \in 1..Len(h[n].out) : \E j \in 1..Len(code) : h[n].out[k] = code[j]
      /\ \A f : ~Hides(code, f) => (Offers(h[n].out, f) <=> f \notin h[n - 1].defs /\ Offers(code, f))
  BY <1>5, ScanCodeDoes
<1>7. \A f : Apart(f) =>
        (Offers(h[n].out, f) <=> Offers(code, f) /\ \A j \in 1..(n - 1) : ~Offers(secs[j].code, f))
  BY <1>5, <1>6
<1> QED
  BY <1>1, <1>6, <1>7

(* The i-th section keeps the functions that no earlier one offers.         *)
LEMMA DeduplicatedDoes ==
  ASSUME NEW S, NEW secs \in Seq(S), \A i \in 1..Len(secs) : secs[i].code \in Seq(Lines),
         NEW i \in 1..Len(secs)
  PROVE  LET out == Scanned(SubSeq(secs, 1, i)).out
         IN /\ \A k \in 1..Len(out) : \E j \in 1..Len(secs[i].code) : out[k] = secs[i].code[j]
            /\ \A f : (\A j \in 1..Len(secs) : ~Hides(secs[j].code, f)) =>
                 (Offers(out, f) <=> /\ Offers(secs[i].code, f)
                                     /\ \A j \in 1..(i - 1) : ~Offers(secs[j].code, f))
<1> DEFINE pre == SubSeq(secs, 1, i)
<1>1. i \in Nat \ {0} /\ DOMAIN pre = 1..i /\ \A j \in 1..i : pre[j] = secs[j] /\ j \in 1..Len(secs)
  OBVIOUS
<1>2. \A j \in 1..(i - 1) : j \in 1..i
  OBVIOUS
<1>3. i \in 1..i
  OBVIOUS
<1> HIDE DEF pre
<1>4. \A j \in 1..i : pre[j].code \in Seq(Lines)
  BY <1>1
<1> DEFINE out == Scanned(pre).out
<1>5. /\ \A k \in 1..Len(out) : \E j \in 1..Len(pre[i].code) : out[k] = pre[i].code[j]
      /\ \A f : (\A j \in 1..i : ~Hides(pre[j].code, f)) =>
           (Offers(out, f) <=> /\ Offers(pre[i].code, f)
                               /\ \A j \in 1..(i - 1) : ~Offers(pre[j].code, f))
  BY <1>1, <1>4, ScannedDoes
<1> HIDE DEF out
<1>6. /\ \A k \in 1..Len(out) : \E j \in 1..Len(secs[i].code) : out[k] = secs[i].code[j]
      /\ \A f : (\A j \in 1..Len(secs) : ~Hides(secs[j].code, f)) =>
           (Offers(out, f) <=> /\ Offers(secs[i].code, f)
                               /\ \A j \in 1..(i - 1) : ~Offers(secs[j].code, f))
  BY <1>1, <1>2, <1>3, <1>5
<1> QED
  BY <1>6 DEF out, pre

-----------------------------------------------------------------------------
(* No method or inner function of any skill has the name of a function that  *)
(* a skill offers.  Without this deduplicate_bundle, which reads names at    *)
(* any indentation, takes the method for the function and leaves it out.     *)
MethodsApart ==
  \A lib \in Libraries : \A s, t \in Skills : \A k \in 1..Len(lib[s]) :
    Offer(lib[s][k], lib[s][k].name) => ~Hides(lib[t], lib[s][k].name)

(* The code that extract_code returns for the i-th skill of the order.       *)
Code(i) ==
  LET own == library[order[i]]
  IN IF i # Len(order) \/ call THEN MainStripped(own) ELSE own

(* Until they are deduplicated, the sections are the skills' code.           *)
CodesOK ==
  /\ library \in Libraries
  /\ pc = "extract" /\ edits = 0 => \A i \in 1..Len(sections) : sections[i].code = Code(i)

(* The code of a skill is a sequence of lines.                              *)
LEMMA LibraryOK ==
  ASSUME library \in Libraries
  PROVE  \A s \in Skills : library[s] \in Seq(Lines)
BY BundleAssumption DEF BundleAssumption

(* What a section's code offers and hides is what its skill's does.          *)
LEMMA CodeDoes ==
  ASSUME BInv, CodesOK, NEW i \in 1..Len(order)
  PROVE  /\ order[i] \in Skills /\ Code(i) \in Seq(Lines)
         /\ \A f : Offers(Code(i), f) <=> Offers(library[order[i]], f)
         /\ \A f : Hides(Code(i), f) => Hides(library[order[i]], f)
         /\ \A k \in 1..Len(Code(i)) : Code(i)[k].kind = "main" => i = Len(order) /\ ~call
<1> DEFINE own == library[order[i]]
<1>1. order[i] \in Skills
  BY DEF BInv, SortTypes
<1>2. own \in Seq(Lines)
  BY <1>1, LibraryOK DEF CodesOK
<1> HIDE DEF own
<1>3. CASE i = Len(order) /\ ~call
  <2>1. Code(i) = own
    BY <1>3 DEF Code, own
  <2> QED
    BY <1>1, <1>2, <1>3, <2>1 DEF own
<1>4. CASE i # Len(order) \/ call
  <2> DEFINE out == MainStripped(own)
  <2>1. Code(i) = out
    BY <1>4 DEF Code, own
  <2>2. /\ out \in Seq(Lines)
        /\ \A k \in 1..Len(out) : out[k].kind # "main" /\ \E j \in 1..Len(own) : out[k] = own[j]
        /\ \A f : Offers(out, f) <=> Offers(own, f)
    BY <1>2, Stripped
  <2> HIDE DEF out
  <2>3. \A f : Hides(out, f) => Hides(own, f)
    BY <2>2 DEF Hides
  <2> QED
    BY <1>1, <2>1, <2>2, <2>3 DEF own
<1> QED
  BY <1>3, <1>4

(* The first section that offers f keeps it, and no other does.              *)
LEMMA OneDefines ==
  ASSUME BInv, CodesOK, MethodsApart, Bundled, edits = 0
  PROVE  /\ Len(sections') = Len(order)
         /\ \A i \in 1..Len(order) :
              /\ \A k \in 1..Len(sections'[i].code) :
                   \E j \in 1..Len(Code(i)) : sections'[i].code[k] = Code(i)[j]
              /\ \A f : Offers(library[order[i]], f) =>
                   \E j \in 1..i : DefinedIn(f)' = {j}
<1> DEFINE n == Len(order)
<1>1. /\ n \in Nat /\ pc = "extract" /\ Len(sections) = n
      /\ sections = [i \in 1..n |-> sections[i]]
      /\ sections' = [i \in 1..n |-> [sections[i] EXCEPT !.code = Scanned(SubSeq(sections, 1, i)).out]]
  BY DEF BInv, SectionsOK, SortTypes, Bundled, Deduplicated
<1>2. \A i \in 1..n : sections[i].code = Code(i) /\ "code" \in DOMAIN sections[i]
  BY <1>1 DEF CodesOK, BInv, SectionsOK
<1>3. \A i \in 1..n : /\ order[i] \in Skills /\ Code(i) \in Seq(Lines)
                      /\ \A f : Offers(Code(i), f) <=> Offers(library[order[i]], f)
                      /\ \A f : Hides(Code(i), f) => Hides(library[order[i]], f)
  BY CodeDoes
<1>4. PICK secs : secs = sections
  OBVIOUS
<1>5. secs \in Seq({secs[i] : i \in 1..n}) /\ Len(secs) = n
  BY <1>1, <1>4, IsASequence
<1>6. \A i \in 1..n :
        LET out == Scanned(SubSeq(secs, 1, i)).out
        IN /\ \A k \in 1..Len(out) : \E j \in 1..Len(Code(i)) : out[k] = Code(i)[j]
           /\ \A f : (\A j \in 1..n : ~Hides(Code(j), f)) =>
                (Offers(out, f) <=> Offers(Code(i), f) /\ \A j \in 1..(i - 1) : ~Offers(Code(j), f))
  <2> TAKE i \in 1..n
  <2> DEFINE out == Scanned(SubSeq(secs, 1, i)).out
  <2>1. \A j \in 1..Len(secs) : secs[j].code = Code(j) /\ secs[j].code \in Seq(Lines)
    BY <1>2, <1>3, <1>4, <1>5
  <2>2. /\ \A k \in 1..Len(out) : \E j \in 1..Len(secs[i].code) : out[k] = secs[i].code[j]
        /\ \A f : (\A j \in 1..Len(secs) : ~Hides(secs[j].code, f)) =>
             (Offers(out, f) <=> /\ Offers(secs[i].code, f)
                                 /\ \A j \in 1..(i - 1) : ~Offers(secs[j].code, f))
    BY <1>5, <2>1, DeduplicatedDoes
  <2>3. \A j \in 1..(i - 1) : j \in 1..n
    BY <1>1
  <2> HIDE DEF out
  <2>4. /\ \A k \in 1..Len(out) : \E j \in 1..Len(Code(i)) : out[k] = Code(i)[j]
        /\ \A f : (\A j \in 1..n : ~Hides(Code(j), f)) =>
             (Offers(out, f) <=> Offers(Code(i), f) /\ \A j \in 1..(i - 1) : ~Offers(Code(j), f))
    BY <1>5, <2>1, <2>2, <2>3
  <2> QED
    BY <2>4 DEF out
<1>7. \A i \in 1..n : sections'[i].code = Scanned(SubSeq(secs, 1, i)).out
  BY <1>1, <1>2, <1>4
<1>8. Len(sections') = n
  <2>1. sections' = [i \in 1..n |-> sections'[i]]
    BY <1>1
  <2> QED
    BY <1>1, <2>1, IsASequence
<1>9. ASSUME NEW i \in 1..n, NEW f, Offers(library[order[i]], f)
      PROVE  \E j \in 1..i : DefinedIn(f)' = {j}
  <2>1. \A j \in 1..n : ~Hides(Code(j), f)
    <3> TAKE j \in 1..n
    <3>1. PICK k \in 1..Len(library[order[i]]) : Offer(library[order[i]][k], f)
      BY <1>9 DEF Offers
    <3>2. library[order[i]][k].name = f /\ Offer(library[order[i]][k], library[order[i]][k].name)
      BY <3>1 DEF Offer
    <3>3. ~Hides(library[order[j]], f)
      BY <1>3, <3>2 DEF MethodsApart, CodesOK
    <3> QED
      BY <1>3, <3>3
  <2> DEFINE Offering == {j \in 1..n : Offers(Code(j), f)}
  <2>2. i \in Offering /\ Offering \in SUBSET Nat
    BY <1>3, <1>9
  <2>3. PICK m \in Offering : \A j \in Offering : ~(j < m)
    BY <2>2, LeastNat
  <2>4. m \in 1..i /\ m \in 1..n
    BY <1>1, <2>2, <2>3
  <2>5. \A j \in 1..n : Offers(sections'[j].code, f) <=> j = m
    <3> TAKE j \in 1..n
    <3>1. Offers(sections'[j].code, f) <=> Offers(Code(j), f) /\ \A k \in 1..(j - 1) : ~Offers(Code(k), f)
      BY <1>6, <1>7, <2>1
    <3>2. \A k \in 1..(j - 1) : k \in 1..n /\ k < j
      BY <1>1
    <3>3. \A k \in 1..n : k < j => k \in 1..(j - 1)
      BY <1>1
    <3>4. j < m \/ j = m \/ m < j
      BY <1>1, <2>4
    <3> QED
      BY <2>3, <2>4, <3>1, <3>2, <3>3, <3>4
  <2>6. DefinedIn(f)' = {j \in 1..n : Offers(sections'[j].code, f)}
    BY <1>8 DEF DefinedIn, Offers, Offer
  <2>7. DefinedIn(f)' = {m}
    BY <2>4, <2>5, <2>6
  <2> QED
    BY <2>4, <2>7
<1> QED
  BY <1>6, <1>7, <1>8, <1>9

(* What CallsDefined says of one section.                                    *)
Offered(d) == {library[d][k].name : k \in {k \in 1..Len(library[d]) :
                 library[d][k].kind = "def" /\ library[d][k].indent = 0}}

Defined(i) ==
  LET s == sections[i].skill
  IN /\ \A f \in Offered(s) : \E j \in 1..i : DefinedIn(f) = {j}
     /\ \A d \in ToSet(all_deps[s]) : \A f \in Offered(d) :
          s \notin Needed(d) => \E j \in 1..(i - 1) : DefinedIn(f) = {j}
     /\ \A k \in 1..Len(sections[i].code) :
          sections[i].code[k].kind = "main" => s = Main /\ ~call

(* CallsDefined, section by section, before and after a step.               *)
LEMMA CallsDefinedIs ==
  /\ CallsDefined <=> (pc = "over" /\ edits = 0 => \A i \in 1..Len(sections) : Defined(i))
  /\ CallsDefined' <=> (pc' = "over" /\ edits' = 0 => \A i \in 1..Len(sections') : Defined(i)')
BY DEF CallsDefined, Defined, Offered

(* The step that deduplicates and writes makes CallsDefined true.           *)
LEMMA BundledDefines ==
  ASSUME BInv, CodesOK, MethodsApart, Bundled
  PROVE  CallsDefined'
<1> SUFFICES ASSUME edits = 0, NEW i \in 1..Len(sections') PROVE Defined(i)'
  BY CallsDefinedIs DEF Bundled
<1> DEFINE n == Len(order)
           s == order[i]
<1>1. /\ Len(sections') = n
      /\ \A j \in 1..n :
           /\ \A k \in 1..Len(sections'[j].code) :
                \E m \in 1..Len(Code(j)) : sections'[j].code[k] = Code(j)[m]
           /\ \A f : Offers(library[order[j]], f) => \E m \in 1..j : DefinedIn(f)' = {m}
  BY OneDefines
<1>2. BInv' /\ order' = order /\ pc' = "over" /\ pc = "extract" /\ n \in Nat
  BY BundledKeeps DEF Bundled, BInv, SortTypes
<1>3. sections'[i].skill = s /\ i \in 1..n
  BY <1>1, <1>2 DEF BInv, SectionsOK
<1>4. order[n] = Main
  BY <1>2, OrderIsNeeded
<1>5. \A d \in ToSet(all_deps[s]) : s \notin Needed(d) => \E j \in 1..(i - 1) : order[j] = d
  BY <1>2, <1>3 DEF BInv, SortTypes, OrderOK, Needed
<1>6. \A d : \A f \in Offered(d) : Offers(library[d], f)
  BY DEF Offers, Offer, Offered
<1>7. \A f \in Offered(s) : \E j \in 1..i : DefinedIn(f)' = {j}
  BY <1>1, <1>3, <1>6
<1>8. \A d \in ToSet(all_deps[s]) : \A f \in Offered(d) :
        s \notin Needed(d) => \E j \in 1..(i - 1) : DefinedIn(f)' = {j}
  <2> SUFFICES ASSUME NEW d \in ToSet(all_deps[s]), NEW f \in Offered(d), s \notin Needed(d)
               PROVE  \E j \in 1..(i - 1) : DefinedIn(f)' = {j}
    OBVIOUS
  <2>1. PICK j \in 1..(i - 1) : order[j] = d
    BY <1>5
  <2>2. j \in 1..n /\ \A m \in 1..j : m \in 1..(i - 1)
    BY <1>2, <1>3
  <2>3. \E m \in 1..j : DefinedIn(f)' = {m}
    BY <1>1, <1>6, <2>1, <2>2
  <2> QED
    BY <2>2, <2>3
<1>9. \A k \in 1..Len(sections'[i].code) : sections'[i].code[k].kind = "main" => s = Main /\ ~call
  <2>1. \A m \in 1..Len(Code(i)) : Code(i)[m].kind = "main" => i = n /\ ~call
    BY <1>3, CodeDoes
  <2> QED
    BY <1>1, <1>3, <1>4, <2>1
<1>10. /\ \A d : Offered(d)' = Offered(d) /\ Needed(d)' = Needed(d)
       /\ all_deps' = all_deps /\ call' = call
  BY DEF Bundled, Offered, Needed, Needs, Closed
<1> QED
  BY <1>3, <1>7, <1>8, <1>9, <1>10 DEF Defined

(* Sections are filled in the order, while nobody has edited a directory.    *)
LEMMA CodesKeep ==
  ASSUME BInv, CodesOK, [Next]_vars
  PROVE  CodesOK'
<1>1. library' = library
  BY DEF Next, vars, Edited, Collect, Collected, Sort, Sorted, Extract, Bundled
<1>2. ASSUME NEW t \in Skills, Edited(t) PROVE CodesOK'
  BY <1>1, <1>2 DEF CodesOK, BInv, ReadOK, Edited
<1>3. CASE Collect \/ Collected \/ Sort \/ Bundled
  BY <1>1, <1>3 DEF CodesOK, Collect, Collected, Sort, Bundled
<1>4. CASE Sorted
  BY <1>1, <1>4 DEF CodesOK, BInv, SortTypes, Sorted
<1>5. CASE UNCHANGED vars
  BY <1>1, <1>5 DEF CodesOK, Code, vars
<1>6. CASE Extract
  <2> SUFFICES ASSUME edits = 0
               PROVE  \A i \in 1..Len(sections') : sections'[i].code = Code(i)
    BY <1>1, <1>6 DEF CodesOK, Code, Extract
  <2> DEFINE n == Len(sections)
             sec == [label |-> IF n + 1 = Len(order) THEN "MAIN" ELSE "DEPENDENCY",
                     skill |-> order[n + 1], code |-> Code(n + 1)]
  <2>1. /\ n \in Nat /\ n + 1 <= Len(order) /\ order \in Seq(Skills)
        /\ sections = [i \in 1..n |-> sections[i]] /\ pc = "extract"
    BY <1>6 DEF BInv, SortTypes, SectionsOK, Extract
  <2>2. disk[order[n + 1]].there
    BY <2>1 DEF BInv, ReadOK
  <2>3. sections' = Append(sections, sec)
    BY <1>6, <2>2 DEF Extract, Code
  <2>4. sec.code = Code(n + 1)
    OBVIOUS
  <2> HIDE DEF sec
  <2> DEFINE S == {sections[i] : i \in 1..n} \cup {sec}
  <2>5. sections \in Seq(S) /\ sec \in S
    BY <2>1, IsASequence
  <2> HIDE DEF S
  <2>6. /\ Len(sections') = n + 1 /\ sections'[n + 1] = sec
        /\ \A i \in 1..n : sections'[i] = sections[i]
    BY <2>3, <2>5
  <2> QED
    BY <2>1, <2>4, <2>6 DEF CodesOK
<1> QED
  BY <1>2, <1>3, <1>4, <1>5, <1>6 DEF Next

(* In a script made while nobody edits a directory, each function that a     *)
(* skill offers is defined once, before the sections of the skills that need *)
(* it, and only the asked skill runs, whatever was copied from skill to      *)
(* skill: provided that no method has a function's name.                     *)
THEOREM CallsDefinedHolds == MethodsApart => (Spec => []CallsDefined)
<1> SUFFICES ASSUME MethodsApart PROVE Spec => []CallsDefined
  OBVIOUS
<1>1. Init => CodesOK /\ CallsDefined
  BY DEF Init, CodesOK, CallsDefined
<1>2. BInv /\ CodesOK /\ CallsDefined /\ [Next]_vars => CodesOK' /\ CallsDefined'
  <2> SUFFICES ASSUME BInv, CodesOK, CallsDefined, [Next]_vars PROVE CallsDefined'
    BY CodesKeep
  <2>1. CASE Bundled
    BY <2>1, BundledDefines
  <2>2. CASE UNCHANGED vars
    <3>1. \A i : Defined(i)' <=> Defined(i)
      BY <2>2 DEF vars, Defined, Offered, DefinedIn, Needed, Needs, Closed
    <3> QED
      BY <2>2, <3>1, CallsDefinedIs DEF vars
  <2>3. ASSUME NEW t \in Skills, Edited(t) PROVE CallsDefined'
    BY <2>3 DEF CallsDefined, Edited
  <2>4. CASE Collect \/ Collected \/ Sort \/ Sorted \/ Extract
    BY <2>4 DEF CallsDefined, Collect, Collected, Sort, Sorted, Extract
  <2> QED
    BY <2>1, <2>2, <2>3, <2>4 DEF Next
<1> QED
  BY BInvHolds, <1>1, <1>2, PTL DEF Spec

=============================================================================
