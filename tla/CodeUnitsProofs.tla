---------------------------- MODULE CodeUnitsProofs ----------------------------
(***************************************************************************)
(* Code units for any nesting, any number of units and jumps: the two      *)
(* passes cut the code where the units lie, and every jump they record     *)
(* goes to the unit that its place begins with.                            *)
(***************************************************************************)
EXTENDS CodeUnits, FiniteSetTheorems, TLAPS

-----------------------------------------------------------------------------
(* The code that the passes keep. *)

Ops     == {"none", "br", "br_if", "br_table", "if", "else", "end"}
Borders == Types \cup {"end", "branch"}
TargetT == [id : Nat, type : TargetTypes, depth : Nat, border : Borders]
NodeT   == [offset : Nat, size : Nat, depth : 1 .. MaxDepth, type : Types, state : States,
            targets : Seq(TargetT)]
RefT    == {r \in [kind : {"lea", "springboard"}, offset : Nat, unit : Nat, id : Nat,
                   type : TargetTypes \cup {"none"}, depth : Int, goal : Places] :
              r.kind = "springboard" => r.unit = 1}
CodeT   == [nodes : Seq(NodeT), refs : Seq(RefT), size : Nat, tail : Tails,
            last : Ops, ok : BOOLEAN]

\* Where a unit ends; the last one goes on to the end of the code so far.
UnitEnd(u, i) == IF i < Len(u.nodes) THEN u.nodes[i + 1].offset ELSE u.size

\* Units lie end to end, and all but the last have code; the last one has if
\* its tail says so.
Tiled(u) ==
  /\ Len(u.nodes) \in 1 .. MaxUnits
  /\ u.nodes[1].offset = 0
  /\ \A i \in 1 .. Len(u.nodes) - 1 :
       /\ u.nodes[i].offset < u.nodes[i + 1].offset
       /\ u.nodes[i].size = u.nodes[i + 1].offset - u.nodes[i].offset
  /\ LastNode(u).offset <= u.size
  /\ u.tail # "none" => LastNode(u).offset < u.size

\* A reference is in the code, a lea in the unit it names; no id is beyond the
\* last unit.
RefIn(u, r) ==
  /\ r.offset < u.size /\ r.id <= Len(u.nodes)
  /\ Lea(r) => /\ r.unit \in 1 .. Len(u.nodes)
               /\ u.nodes[r.unit].offset <= r.offset /\ r.offset < UnitEnd(u, r.unit)
RefsIn(u) == \A k \in DOMAIN u.refs : RefIn(u, u.refs[k])

\* The n-th lea of a unit is for its n-th target.  The targets of the last unit
\* are those of its branches; a unit that is closed may have one target more.
JumpsOf(refs, i) == {k \in DOMAIN refs : Lea(refs[k]) /\ refs[k].unit = i}
NthOf(refs, k)   == Cardinality({j \in JumpsOf(refs, refs[k].unit) : j <= k})
Count(u, i)      == Cardinality(JumpsOf(u.refs, i))

SameTarget(r, n, t) == r.id = t.id /\ r.type = t.type /\ r.depth = n.depth - t.depth
Agreed(u) ==
  /\ \A k \in DOMAIN u.refs : Lea(u.refs[k]) =>
       LET n == u.nodes[u.refs[k].unit]
           i == NthOf(u.refs, k)
       IN  i \in DOMAIN n.targets /\ SameTarget(u.refs[k], n, n.targets[i])
  /\ \A i \in DOMAIN u.nodes : \A n \in DOMAIN u.nodes[i].targets :
       /\ u.nodes[i].targets[n].id <= Len(u.nodes)
       /\ n > Count(u, i) => u.nodes[i].targets[n].border # "branch"
  /\ Count(u, Len(u.nodes)) = Len(LastNode(u).targets)
  /\ \A n \in DOMAIN LastNode(u).targets : LastNode(u).targets[n].border = "branch"

CodeOK(u) == u \in CodeT /\ Tiled(u) /\ RefsIn(u) /\ Agreed(u)

-----------------------------------------------------------------------------
(* The code and the control stack. *)

BlockT == [id : 1 .. MaxUnits, type : Types, reach : Reaches,
           endReached : BOOLEAN, inner : BOOLEAN]

\* Unit s begins block c, the i-th; the units behind it are in the block, those
\* at its depth where inner blocks have ended.
Begins(u, c, i, s) ==
  /\ s \in 1 .. Len(u.nodes) /\ c.id <= s /\ (c.type # "else" => s = c.id)
  /\ u.nodes[s].depth = i
  /\ i > 1 => u.nodes[s].state = "controlStart" /\ u.nodes[s].type = c.type
  /\ \A j \in s + 1 .. Len(u.nodes) :
       /\ u.nodes[j].depth >= i
       /\ u.nodes[j].depth = i => u.nodes[j].state = "controlEnd" /\ c.inner

Nested(u, ctl) ==
  /\ ctl \in Seq(BlockT) /\ Len(ctl) <= MaxDepth
  /\ \A i \in DOMAIN ctl : \E s \in Nat : Begins(u, ctl[i], i, s)
  /\ \A i, j \in DOMAIN ctl : i < j => ctl[i].id < ctl[j].id
  /\ ctl # << >> => LastNode(u).depth = Len(ctl)

\* Places, as far as they are bound.
PlacesOK(u, ctl, bnd) ==
  /\ DOMAIN bnd \subseteq Places
  /\ \A l \in DOMAIN bnd :
       /\ l.of <= Len(u.nodes) /\ l.part \notin {"stray", "springboard"}
       /\ bnd[l] \in 1 .. Len(u.nodes)
       /\ l.part \in {"next", "dropped", "dead"} => bnd[l] = l.of
  /\ \A i \in DOMAIN ctl :
       /\ Label(ctl[i].id, "end") \notin DOMAIN bnd
       /\ Label(ctl[i].id, "else") \in DOMAIN bnd => ctl[i].type = "else"
       /\ ctl[i].type = "loop" => /\ Label(ctl[i].id, "start") \in DOMAIN bnd
                                  /\ bnd[Label(ctl[i].id, "start")] = ctl[i].id

\* A jump whose place is bound goes there; one whose place is not bound waits
\* for a block that is still open, and names its depth.
Arrived(r, bnd) == r.goal \in DOMAIN bnd /\ r.id = bnd[r.goal]

Waits(r, ctl, bnd, types, blocks) ==
  /\ r.goal \notin DOMAIN bnd /\ r.type \in types
  /\ \E i \in 2 .. Len(ctl) : ctl[i].id = r.goal.of /\ ctl[i].type \in blocks /\ r.depth = i

Aimed(r, u, ctl, bnd) ==
  IF Lea(r)
  THEN /\ r.goal.part # "springboard"
       /\ r.goal.part \in {"next", "dropped", "dead"} =>
            /\ r.goal.of <= Len(u.nodes)
            /\ r.goal \in DOMAIN bnd => r.type = "known" /\ r.id = bnd[r.goal]
       /\ r.goal.part = "next" => r.goal \in DOMAIN bnd
       /\ r.goal.part = "start" => r.type = "loopKnown" /\ Arrived(r, bnd)
       /\ r.goal.part = "else" =>
            \/ r.type = "known" /\ Arrived(r, bnd)
            \/ Waits(r, ctl, bnd, {"ifUnknown"}, {"if"})
       /\ r.goal.part = "end" =>
            \/ r.type = "known" /\ Arrived(r, bnd)
            \/ Waits(r, ctl, bnd, {"elseUnknown", "brUnknown"}, Types)
  ELSE r.goal.part = "springboard"
AllAimed(u, ctl, bnd) == \A k \in DOMAIN u.refs : Aimed(u.refs[k], u, ctl, bnd)

\* A unit whose end is reached has its jump to the next one.
Chained(u, bnd) ==
  \A l \in DOMAIN bnd : l.part = "next" =>
    \E k \in DOMAIN u.refs : u.refs[k].goal = l /\ u.refs[k].unit = l.of - 1

\* Where execution gets to the end of the code so far, that is no jump.
NoDeadEnd(u, ctl) ==
  ctl # << >> /\ Live(ctl[Len(ctl)]) /\ u.tail = "jmp" => u.last = "br_if"

\* The last unit is closed with the function.
Closed(u) == LastNode(u).size = u.size - LastNode(u).offset /\ LastNode(u).offset < u.size

Sound(u, ctl, bnd) ==
  /\ u.ok /\ CodeOK(u) /\ Nested(u, ctl)
  /\ PlacesOK(u, ctl, bnd) /\ AllAimed(u, ctl, bnd) /\ Chained(u, bnd)

IInv ==
  /\ Sound(code, control, bound) /\ NoDeadEnd(code, control)
  /\ control = << >> => Closed(code)
  /\ entries # << >> => /\ control = << >>
                        /\ entries = [k \in DOMAIN code.refs |-> Relocated(code.refs[k])]

\* A function that is compiled has all its jumps in place.
Resolved ==
  control = << >> =>
    \A k \in DOMAIN code.refs :
      LET r == code.refs[k]
      IN  r.goal.part \in {"start", "else", "end", "next"} =>
            r.goal \in DOMAIN bound /\ r.id = bound[r.goal]

-----------------------------------------------------------------------------
(* Numbers. *)

LEMMA LeastExists ==
  ASSUME NEW S \in SUBSET Nat, S # {}
  PROVE  \E x \in S : \A y \in S : x <= y
<1> DEFINE T == {0 .. n : n \in S}
           R == StrictSubsetOrdering(Nat)
<1>1. T \subseteq FiniteSubsetsOf(Nat)
  <2> SUFFICES ASSUME NEW n \in S PROVE 0 .. n \in FiniteSubsetsOf(Nat)
    OBVIOUS
  <2> QED  BY FS_Interval DEF FiniteSubsetsOf
<1>2. PICK t \in T : \A u \in T : ~(<<u, t>> \in R)
  <2>1. T # {}  OBVIOUS
  <2>2. IsWellFoundedOn(R, FiniteSubsetsOf(Nat))  BY FS_StrictSubsetOrderingWellFounded
  <2> HIDE DEF T, R
  <2> QED  BY <1>1, <2>1, <2>2, WFMin
<1>3. PICK x \in S : t = 0 .. x  OBVIOUS
<1>4. ASSUME NEW y \in S PROVE x <= y
  <2>1. ~(<<0 .. y, 0 .. x>> \in R)  BY <1>2, <1>3
  <2>2. ~(0 .. y \subseteq 0 .. x /\ 0 .. y # 0 .. x)  BY <2>1 DEF StrictSubsetOrdering
  <2>3. CASE y < x
    <3>1. 0 .. y \subseteq 0 .. x  BY <2>3
    <3>2. x \in 0 .. x /\ x \notin 0 .. y  BY <2>3
    <3> QED  BY <3>1, <3>2, <2>2
  <2> QED  BY <2>3
<1> QED  BY <1>4

LEMMA MaxIs ==
  ASSUME NEW n \in Nat, NEW S \in SUBSET (0 .. n), S # {}
  PROVE  Max(S) \in S /\ \A y \in S : y <= Max(S)
<1>1. {n - i : i \in S} \subseteq Nat /\ {n - i : i \in S} # {}
  <2>1. \A i \in S : n - i \in Nat
    OBVIOUS
  <2> QED BY <2>1
<1>2. PICK m \in {n - i : i \in S} : \A k \in {n - i : i \in S} : m <= k
  BY <1>1, LeastExists
<1>3. PICK x \in S : m = n - x
  OBVIOUS
<1>4. \A y \in S : x >= y
  <2> TAKE y \in S
  <2>1. n - x <= n - y
    BY <1>2, <1>3
  <2>2. x \in Int /\ y \in Int
    OBVIOUS
  <2> QED BY <2>1, <2>2
<1>5. Max(S) \in S /\ \A y \in S : Max(S) >= y
  BY <1>4 DEF Max
<1>6. \A a, b \in 0 .. n : a >= b => b <= a
  OBVIOUS
<1> QED BY <1>5, <1>6

LEMMA MinIs ==
  ASSUME NEW S \in SUBSET Nat, S # {}
  PROVE  Min(S) \in S /\ \A y \in S : Min(S) <= y
BY LeastExists DEF Min

\* Induction, for a set of numbers.
LEMMA UpTo ==
  ASSUME NEW S, 0 \in S, \A n \in Nat : n \in S => n + 1 \in S
  PROVE  Nat \subseteq S
<1> SUFFICES ASSUME NEW k \in Nat \ S PROVE FALSE
  OBVIOUS
<1>1. PICK m \in Nat \ S : \A y \in Nat \ S : m <= y
  BY LeastExists
<1>2. m - 1 \in Nat /\ m - 1 + 1 = m
  <2>1. m # 0
    OBVIOUS
  <2> QED BY <2>1
<1>3. m - 1 \in S
  BY <1>1, <1>2
<1> QED BY <1>2, <1>3

-----------------------------------------------------------------------------
(* Places. *)

LEMMA LabelFields ==
  ASSUME NEW id, NEW part
  PROVE  /\ Label(id, part).of = id /\ Label(id, part).part = part
         /\ id \in 0 .. MaxUnits /\ part \in Parts => Label(id, part) \in Places
BY DEF Label, Places

LEMMA PlaceIs ==
  ASSUME NEW l \in Places
  PROVE  l = Label(l.of, l.part)
BY DEF Label, Places

BoundTo(f, f2, l, n) ==
  /\ DOMAIN f2 = DOMAIN f \cup {l} /\ f2[l] = n
  /\ \A m \in DOMAIN f : m # l => f2[m] = f[m]

LEMMA Binds ==
  ASSUME NEW f, NEW l, NEW n
  PROVE  BoundTo(f, Bind(f, l, n), l, n)
BY DEF Bind, BoundTo

-----------------------------------------------------------------------------
(* Parts of the code. *)

LEMMA CodeParts ==
  ASSUME NEW u \in CodeT
  PROVE  /\ u.nodes \in Seq(NodeT) /\ u.refs \in Seq(RefT) /\ u.size \in Nat
         /\ u.tail \in Tails /\ u.last \in Ops /\ u.ok \in BOOLEAN
         /\ Len(u.nodes) \in Nat /\ DOMAIN u.nodes = 1 .. Len(u.nodes)
         /\ Len(u.refs) \in Nat /\ DOMAIN u.refs = 1 .. Len(u.refs)
         /\ \A i \in 1 .. Len(u.nodes) : u.nodes[i] \in NodeT
         /\ \A k \in 1 .. Len(u.refs) : u.refs[k] \in RefT
BY DEF CodeT

LEMMA NodeParts ==
  ASSUME NEW n \in NodeT
  PROVE  /\ n.offset \in Nat /\ n.size \in Nat /\ n.depth \in 1 .. MaxDepth /\ n.depth \in Nat
         /\ n.type \in Types /\ n.state \in States /\ n.targets \in Seq(TargetT)
         /\ Len(n.targets) \in Nat /\ DOMAIN n.targets = 1 .. Len(n.targets)
         /\ \A i \in 1 .. Len(n.targets) : n.targets[i] \in TargetT
BY CodeUnitsAssumption DEF NodeT

LEMMA WithNodes ==
  ASSUME NEW u \in CodeT, NEW ns \in Seq(NodeT)
  PROVE  LET w == [u EXCEPT !.nodes = ns]
         IN  /\ w \in CodeT /\ w.nodes = ns /\ w.refs = u.refs /\ w.size = u.size
             /\ w.tail = u.tail /\ w.last = u.last /\ w.ok = u.ok
BY DEF CodeT

LEMMA EmitFields ==
  ASSUME NEW u \in CodeT, NEW tail \in Tails
  PROVE  LET w == Emit(u, tail)
         IN  /\ w \in CodeT /\ w.nodes = u.nodes /\ w.refs = u.refs /\ w.size = u.size + 1
             /\ w.tail = tail /\ w.last = u.last /\ w.ok = u.ok
<1>1. PICK n \in Nat : n = u.size + 1
  BY CodeParts
<1>2. Emit(u, tail) = [u EXCEPT !.size = n, !.tail = tail]
  BY <1>1 DEF Emit
<1> QED BY <1>1, <1>2 DEF CodeT

\* The last of these units has one target more.
LastGets(ns, ns2, t) ==
  /\ Len(ns2) = Len(ns)
  /\ \A i \in 1 .. Len(ns) - 1 : ns2[i] = ns[i]
  /\ ns2[Len(ns)] = [ns[Len(ns)] EXCEPT !.targets = Append(ns[Len(ns)].targets, t)]

TargetAdded(u, w, t) ==
  /\ w \in CodeT /\ LastGets(u.nodes, w.nodes, t) /\ w.refs = u.refs /\ w.size = u.size
  /\ w.tail = u.tail /\ w.last = u.last /\ w.ok = u.ok

LEMMA AddTargetFields ==
  ASSUME NEW u \in CodeT, NEW t \in TargetT, Len(u.nodes) \in Nat \ {0}
  PROVE  TargetAdded(u, AddTarget(u, t), t)
<1>0. PICK n \in Nat \ {0} : n = Len(u.nodes)
  OBVIOUS
<1> DEFINE m  == [u.nodes[n] EXCEPT !.targets = Append(u.nodes[n].targets, t)]
           ns == [u.nodes EXCEPT ![n] = m]
<1>1. u.nodes \in Seq(NodeT) /\ n \in DOMAIN u.nodes /\ u.nodes[n] \in NodeT
  BY <1>0, CodeParts
<1>2. m \in NodeT
  <2>1. Append(u.nodes[n].targets, t) \in Seq(TargetT)
    BY <1>1, NodeParts
  <2> QED BY <1>1, <2>1 DEF NodeT
<1>3. ns \in Seq(NodeT) /\ Len(ns) = n /\ ns[n] = m /\ \A i \in 1 .. n - 1 : ns[i] = u.nodes[i]
  <2> HIDE DEF m
  <2> QED BY <1>0, <1>1, <1>2
<1>4. AddTarget(u, t) = [u EXCEPT !.nodes = ns]
  BY <1>0 DEF AddTarget
<1>5. LastGets(u.nodes, ns, t)
  <2> HIDE DEF ns
  <2> QED BY <1>0, <1>3 DEF LastGets
<1> HIDE DEF ns
<1> QED BY <1>3, <1>4, <1>5, WithNodes DEF TargetAdded

-----------------------------------------------------------------------------
(* A branch back to a loop. *)

LEMMA BranchBack ==
  ASSUME NEW u \in CodeT, Tiled(u), NEW ctl, Nested(u, ctl), NEW k \in 0 .. Len(ctl) - 2
  PROVE  LET c == ctl[Len(ctl) - k]
             b == NewTarget(0, "brUnknown", k, "branch")
             t == UpdateBranch(u, b)
         IN  /\ UpdateBranchOK(u, b) /\ t \in TargetT
             /\ t.depth = k /\ t.border = "branch" /\ t.id \in 0 .. Len(u.nodes)
             /\ t.type \in {"brUnknown", "loopKnown"}
             /\ c.type # "loop" => t.type = "brUnknown"
             /\ c.type = "loop" /\ ~(k > 0 /\ c.inner) => t.type = "loopKnown" /\ t.id = c.id
<1> DEFINE n  == Len(u.nodes)
           b  == NewTarget(0, "brUnknown", k, "branch")
           At == {j \in DOMAIN u.nodes : u.nodes[j].depth = LastNode(u).depth - b.depth}
           latest   == Max(At)
           StartsAt == {j \in At : j < latest /\ u.nodes[j].state = "controlStart"}
           inLoop   == /\ b.depth = 0
                       /\ u.nodes[latest].state = "controlEnd"
                       /\ u.nodes[Max(StartsAt)].type = "loop"
           found    == IF inLoop THEN Max(StartsAt) ELSE latest
           IsLoop(j) == u.nodes[j].type = "loop" /\ u.nodes[j].state = "controlStart"
           t  == UpdateBranch(u, b)
<1>1. t = IF IsLoop(found) THEN [b EXCEPT !.id = found, !.type = "loopKnown"] ELSE b
  BY DEF UpdateBranch
<1>2. UpdateBranchOK(u, b) <=>
        (At # {} /\ (b.depth = 0 /\ u.nodes[latest].state = "controlEnd" => StartsAt # {}))
  BY DEF UpdateBranchOK
<1>3. /\ Len(ctl) \in Nat /\ k \in Nat /\ ctl # << >> /\ LastNode(u).depth = Len(ctl)
      /\ n \in Nat /\ DOMAIN u.nodes = 1 .. n
  <2>1. ctl \in Seq(BlockT)
    BY DEF Nested
  <2>2. Len(ctl) \in Nat /\ k \in Nat /\ Len(ctl) # 0
    BY <2>1
  <2>3. ctl # << >>
    BY <2>2
  <2> QED BY <2>2, <2>3, CodeParts DEF Nested
<1>4. b.depth = k /\ b.id = 0 /\ b.type = "brUnknown" /\ b.border = "branch"
  BY DEF NewTarget
<1>5. PICK i \in 2 .. Len(ctl) : i = Len(ctl) - k
  <2>1. PICK d \in Nat : d = Len(ctl)
    BY <1>3
  <2>2. k \in 0 .. d - 2
    BY <2>1
  <2>3. d - k \in 2 .. d
    BY <2>2
  <2> QED BY <2>1, <2>3
<1>6. i \in DOMAIN ctl
  BY <1>5 DEF Nested
<1>7. PICK s \in Nat : Begins(u, ctl[i], i, s)
  BY <1>6 DEF Nested
<1>8. At = {j \in 1 .. n : u.nodes[j].depth = i}
  BY <1>3, <1>4, <1>5
<1>9. /\ s \in At /\ u.nodes[s].state = "controlStart" /\ u.nodes[s].type = ctl[i].type
      /\ \A j \in At : j > s => u.nodes[j].state = "controlEnd" /\ ctl[i].inner
      /\ ctl[i].type # "else" => s = ctl[i].id
  <2>1. /\ s \in 1 .. n /\ u.nodes[s].depth = i /\ i > 1
        /\ ctl[i].type # "else" => s = ctl[i].id
    BY <1>5, <1>7 DEF Begins
  <2>2. u.nodes[s].state = "controlStart" /\ u.nodes[s].type = ctl[i].type
    BY <1>7, <2>1 DEF Begins
  <2>3. \A j \in At : j > s => u.nodes[j].state = "controlEnd" /\ ctl[i].inner
    <3>1. \A j \in 1 .. n : j > s => j \in s + 1 .. n
      BY <1>3
    <3> QED BY <1>7, <1>8, <3>1 DEF Begins
  <2> QED BY <1>8, <2>1, <2>2, <2>3
<1>10. PICK lt \in 1 .. n : /\ lt = latest /\ lt \in At /\ \A j \in At : j <= lt
  <2>1. At \in SUBSET (0 .. n) /\ At # {} /\ At \subseteq 1 .. n
    BY <1>3, <1>8, <1>9
  <2> HIDE DEF At
  <2> QED BY <1>3, <2>1, MaxIs
<1>11. lt # s => lt > s /\ u.nodes[lt].state = "controlEnd" /\ ctl[i].inner
  <2>1. s <= lt /\ lt \in At
    BY <1>9, <1>10
  <2> HIDE DEF At
  <2>2. lt # s => lt > s
    BY <2>1
  <2> QED BY <1>9, <2>1, <2>2
<1>12. ASSUME lt # s PROVE StartsAt # {} /\ Max(StartsAt) = s
  <2>1. s \in StartsAt
    BY <1>9, <1>10, <1>11, <1>12
  <2>2. StartsAt \in SUBSET (0 .. n) /\ (\A j \in StartsAt : j \in Nat /\ ~(j > s))
    BY <1>8, <1>9
  <2> HIDE DEF StartsAt, At, latest
  <2>3. Max(StartsAt) \in StartsAt /\ s <= Max(StartsAt)
    BY <1>3, <2>1, <2>2, MaxIs
  <2>4. PICK m \in Nat : m = Max(StartsAt)
    BY <2>2, <2>3
  <2>5. s <= m /\ ~(m > s)
    BY <2>2, <2>3, <2>4
  <2>6. m = s
    BY <2>5
  <2> QED BY <2>1, <2>4, <2>6
<1>13. UpdateBranchOK(u, b)
  BY <1>2, <1>4, <1>9, <1>10, <1>11, <1>12
<1>14. PICK f \in 1 .. n : f = found /\ (f = s \/ f = lt) /\ (k = 0 /\ ctl[i].type = "loop" => f = s)
  <2>1. s \in 1 .. n
    BY <1>8, <1>9
  <2>2. inLoop => lt # s /\ Max(StartsAt) = s
    BY <1>9, <1>10, <1>12
  <2>3. lt # s /\ k = 0 /\ ctl[i].type = "loop" => inLoop
    BY <1>4, <1>9, <1>10, <1>11, <1>12
  <2> HIDE DEF inLoop, latest, StartsAt
  <2> QED BY <1>10, <2>1, <2>2, <2>3
<1>15. t = IF IsLoop(f) THEN [b EXCEPT !.id = f, !.type = "loopKnown"] ELSE b
  BY <1>1, <1>14
<1>16. ctl[i].type # "loop" => ~IsLoop(f)
  BY <1>9, <1>11, <1>14
<1>17. ctl[i].type = "loop" /\ ~(k > 0 /\ ctl[i].inner) => IsLoop(f) /\ f = ctl[i].id
  <2> SUFFICES ASSUME ctl[i].type = "loop", ~(k > 0 /\ ctl[i].inner)
               PROVE  IsLoop(f) /\ f = ctl[i].id
    OBVIOUS
  <2>1. k = 0 \/ k > 0
    BY <1>3
  <2>2. f = s
    BY <1>11, <1>14, <2>1
  <2>3. s = ctl[i].id
    BY <1>9
  <2> QED BY <1>9, <2>2, <2>3
<1> HIDE DEF found, IsLoop, At, latest, StartsAt, inLoop
<1>18. b = [id |-> 0, type |-> "brUnknown", depth |-> k, border |-> "branch"]
  BY DEF NewTarget
<1> HIDE DEF b, t
<1>19. CASE IsLoop(f)
  <2>1. t = [id |-> f, type |-> "loopKnown", depth |-> k, border |-> "branch"]
    BY <1>15, <1>18, <1>19
  <2>2. t \in TargetT
    BY <1>3, <2>1 DEF TargetT, TargetTypes, Borders
  <2>3. t.depth = k /\ t.border = "branch" /\ t.id = f /\ t.type = "loopKnown"
    BY <2>1
  <2>4. t.id \in 0 .. n
    BY <1>3, <2>3
  <2> QED BY <1>5, <1>13, <1>16, <1>17, <1>19, <2>2, <2>3, <2>4 DEF b, t
<1>20. CASE ~IsLoop(f)
  <2>1. t = b
    BY <1>15, <1>20
  <2>2. t \in TargetT
    BY <1>3, <1>18, <2>1 DEF TargetT, TargetTypes, Unknown, Borders
  <2>3. t.depth = k /\ t.border = "branch" /\ t.id = 0 /\ t.type = "brUnknown"
    BY <1>18, <2>1
  <2>4. t.id \in 0 .. n
    BY <1>3, <2>3
  <2> QED BY <1>5, <1>13, <1>16, <1>17, <1>20, <2>2, <2>3, <2>4 DEF b, t
<1> QED BY <1>19, <1>20

-----------------------------------------------------------------------------
(* References that are added. *)

\* A jump adds its lea and perhaps the jump to the springboard.
Grown(refs, refs2, lea) ==
  /\ Len(refs2) \in {Len(refs) + 1, Len(refs) + 2}
  /\ \A k \in 1 .. Len(refs) : refs2[k] = refs[k]
  /\ refs2[Len(refs) + 1] = lea
  /\ \A k \in 1 .. Len(refs2) :
       k > Len(refs) + 1 => refs2[k] = SpringboardNext(lea.offset + 1)

LEMMA SpringboardFields ==
  ASSUME NEW o \in Nat
  PROVE  LET s == SpringboardNext(o)
         IN  /\ s \in RefT /\ ~Lea(s) /\ s.offset = o /\ s.id = 0
             /\ s.goal.part = "springboard" /\ s.type = "none"
<1>1. MaxUnits \in Nat \ {0}
  BY CodeUnitsAssumption
<1>2. [of |-> 0, part |-> "springboard"] \in Places
  BY <1>1 DEF Places, Parts
<1> QED BY <1>2 DEF SpringboardNext, RefT, Lea

LEMMA LeaFields ==
  ASSUME NEW u \in CodeT, NEW i \in DOMAIN u.nodes, NEW t \in TargetT, NEW o \in Nat,
         NEW goal \in Places
  PROVE  LET lea == LeaNext(u, i, t, o, goal)
         IN  /\ lea \in RefT /\ Lea(lea) /\ lea.offset = o /\ lea.unit = i /\ lea.id = t.id
             /\ lea.type = t.type /\ lea.depth = u.nodes[i].depth - t.depth /\ lea.goal = goal
<1>1. i \in Nat /\ u.nodes[i].depth \in Nat
  BY CodeParts, NodeParts
<1>2. t.id \in Nat /\ t.type \in TargetTypes /\ t.depth \in Nat
  BY DEF TargetT
<1>3. PICK d \in Int : d = u.nodes[i].depth - t.depth
  BY <1>1, <1>2
<1>4. LeaNext(u, i, t, o, goal) = [kind |-> "lea", offset |-> o, unit |-> i, id |-> t.id,
                                   type |-> t.type, depth |-> d, goal |-> goal]
  BY <1>3 DEF LeaNext
<1> QED BY <1>1, <1>2, <1>3, <1>4 DEF RefT, Lea

JumpAdded(u, w, lea) ==
  /\ w \in CodeT /\ w.nodes = u.nodes /\ w.tail = u.tail /\ w.last = u.last
  /\ w.ok = u.ok /\ Grown(u.refs, w.refs, lea)
  /\ w.size = lea.offset + (Len(w.refs) - Len(u.refs))

LEMMA JumpFields ==
  ASSUME NEW u \in CodeT, NEW i \in DOMAIN u.nodes, NEW t \in TargetT, NEW split \in BOOLEAN,
         NEW o \in Nat, NEW goal \in Places
  PROVE  JumpAdded(u, Jump(u, i, t, split, o, goal), LeaNext(u, i, t, o, goal))
<1> DEFINE lea == LeaNext(u, i, t, o, goal)
           spr == SpringboardNext(o + 1)
           w   == Jump(u, i, t, split, o, goal)
<1>0. PICK m \in Nat : m = Len(u.refs)
  BY CodeParts
<1>1. lea \in RefT /\ lea.offset = o
  BY LeaFields
<1>2. spr \in RefT
  BY SpringboardFields
<1>3. u.refs \in Seq(RefT)
  BY CodeParts
<1>4. CASE split
  <2> DEFINE rs == u.refs \o <<lea, spr>>
  <2>0. PICK e \in Nat : e = o + 2
    OBVIOUS
  <2>1. w = [u EXCEPT !.refs = rs, !.size = e]
    BY <1>4, <2>0 DEF Jump
  <2> HIDE DEF lea, spr
  <2>2. /\ rs \in Seq(RefT) /\ Len(rs) = m + 2 /\ (\A k \in 1 .. m : rs[k] = u.refs[k])
        /\ rs[m + 1] = lea /\ rs[m + 2] = spr
    BY <1>0, <1>1, <1>2, <1>3
  <2> HIDE DEF rs, w
  <2>3. /\ w \in CodeT /\ w.nodes = u.nodes /\ w.tail = u.tail /\ w.last = u.last
        /\ w.ok = u.ok /\ w.refs = rs /\ w.size = e
    BY <2>1, <2>2 DEF CodeT
  <2>4. Grown(u.refs, rs, lea)
    <3>1. \A k \in 1 .. Len(rs) : k > m + 1 => k = m + 2
      BY <2>2
    <3> QED BY <1>1, <2>2, <3>1, <1>0 DEF Grown, spr
  <2>5. w.size = o + (Len(w.refs) - m)
    <3>1. Len(w.refs) - m = 2
      BY <2>2, <2>3
    <3> QED BY <2>0, <2>3, <3>1
  <2> QED BY <1>0, <1>1, <2>3, <2>4, <2>5 DEF JumpAdded, w, lea
<1>5. CASE ~split
  <2> DEFINE rs == Append(u.refs, lea)
  <2>0. PICK e \in Nat : e = o + 1
    OBVIOUS
  <2>1. w = [u EXCEPT !.refs = rs, !.size = e]
    BY <1>5, <2>0 DEF Jump
  <2> HIDE DEF lea, spr
  <2>2. /\ rs \in Seq(RefT) /\ Len(rs) = m + 1 /\ (\A k \in 1 .. m : rs[k] = u.refs[k])
        /\ rs[m + 1] = lea
    BY <1>0, <1>1, <1>2, <1>3
  <2> HIDE DEF rs, w
  <2>3. /\ w \in CodeT /\ w.nodes = u.nodes /\ w.tail = u.tail /\ w.last = u.last
        /\ w.ok = u.ok /\ w.refs = rs /\ w.size = e
    BY <2>1, <2>2 DEF CodeT
  <2>4. Grown(u.refs, rs, lea)
    <3>1. \A k \in 1 .. Len(rs) : ~(k > m + 1)
      BY <2>2
    <3> QED BY <1>1, <2>2, <3>1, <1>0 DEF Grown
  <2>5. w.size = o + (Len(w.refs) - m)
    <3>1. Len(w.refs) - m = 1
      BY <2>2, <2>3
    <3> QED BY <2>0, <2>3, <3>1
  <2> QED BY <1>0, <1>1, <2>3, <2>4, <2>5 DEF JumpAdded, w, lea
<1> QED BY <1>4, <1>5

\* The n-th jump of a unit stays the n-th, and the new one comes last.
LEMMA GrownCounts ==
  ASSUME NEW refs \in Seq(RefT), NEW refs2 \in Seq(RefT), NEW lea \in RefT, Lea(lea),
         Grown(refs, refs2, lea)
  PROVE  /\ \A k \in 1 .. Len(refs) : Lea(refs[k]) => NthOf(refs2, k) = NthOf(refs, k)
         /\ NthOf(refs2, Len(refs) + 1) = Cardinality(JumpsOf(refs, lea.unit)) + 1
         /\ Cardinality(JumpsOf(refs2, lea.unit)) = Cardinality(JumpsOf(refs, lea.unit)) + 1
         /\ \A i : i # lea.unit => JumpsOf(refs2, i) = JumpsOf(refs, i)
         /\ \A k \in 1 .. Len(refs2) : Lea(refs2[k]) => k <= Len(refs) + 1
         /\ \A i : Cardinality(JumpsOf(refs, i)) \in Nat
<1>a. PICK m \in Nat : m = Len(refs)
  OBVIOUS
<1>b. PICK m2 \in {m + 1, m + 2} : m2 = Len(refs2)
  BY <1>a DEF Grown
<1>1. /\ m \in Int /\ 1 \in Int /\ DOMAIN refs = 1 .. m /\ DOMAIN refs2 = 1 .. m2
      /\ (\A k \in 1 .. m : refs2[k] = refs[k])
      /\ refs2[m + 1] = lea
  BY <1>a, <1>b DEF Grown
<1>2. \A k \in 1 .. m2 : k > m + 1 => ~Lea(refs2[k])
  <2>1. lea.offset + 1 \in Nat
    BY DEF RefT
  <2> QED BY <1>a, <1>b, <2>1, SpringboardFields DEF Grown
<1>3. \A i : JumpsOf(refs2, i) = JumpsOf(refs, i) \cup (IF i = lea.unit THEN {m + 1} ELSE {})
  <2> TAKE i
  <2>1. \A k \in 1 .. m + 1 : k \in 1 .. m2
    BY <1>1
  <2>2. \A k \in 1 .. m2 : k \in 1 .. m \/ k = m + 1 \/ k > m + 1
    BY <1>1
  <2>3. ASSUME NEW k \in JumpsOf(refs2, i)
        PROVE  k \in JumpsOf(refs, i) \cup (IF i = lea.unit THEN {m + 1} ELSE {})
    <3>1. k \in 1 .. m2 /\ Lea(refs2[k]) /\ refs2[k].unit = i
      BY <1>1, <2>3 DEF JumpsOf
    <3> QED BY <1>1, <1>2, <2>2, <3>1 DEF JumpsOf
  <2>4. \A k \in JumpsOf(refs, i) : k \in JumpsOf(refs2, i)
    <3>1. 1 .. m \subseteq 1 .. m + 1
      BY <1>1
    <3> QED BY <1>1, <2>1, <3>1 DEF JumpsOf
  <2>5. i = lea.unit => m + 1 \in JumpsOf(refs2, i)
    <3>1. m + 1 \in 1 .. m + 1
      BY <1>1
    <3> QED BY <1>1, <2>1, <3>1 DEF JumpsOf
  <2> QED BY <2>3, <2>4, <2>5
<1>4. \A i : JumpsOf(refs, i) \subseteq 1 .. m
  BY <1>1 DEF JumpsOf
<1>5. IsFiniteSet(1 .. m)
  BY <1>1, FS_Interval
<1>6. \A i : IsFiniteSet(JumpsOf(refs, i)) /\ Cardinality(JumpsOf(refs, i)) \in Nat
  BY <1>4, <1>5, FS_Subset, FS_CardinalityType
<1>7. m + 1 \notin 1 .. m /\ \A k \in 1 .. m : k <= m + 1 /\ ~(m + 1 <= k)
  BY <1>1
<1>8. Cardinality(JumpsOf(refs2, lea.unit)) = Cardinality(JumpsOf(refs, lea.unit)) + 1
  <2>1. m + 1 \notin JumpsOf(refs, lea.unit)
    BY <1>4, <1>7
  <2>2. JumpsOf(refs2, lea.unit) = JumpsOf(refs, lea.unit) \cup {m + 1}
    BY <1>3
  <2> QED BY <1>6, <2>1, <2>2, FS_AddElement
<1>9. NthOf(refs2, m + 1) = Cardinality(JumpsOf(refs2, lea.unit))
  <2>1. {j \in JumpsOf(refs2, lea.unit) : j <= m + 1} = JumpsOf(refs2, lea.unit)
    <3>1. \A j \in JumpsOf(refs2, lea.unit) : j <= m + 1
      BY <1>1, <1>3, <1>4, <1>7
    <3> QED BY <3>1
  <2> QED BY <1>1, <2>1 DEF NthOf
<1>10. ASSUME NEW k \in 1 .. m, Lea(refs[k]) PROVE NthOf(refs2, k) = NthOf(refs, k)
  <2>1. {j \in JumpsOf(refs2, refs[k].unit) : j <= k} = {j \in JumpsOf(refs, refs[k].unit) : j <= k}
    BY <1>3, <1>7
  <2> QED BY <1>1, <2>1 DEF NthOf
<1>11. \A k \in 1 .. m2 : Lea(refs2[k]) => k <= m + 1
  <2>1. \A k \in 1 .. m2 : k <= m + 1 \/ k > m + 1
    BY <1>1
  <2> QED BY <1>2, <2>1
<1> QED BY <1>a, <1>b, <1>3, <1>6, <1>8, <1>9, <1>10, <1>11

\* Patching a reference leaves its kind and its unit.
LEMMA PatchedCounts ==
  ASSUME NEW refs \in Seq(RefT), NEW refs2 \in Seq(RefT), Len(refs) = Len(refs2),
         \A k \in 1 .. Len(refs) : refs2[k].kind = refs[k].kind /\ refs2[k].unit = refs[k].unit
  PROVE  /\ \A i : JumpsOf(refs2, i) = JumpsOf(refs, i)
         /\ \A k \in 1 .. Len(refs) : NthOf(refs2, k) = NthOf(refs, k)
<1>1. DOMAIN refs = 1 .. Len(refs) /\ DOMAIN refs2 = 1 .. Len(refs)
  OBVIOUS
<1>2. \A i : JumpsOf(refs2, i) = JumpsOf(refs, i)
  BY <1>1 DEF JumpsOf, Lea
<1> QED BY <1>1, <1>2 DEF NthOf

-----------------------------------------------------------------------------
(* A jump that is emitted. *)

\* The target that the control-flow pass notes for it.
NotedTarget(u, op, k, t) ==
  LET b == NewTarget(0, UnknownFor(op), k, "branch")
  IN  IF b.type = "brUnknown" THEN UpdateBranchOK(u, b) /\ t = UpdateBranch(u, b) ELSE t = b

Branched(u, w, t, goal) ==
  /\ w \in CodeT /\ LastGets(u.nodes, w.nodes, t)
  /\ Grown(u.refs, w.refs, LeaNext(u, Len(u.nodes), t, u.size, goal))
  /\ w.size = u.size + (Len(w.refs) - Len(u.refs)) /\ w.ok

LEMMA BranchFields ==
  ASSUME NEW u \in CodeT, u.ok, Len(u.nodes) \in Nat \ {0}, NEW k \in Nat,
         NEW op \in Ops, NEW tail \in Tails, NEW goal \in Places,
         NEW t \in TargetT, NotedTarget(u, op, k, t)
  PROVE  LET w == Branch(u, op, tail, k, goal)
         IN  Branched(u, w, t, goal) /\ w.tail = tail /\ w.last = op
<1>0. PICK n \in Nat \ {0} : n = Len(u.nodes)
  OBVIOUS
<1> DEFINE e == Emit(u, tail)
           b == NewTarget(0, UnknownFor(op), k, "branch")
           x == AddTarget(e, t)
           v == [x EXCEPT !.last = op, !.ok = TRUE]
           w == Branch(u, op, tail, k, goal)
<1>1. /\ e \in CodeT /\ e.nodes = u.nodes /\ e.refs = u.refs /\ e.size = u.size + 1
      /\ e.tail = tail /\ e.last = u.last /\ e.ok = u.ok
  BY EmitFields
<1>2. UpdateBranchOK(e, b) = UpdateBranchOK(u, b) /\ UpdateBranch(e, b) = UpdateBranch(u, b)
  <2>1. LastNode(e) = LastNode(u)
    BY <1>1 DEF LastNode
  <2> QED BY <1>1, <2>1 DEF UpdateBranchOK, UpdateBranch
<1> HIDE DEF e
<1>3. /\ x \in CodeT /\ LastGets(u.nodes, x.nodes, t)
      /\ x.refs = u.refs /\ x.size = u.size + 1 /\ x.tail = tail /\ x.ok
  <2>1. TargetAdded(e, x, t)
    BY <1>0, <1>1, AddTargetFields
  <2> HIDE DEF x, b
  <2> QED BY <1>1, <2>1 DEF TargetAdded
<1>4. BranchEnd(e, op, k) = v
  <2>1. b.type = UnknownFor(op)
    BY DEF NewTarget
  <2>2. CASE b.type = "brUnknown"
    <3>1. UpdateBranchOK(u, b) /\ t = UpdateBranch(u, b)
      BY <2>2 DEF NotedTarget
    <3> HIDE DEF b
    <3>2. BranchEnd(e, op, k) = [AddTarget(e, t) EXCEPT !.last = op, !.ok = x.ok]
      BY <1>2, <1>3, <2>2, <3>1 DEF BranchEnd, b
    <3> QED BY <1>3, <3>2
  <2>3. CASE b.type # "brUnknown"
    <3>1. t = b
      BY <2>3 DEF NotedTarget
    <3> HIDE DEF b
    <3>2. BranchEnd(e, op, k) = [AddTarget(e, t) EXCEPT !.last = op, !.ok = x.ok]
      BY <1>2, <1>3, <2>3, <3>1 DEF BranchEnd, b
    <3> QED BY <1>3, <3>2
  <2> QED BY <2>2, <2>3
<1> HIDE DEF x
<1>5. /\ v \in CodeT /\ v.nodes = x.nodes /\ v.refs = u.refs /\ v.size = u.size + 1
      /\ v.tail = tail /\ v.last = op /\ v.ok
  BY <1>3 DEF CodeT
<1> HIDE DEF v
<1>6. w = BranchJump(v, goal)
  BY <1>4, <1>5 DEF Branch, e
<1>7. /\ n \in DOMAIN v.nodes /\ LastNode(v) = v.nodes[n] /\ u.nodes[n] \in NodeT
      /\ n \in DOMAIN u.nodes
  <2>1. Len(v.nodes) = n
    BY <1>0, <1>3, <1>5 DEF LastGets
  <2> QED BY <1>0, <1>5, <2>1, CodeParts DEF LastNode
<1>8. /\ v.nodes[n].targets = Append(u.nodes[n].targets, t) /\ v.nodes[n].depth = u.nodes[n].depth
      /\ v.nodes[n].type = u.nodes[n].type
  BY <1>0, <1>3, <1>5, <1>7 DEF NodeT, LastGets
<1>9. v.nodes[n].targets[Len(v.nodes[n].targets)] = t
  BY <1>7, <1>8, NodeParts
<1>10. v.size - 1 = u.size /\ u.size \in Nat
  BY <1>5, CodeParts
<1>11. PICK split \in BOOLEAN : w = Jump(v, n, t, split, u.size, goal)
  <2>1. Len(v.nodes) = n
    BY <1>0, <1>3, <1>5 DEF LastGets
  <2> QED BY <1>6, <1>7, <1>9, <1>10, <2>1 DEF BranchJump
<1>12. LeaNext(v, n, t, u.size, goal) = LeaNext(u, n, t, u.size, goal)
  BY <1>8 DEF LeaNext
<1> HIDE DEF w
<1>13. JumpAdded(v, w, LeaNext(v, n, t, u.size, goal))
  <2> HIDE DEF b
  <2> QED BY <1>5, <1>7, <1>10, <1>11, JumpFields
<1>14. LeaNext(v, n, t, u.size, goal).offset = u.size
  BY DEF LeaNext
<1> QED BY <1>0, <1>3, <1>5, <1>12, <1>13, <1>14 DEF w, Branched, JumpAdded

\* The code stays in order: the new lea lies in the last unit, and is for its
\* new target.
LEMMA BranchCodeOK ==
  ASSUME NEW u, CodeOK(u), u.ok, NEW k \in Nat, NEW op \in Ops, NEW tail \in Tails \ {"none"},
         NEW goal \in Places, NEW t \in TargetT, t.border = "branch", t.id <= Len(u.nodes),
         NotedTarget(u, op, k, t)
  PROVE  CodeOK(Branch(u, op, tail, k, goal))
<1> DEFINE w == Branch(u, op, tail, k, goal)
<1>1. PICK n \in Nat \ {0} : n = Len(u.nodes)
  BY DEF CodeOK, Tiled
<1>2. u \in CodeT /\ Tiled(u) /\ RefsIn(u) /\ Agreed(u)
  BY DEF CodeOK
<1> DEFINE lea == LeaNext(u, n, t, u.size, goal)
<1>3. /\ w \in CodeT /\ Len(w.nodes) = n /\ (\A i \in 1 .. n - 1 : w.nodes[i] = u.nodes[i])
      /\ w.nodes[n] = [u.nodes[n] EXCEPT !.targets = Append(u.nodes[n].targets, t)]
      /\ Grown(u.refs, w.refs, lea) /\ w.size = u.size + (Len(w.refs) - Len(u.refs))
      /\ w.tail = tail
  <2>1. Branched(u, w, t, goal) /\ w.tail = tail
    BY <1>1, <1>2, BranchFields
  <2> HIDE DEF w
  <2> QED BY <1>1, <2>1 DEF Branched, LastGets
<1> HIDE DEF w
<1>4. /\ u.nodes[n] \in NodeT /\ n \in DOMAIN u.nodes /\ n \in DOMAIN w.nodes
      /\ DOMAIN u.nodes = 1 .. n /\ DOMAIN w.nodes = 1 .. n
  BY <1>1, <1>2, <1>3, CodeParts
<1>5. /\ w.nodes[n].targets = Append(u.nodes[n].targets, t)
      /\ w.nodes[n].depth = u.nodes[n].depth /\ w.nodes[n].offset = u.nodes[n].offset
      /\ w.nodes[n].size = u.nodes[n].size
  <2> DEFINE a  == u.nodes[n]
             ts == Append(u.nodes[n].targets, t)
  <2>1. a \in NodeT /\ w.nodes[n] = [a EXCEPT !.targets = ts]
    BY <1>3, <1>4
  <2> HIDE DEF a, ts
  <2>2. /\ w.nodes[n].targets = ts /\ w.nodes[n].depth = a.depth
        /\ w.nodes[n].offset = a.offset /\ w.nodes[n].size = a.size
    BY <2>1 DEF NodeT
  <2> QED BY <2>2 DEF a, ts
<1>6. \A i \in 1 .. n : /\ w.nodes[i].offset = u.nodes[i].offset /\ w.nodes[i].depth = u.nodes[i].depth
                        /\ w.nodes[i].size = u.nodes[i].size
  <2>1. \A i \in 1 .. n : i = n \/ i \in 1 .. n - 1
    OBVIOUS
  <2> QED BY <1>3, <1>5, <2>1
<1>7. PICK m \in Nat : m = Len(u.refs)
  BY <1>2, CodeParts
<1>8. PICK m2 \in {m + 1, m + 2} : m2 = Len(w.refs)
  BY <1>3, <1>7 DEF Grown
<1>9. /\ u.refs \in Seq(RefT) /\ w.refs \in Seq(RefT) /\ DOMAIN u.refs = 1 .. m
      /\ DOMAIN w.refs = 1 .. m2 /\ u.size \in Nat /\ w.size \in Nat
      /\ w.size = u.size + (m2 - m)
  BY <1>2, <1>3, <1>7, <1>8, CodeParts
<1>10. /\ lea \in RefT /\ Lea(lea) /\ lea.offset = u.size /\ lea.unit = n /\ lea.id = t.id
       /\ lea.type = t.type /\ lea.depth = u.nodes[n].depth - t.depth
  BY <1>2, <1>4, <1>9, LeaFields
<1> HIDE DEF lea
<1>11. /\ \A k1 \in 1 .. m : Lea(u.refs[k1]) => NthOf(w.refs, k1) = NthOf(u.refs, k1)
       /\ NthOf(w.refs, m + 1) = Count(u, n) + 1
       /\ Count(w, n) = Count(u, n) + 1
       /\ \A i : i # n => Count(w, i) = Count(u, i)
       /\ \A k1 \in 1 .. m2 : Lea(w.refs[k1]) => k1 <= m + 1
  <2>1. /\ \A k1 \in 1 .. Len(u.refs) : Lea(u.refs[k1]) => NthOf(w.refs, k1) = NthOf(u.refs, k1)
        /\ NthOf(w.refs, Len(u.refs) + 1) = Cardinality(JumpsOf(u.refs, lea.unit)) + 1
        /\ Cardinality(JumpsOf(w.refs, lea.unit)) = Cardinality(JumpsOf(u.refs, lea.unit)) + 1
        /\ \A i : i # lea.unit => JumpsOf(w.refs, i) = JumpsOf(u.refs, i)
        /\ \A k1 \in 1 .. Len(w.refs) : Lea(w.refs[k1]) => k1 <= Len(u.refs) + 1
    <3>1. /\ u.refs \in Seq(RefT) /\ w.refs \in Seq(RefT) /\ lea \in RefT /\ Lea(lea)
          /\ Grown(u.refs, w.refs, lea)
      BY <1>3, <1>9, <1>10
    <3> QED BY <3>1, GrownCounts
  <2>2. lea.unit = n /\ Len(u.refs) = m /\ Len(w.refs) = m2
    BY <1>7, <1>8, <1>10
  <2> QED BY <2>1, <2>2 DEF Count
<1>12. /\ \A k1 \in 1 .. m : w.refs[k1] = u.refs[k1]
       /\ w.refs[m + 1] = lea
       /\ \A k1 \in 1 .. m2 : k1 > m + 1 => w.refs[k1] = SpringboardNext(u.size + 1)
  BY <1>3, <1>7, <1>8, <1>10 DEF Grown
<1>13. Tiled(w)
  <2>1. LastNode(w).offset = LastNode(u).offset
    BY <1>1, <1>3, <1>5 DEF LastNode
  <2>2. LastNode(w).offset < w.size
    <3>1. LastNode(u).offset \in Nat /\ LastNode(u).offset <= u.size
      BY <1>1, <1>2, <1>4, NodeParts DEF Tiled, LastNode
    <3> QED BY <1>9, <2>1, <3>1
  <2>3. \A i \in 1 .. n - 1 : i \in 1 .. n /\ i + 1 \in 1 .. n
    OBVIOUS
  <2>4. LastNode(w).offset <= w.size
    <3>1. LastNode(w).offset \in Nat
      BY <1>3, <1>4, CodeParts, NodeParts DEF LastNode
    <3> QED BY <1>9, <2>2, <3>1
  <2>5. 1 \in 1 .. n
    OBVIOUS
  <2>6. \A i \in 1 .. n - 1 :
          /\ w.nodes[i].offset < w.nodes[i + 1].offset
          /\ w.nodes[i].size = w.nodes[i + 1].offset - w.nodes[i].offset
    BY <1>1, <1>2, <1>6, <2>3 DEF Tiled
  <2>7. w.nodes[1].offset = 0 /\ n \in 1 .. MaxUnits
    BY <1>1, <1>2, <1>6, <2>5 DEF Tiled
  <2> QED BY <1>3, <2>2, <2>4, <2>6, <2>7 DEF Tiled
<1>14. RefsIn(w)
  <2> SUFFICES ASSUME NEW k1 \in 1 .. m2 PROVE RefIn(w, w.refs[k1])
    BY <1>9 DEF RefsIn
  <2>1. k1 \in 1 .. m \/ k1 = m + 1 \/ (k1 > m + 1 /\ k1 = m + 2 /\ m2 = m + 2)
    BY <1>8
  <2>2. CASE k1 \in 1 .. m
    <3> DEFINE r == u.refs[k1]
    <3>1. r \in RefT /\ RefIn(u, r) /\ w.refs[k1] = r
      BY <1>2, <1>7, <1>9, <1>12, <2>2, CodeParts DEF RefsIn
    <3>2. r.offset \in Nat /\ r.offset < u.size
      BY <3>1 DEF RefT, RefIn
    <3>3. r.offset < w.size
      BY <1>9, <3>2
    <3>4. ASSUME Lea(r) PROVE w.nodes[r.unit].offset <= r.offset /\ r.offset < UnitEnd(w, r.unit)
      <4>1. r.unit \in 1 .. n /\ u.nodes[r.unit].offset <= r.offset /\ r.offset < UnitEnd(u, r.unit)
        BY <1>1, <3>1, <3>4 DEF RefIn
      <4>2. CASE r.unit < n
        <5>1. r.unit + 1 \in 1 .. n
          BY <4>1, <4>2
        <5> QED BY <1>1, <1>3, <1>6, <4>1, <4>2, <5>1 DEF UnitEnd
      <4>3. CASE ~(r.unit < n)
        BY <1>1, <1>3, <1>6, <3>3, <4>1, <4>3 DEF UnitEnd
      <4> QED BY <4>2, <4>3
    <3> HIDE DEF r
    <3> QED BY <1>1, <1>3, <3>1, <3>3, <3>4 DEF RefIn
  <2>3. CASE k1 = m + 1
    <3>1. w.refs[k1] = lea
      BY <1>12, <2>3
    <3>2. u.size < w.size /\ ~(n < n)
      BY <1>9
    <3>3. u.nodes[n].offset <= u.size
      BY <1>1, <1>2 DEF Tiled, LastNode
    <3>4. UnitEnd(w, n) = w.size
      BY <1>3, <3>2 DEF UnitEnd
    <3>5. n \in 1 .. n
      OBVIOUS
    <3> QED BY <1>1, <1>3, <1>5, <1>10, <3>1, <3>2, <3>3, <3>4, <3>5 DEF RefIn
  <2>4. CASE k1 > m + 1 /\ k1 = m + 2 /\ m2 = m + 2
    <3>1. w.refs[k1] = SpringboardNext(u.size + 1) /\ u.size + 1 \in Nat
      BY <1>9, <1>12, <2>4
    <3>2. u.size + 1 < w.size /\ 0 <= n
      BY <1>9, <2>4
    <3> DEFINE r == SpringboardNext(u.size + 1)
    <3>3. ~Lea(r) /\ r.offset = u.size + 1 /\ r.id = 0
      BY <3>1, SpringboardFields
    <3> HIDE DEF r
    <3>4. w.refs[k1] = r
      BY <3>1 DEF r
    <3> QED BY <1>3, <3>2, <3>3, <3>4 DEF RefIn
  <2> QED BY <2>1, <2>2, <2>3, <2>4
<1>15. Agreed(w)
  <2>1. /\ u.nodes[n].targets \in Seq(TargetT) /\ Len(w.nodes[n].targets) = Len(u.nodes[n].targets) + 1
        /\ (\A i \in 1 .. Len(u.nodes[n].targets) : w.nodes[n].targets[i] = u.nodes[n].targets[i])
        /\ w.nodes[n].targets[Len(u.nodes[n].targets) + 1] = t
    BY <1>4, <1>5, NodeParts
  <2>2. PICK c \in Nat : c = Len(u.nodes[n].targets)
    BY <1>4, NodeParts
  <2>3. /\ Count(u, n) = c /\ (\A i \in 1 .. c : u.nodes[n].targets[i].border = "branch")
        /\ DOMAIN u.nodes[n].targets = 1 .. c /\ DOMAIN w.nodes[n].targets = 1 .. c + 1
        /\ (\A i \in 1 .. c : w.nodes[n].targets[i] = u.nodes[n].targets[i])
        /\ w.nodes[n].targets[c + 1] = t
    <3>1. w.nodes[n].targets \in Seq(TargetT)
      BY <1>3, <1>4, CodeParts, NodeParts
    <3>2. LastNode(u).targets = u.nodes[n].targets
      BY <1>1 DEF LastNode
    <3>3. Count(u, n) = c /\ DOMAIN u.nodes[n].targets = 1 .. c
      <4>1. Count(u, Len(u.nodes)) = Len(LastNode(u).targets)
        BY <1>2 DEF Agreed
      <4>2. DOMAIN u.nodes[n].targets = 1 .. c
        BY <2>1, <2>2
      <4> QED BY <1>1, <2>2, <3>2, <4>1, <4>2
    <3>4. \A i \in 1 .. c : u.nodes[n].targets[i].border = "branch"
      BY <1>2, <3>2, <3>3 DEF Agreed
    <3>5. DOMAIN w.nodes[n].targets = 1 .. c + 1
      BY <2>1, <2>2, <3>1
    <3> QED BY <2>1, <2>2, <3>3, <3>4, <3>5
  <2>4. ASSUME NEW k1 \in 1 .. m2, Lea(w.refs[k1])
        PROVE  LET nd == w.nodes[w.refs[k1].unit]
                   i  == NthOf(w.refs, k1)
               IN  i \in DOMAIN nd.targets /\ SameTarget(w.refs[k1], nd, nd.targets[i])
    <3>1. k1 \in 1 .. m \/ k1 = m + 1
      BY <1>8, <1>11, <2>4
    <3>2. CASE k1 \in 1 .. m
      <4> DEFINE r == u.refs[k1]
                 i == NthOf(u.refs, k1)
      <4>1. w.refs[k1] = r /\ Lea(r) /\ NthOf(w.refs, k1) = i
        BY <1>11, <1>12, <2>4, <3>2
      <4>2. i \in DOMAIN u.nodes[r.unit].targets /\ SameTarget(r, u.nodes[r.unit], u.nodes[r.unit].targets[i])
        BY <1>2, <1>9, <3>2, <4>1 DEF Agreed
      <4>3. r.unit \in 1 .. n
        BY <1>1, <1>2, <1>9, <3>2, <4>1 DEF RefsIn, RefIn
      <4> HIDE DEF r, i
      <4>4. CASE r.unit = n
        <5>1. i \in 1 .. c /\ i \in 1 .. c + 1
          BY <2>3, <4>2, <4>4
        <5> QED BY <1>5, <2>3, <4>1, <4>2, <4>4, <5>1 DEF SameTarget
      <4>5. CASE r.unit # n
        <5>1. r.unit \in 1 .. n - 1
          BY <4>3, <4>5
        <5> QED BY <1>3, <4>1, <4>2, <5>1 DEF SameTarget
      <4> QED BY <4>4, <4>5
    <3>3. CASE k1 = m + 1
      <4>1. w.refs[k1] = lea /\ NthOf(w.refs, k1) = c + 1 /\ c + 1 \in 1 .. c + 1
        BY <1>11, <1>12, <2>3, <3>3
      <4> QED BY <1>5, <1>10, <2>3, <4>1 DEF SameTarget
    <3> QED BY <3>1, <3>2, <3>3
  <2>5. ASSUME NEW i \in 1 .. n, NEW j \in DOMAIN w.nodes[i].targets
        PROVE  /\ w.nodes[i].targets[j].id <= n
               /\ j > Count(w, i) => w.nodes[i].targets[j].border # "branch"
    <3>1. CASE i = n
      <4>1. j \in 1 .. c + 1 /\ Count(w, i) = c + 1
        BY <1>11, <2>3, <2>5, <3>1
      <4>2. ~(j > Count(w, i)) /\ (j \in 1 .. c \/ j = c + 1)
        BY <4>1
      <4>3. \A a \in 1 .. c : u.nodes[n].targets[a].id <= n
        BY <1>1, <1>2, <1>4, <2>3 DEF Agreed
      <4> QED BY <1>1, <2>3, <3>1, <4>2, <4>3
    <3>2. CASE i # n
      <4>1. i \in 1 .. n - 1 /\ Count(w, i) = Count(u, i) /\ i \in DOMAIN u.nodes
        BY <1>4, <1>11, <3>2
      <4> QED BY <1>1, <1>2, <1>3, <2>5, <4>1 DEF Agreed
    <3> QED BY <3>1, <3>2
  <2>6. Count(w, n) = Len(w.nodes[n].targets)
    BY <1>11, <2>1, <2>2, <2>3
  <2>7. \A j \in 1 .. c + 1 : w.nodes[n].targets[j].border = "branch"
    <3>1. \A j \in 1 .. c + 1 : j \in 1 .. c \/ j = c + 1
      OBVIOUS
    <3> QED BY <2>3, <3>1
  <2>8. LastNode(w) = w.nodes[n]
    BY <1>3 DEF LastNode
  <2>9. \A k1 \in DOMAIN w.refs : Lea(w.refs[k1]) =>
          LET nd == w.nodes[w.refs[k1].unit]
              i  == NthOf(w.refs, k1)
          IN  i \in DOMAIN nd.targets /\ SameTarget(w.refs[k1], nd, nd.targets[i])
    BY <1>9, <2>4
  <2>10. \A i \in DOMAIN w.nodes : \A j \in DOMAIN w.nodes[i].targets :
           /\ w.nodes[i].targets[j].id <= Len(w.nodes)
           /\ j > Count(w, i) => w.nodes[i].targets[j].border # "branch"
    BY <1>3, <1>4, <2>5
  <2>11. /\ Count(w, Len(w.nodes)) = Len(LastNode(w).targets)
         /\ \A j \in DOMAIN LastNode(w).targets : LastNode(w).targets[j].border = "branch"
    BY <1>3, <2>3, <2>6, <2>7, <2>8
  <2> QED BY <2>9, <2>10, <2>11 DEF Agreed
<1> QED BY <1>3, <1>13, <1>14, <1>15 DEF CodeOK, w

-----------------------------------------------------------------------------
(* What is patched when a unit begins. *)

PatchedT(nd, id, d, t) ==
  IF ResolvedBy(nd, t.type, d - t.depth) THEN [t EXCEPT !.id = id, !.type = "known"] ELSE t
PatchedTs(nd, id, n) == [k \in DOMAIN n.targets |-> PatchedT(nd, id, n.depth, n.targets[k])]
PatchedR(nd, id, r) ==
  IF Lea(r) /\ ResolvedBy(nd, r.type, r.depth) THEN [r EXCEPT !.id = id, !.type = "known"] ELSE r

LEMMA PatchedTIs ==
  ASSUME NEW t \in TargetT, NEW id \in Nat, NEW nd, NEW d
  PROVE  LET p == PatchedT(nd, id, d, t)
         IN  /\ p \in TargetT /\ p.depth = t.depth /\ p.border = t.border
             /\ ResolvedBy(nd, t.type, d - t.depth) => p.id = id /\ p.type = "known"
             /\ ~ResolvedBy(nd, t.type, d - t.depth) => p = t
<1>1. "known" \in TargetTypes
  BY DEF TargetTypes
<1> QED BY <1>1 DEF PatchedT, TargetT

LEMMA PatchedRIs ==
  ASSUME NEW r \in RefT, NEW id \in Nat, NEW nd
  PROVE  LET p == PatchedR(nd, id, r)
         IN  /\ p \in RefT /\ p.kind = r.kind /\ p.offset = r.offset /\ p.unit = r.unit
             /\ p.depth = r.depth /\ p.goal = r.goal
             /\ Lea(r) /\ ResolvedBy(nd, r.type, r.depth) => p.id = id /\ p.type = "known"
             /\ ~(Lea(r) /\ ResolvedBy(nd, r.type, r.depth)) => p = r
<1>1. "known" \in TargetTypes \cup {"none"}
  BY DEF TargetTypes
<1> QED BY <1>1 DEF PatchedR, RefT

\* Only the depth, the type and the state of the unit count.
LEMMA SameNode ==
  ASSUME NEW nd, NEW nd2, nd.depth = nd2.depth, nd.type = nd2.type, nd.state = nd2.state
  PROVE  /\ \A id, n : PatchedTs(nd, id, n) = PatchedTs(nd2, id, n)
         /\ \A id, r : PatchedR(nd, id, r) = PatchedR(nd2, id, r)
<1>1. \A type, depth : ResolvedBy(nd, type, depth) = ResolvedBy(nd2, type, depth)
  BY DEF ResolvedBy
<1> QED BY <1>1 DEF PatchedTs, PatchedT, PatchedR

LEMMA NewNodeIs ==
  ASSUME NEW o \in Nat, NEW depth \in 1 .. MaxDepth, NEW type \in Types, NEW state \in States
  PROVE  LET nd == NewNode(o, depth, type, state)
         IN  /\ nd \in NodeT /\ nd.offset = o /\ nd.size = 0 /\ nd.depth = depth
             /\ nd.type = type /\ nd.state = state /\ nd.targets = << >>
BY DEF NewNode, NodeT

LEMMA PatchedTsIs ==
  ASSUME NEW n \in NodeT, NEW id \in Nat, NEW nd
  PROVE  LET ts == PatchedTs(nd, id, n)
         IN  /\ ts \in Seq(TargetT) /\ Len(ts) = Len(n.targets) /\ DOMAIN ts = DOMAIN n.targets
             /\ \A k \in DOMAIN n.targets : ts[k] = PatchedT(nd, id, n.depth, n.targets[k])
<1> DEFINE ts == PatchedTs(nd, id, n)
<1>1. PICK m \in Nat : m = Len(n.targets) /\ DOMAIN n.targets = 1 .. m
  BY NodeParts
<1>2. \A k \in 1 .. m : n.targets[k] \in TargetT
  BY <1>1, NodeParts
<1>3. \A k \in 1 .. m : PatchedT(nd, id, n.depth, n.targets[k]) \in TargetT
  BY <1>2, PatchedTIs
<1>4. ts = [k \in 1 .. m |-> PatchedT(nd, id, n.depth, n.targets[k])]
  BY <1>1 DEF PatchedTs
<1> HIDE DEF ts
<1>5. ts \in Seq(TargetT) /\ Len(ts) = m /\ DOMAIN ts = 1 .. m
  BY <1>3, <1>4
<1>6. \A k \in 1 .. m : ts[k] = PatchedT(nd, id, n.depth, n.targets[k])
  BY <1>4
<1> QED BY <1>1, <1>5, <1>6 DEF ts

LEMMA PatchTargetFields ==
  ASSUME NEW u \in CodeT, NEW n \in Nat \ {0}, Len(u.nodes) = n
  PROVE  LET w  == TryPatchTarget(u)
             nd == LastNode(u)
         IN  /\ w \in CodeT /\ Len(w.nodes) = n /\ w.nodes[n] = nd
             /\ \A i \in 1 .. n - 1 :
                  w.nodes[i] = [u.nodes[i] EXCEPT !.targets = PatchedTs(nd, n, u.nodes[i])]
             /\ w.refs = u.refs /\ w.size = u.size /\ w.tail = u.tail
             /\ w.last = u.last /\ w.ok = u.ok
<1> DEFINE nd == LastNode(u)
           P(x) == [x EXCEPT !.targets = PatchedTs(nd, n, x)]
           ns == [i \in 1 .. n |-> IF i < n THEN P(u.nodes[i]) ELSE u.nodes[i]]
<1>1. nd = u.nodes[n] /\ \A i \in 1 .. n : u.nodes[i] \in NodeT
  BY CodeParts DEF LastNode
<1>2. TryPatchTarget(u) = [u EXCEPT !.nodes = ns]
  BY DEF TryPatchTarget, PatchedTs, PatchedT
<1>3. \A i \in 1 .. n : P(u.nodes[i]) \in NodeT
  <2> SUFFICES ASSUME NEW x \in NodeT PROVE P(x) \in NodeT
    BY <1>1
  <2>1. PatchedTs(nd, n, x) \in Seq(TargetT)
    BY PatchedTsIs
  <2> HIDE DEF nd
  <2> QED BY <2>1 DEF NodeT
<1>4. \A i \in 1 .. n - 1 : i \in 1 .. n /\ i < n
  OBVIOUS
<1>5. n \in 1 .. n /\ ~(n < n)
  OBVIOUS
<1> HIDE DEF P, nd
<1>6. ns \in Seq(NodeT) /\ Len(ns) = n /\ DOMAIN ns = 1 .. n
  <2>1. \A i \in 1 .. n : (IF i < n THEN P(u.nodes[i]) ELSE u.nodes[i]) \in NodeT
    BY <1>1, <1>3
  <2> QED BY <2>1
<1>7. ns[n] = nd /\ \A i \in 1 .. n - 1 : ns[i] = P(u.nodes[i])
  BY <1>1, <1>4, <1>5
<1> HIDE DEF ns
<1>8. LET w == [u EXCEPT !.nodes = ns]
      IN  /\ w \in CodeT /\ w.nodes = ns /\ w.refs = u.refs /\ w.size = u.size
          /\ w.tail = u.tail /\ w.last = u.last /\ w.ok = u.ok
  BY <1>6, WithNodes
<1> QED BY <1>2, <1>6, <1>7, <1>8 DEF P, nd

LEMMA PatchRefsFields ==
  ASSUME NEW u \in CodeT, NEW n \in Nat, Len(u.nodes) = n
  PROVE  LET w  == TryPatchRefs(u)
             nd == LastNode(u)
         IN  /\ w \in CodeT /\ w.nodes = u.nodes /\ Len(w.refs) = Len(u.refs)
             /\ \A k \in 1 .. Len(u.refs) : w.refs[k] = PatchedR(nd, n, u.refs[k])
             /\ w.size = u.size /\ w.tail = u.tail /\ w.last = u.last /\ w.ok = u.ok
<1> DEFINE nd == LastNode(u)
           rs == [k \in DOMAIN u.refs |-> PatchedR(nd, n, u.refs[k])]
           w  == TryPatchRefs(u)
<1>1. PICK m \in Nat : m = Len(u.refs) /\ DOMAIN u.refs = 1 .. m
  BY CodeParts
<1>2. \A k \in 1 .. m : PatchedR(nd, n, u.refs[k]) \in RefT
  BY <1>1, CodeParts, PatchedRIs
<1>3. w = [u EXCEPT !.refs = rs]
  BY DEF TryPatchRefs, PatchedR, Lea
<1> HIDE DEF nd, w
<1>4. /\ rs \in Seq(RefT) /\ Len(rs) = m
      /\ \A k \in 1 .. m : rs[k] = PatchedR(nd, n, u.refs[k])
  BY <1>1, <1>2
<1> HIDE DEF rs
<1>5. /\ w \in CodeT /\ w.nodes = u.nodes /\ w.refs = rs
      /\ w.size = u.size /\ w.tail = u.tail /\ w.last = u.last /\ w.ok = u.ok
  BY <1>3, <1>4 DEF CodeT
<1> QED BY <1>1, <1>4, <1>5 DEF w, nd

-----------------------------------------------------------------------------
(* A unit is closed and the next one begins. *)

ClosedBy(x, y, n, nd) ==
  /\ y \in CodeT /\ Len(y.nodes) = n + 1 /\ y.nodes[n + 1] = nd
  /\ \A i \in 1 .. n - 1 :
       y.nodes[i] = [x.nodes[i] EXCEPT !.targets = PatchedTs(nd, n + 1, x.nodes[i])]
  /\ y.nodes[n] = [x.nodes[n] EXCEPT !.size = x.size - x.nodes[n].offset,
                                     !.targets = PatchedTs(nd, n + 1, x.nodes[n])]
  /\ y.refs = x.refs /\ y.size = x.size /\ y.tail = x.tail
  /\ y.last = x.last /\ y.ok = x.ok

LEMMA CloseFields ==
  ASSUME NEW x \in CodeT, NEW n \in Nat \ {0}, Len(x.nodes) = n, x.nodes[n].offset <= x.size,
         NEW depth \in 1 .. MaxDepth, NEW type \in Types, NEW state \in States
  PROVE  ClosedBy(x, Close(x, depth, type, state), n, NewNode(x.size, depth, type, state))
<1> DEFINE nd == NewNode(x.size, depth, type, state)
           y  == Close(x, depth, type, state)
<1>1. /\ x.size \in Nat /\ x.nodes \in Seq(NodeT) /\ DOMAIN x.nodes = 1 .. n /\ n \in 1 .. n
      /\ \A i \in 1 .. n : x.nodes[i] \in NodeT
  BY CodeParts
<1>2. PICK s \in Nat : s = x.size - x.nodes[n].offset
  BY <1>1, NodeParts
<1>3. nd \in NodeT
  BY <1>1, NewNodeIs
<1> HIDE DEF nd
<1> DEFINE last   == [x.nodes[n] EXCEPT !.size = s]
           closed == [x.nodes EXCEPT ![n] = last]
           ns     == Append(closed, nd)
           z      == [x EXCEPT !.nodes = ns]
<1>4. last \in NodeT
  BY <1>1 DEF NodeT
<1>5. closed = [x.nodes EXCEPT ![n].size = x.size - x.nodes[n].offset]
  BY <1>2
<1> HIDE DEF last
<1>6. /\ closed \in Seq(NodeT) /\ Len(closed) = n /\ closed[n] = last
      /\ \A i \in 1 .. n - 1 : closed[i] = x.nodes[i]
  <2>1. \A i \in 1 .. n - 1 : i \in 1 .. n /\ i # n
    OBVIOUS
  <2> QED BY <1>1, <1>4, <2>1
<1>7. y = TryPatchTarget(z)
  BY <1>5 DEF Close, nd
<1> HIDE DEF closed
<1>8. /\ ns \in Seq(NodeT) /\ Len(ns) = n + 1 /\ ns[n + 1] = nd /\ ns[n] = last
      /\ \A i \in 1 .. n - 1 : ns[i] = x.nodes[i]
  <2>1. \A i \in 1 .. n - 1 : i \in 1 .. n
    OBVIOUS
  <2>2. \A i \in 1 .. n : ns[i] = closed[i]
    BY <1>3, <1>6
  <2> QED BY <1>1, <1>3, <1>6, <2>1, <2>2
<1> HIDE DEF ns
<1>9. /\ z \in CodeT /\ z.nodes = ns /\ z.refs = x.refs /\ z.size = x.size
      /\ z.tail = x.tail /\ z.last = x.last /\ z.ok = x.ok
  BY <1>8, WithNodes
<1> HIDE DEF z, y
<1>10. LastNode(z) = nd
  BY <1>8, <1>9 DEF LastNode
<1>11. PICK m \in Nat \ {0} : m = n + 1
  OBVIOUS
<1>12. /\ y \in CodeT /\ Len(y.nodes) = m /\ y.nodes[m] = nd
       /\ \A i \in 1 .. m - 1 : y.nodes[i] = [z.nodes[i] EXCEPT !.targets = PatchedTs(nd, m, z.nodes[i])]
       /\ y.refs = z.refs /\ y.size = z.size /\ y.tail = z.tail
       /\ y.last = z.last /\ y.ok = z.ok
  <2> DEFINE p == TryPatchTarget(z)
  <2>1. Len(z.nodes) = m
    BY <1>8, <1>9, <1>11
  <2>2. /\ p \in CodeT /\ Len(p.nodes) = m /\ p.nodes[m] = LastNode(z)
        /\ \A i \in 1 .. m - 1 :
             p.nodes[i] = [z.nodes[i] EXCEPT !.targets = PatchedTs(LastNode(z), m, z.nodes[i])]
        /\ p.refs = z.refs /\ p.size = z.size /\ p.tail = z.tail
        /\ p.last = z.last /\ p.ok = z.ok
    BY <1>9, <2>1, PatchTargetFields
  <2> HIDE DEF p
  <2>3. y = p
    BY <1>7 DEF p
  <2> QED BY <1>10, <2>2, <2>3
<1>13. \A i \in 1 .. n - 1 : i \in 1 .. m - 1
  BY <1>11
<1>14. n \in 1 .. m - 1
  BY <1>11
<1>15. y.nodes[n] = [x.nodes[n] EXCEPT !.size = x.size - x.nodes[n].offset,
                                       !.targets = PatchedTs(nd, n + 1, x.nodes[n])]
  <2>1. y.nodes[n] = [last EXCEPT !.targets = PatchedTs(nd, m, last)]
    BY <1>8, <1>9, <1>12, <1>14
  <2>2. PatchedTs(nd, m, last) = PatchedTs(nd, m, x.nodes[n])
    <3>1. x.nodes[n] \in NodeT /\ last.depth = x.nodes[n].depth /\ last.targets = x.nodes[n].targets
      BY <1>1 DEF NodeT, last
    <3> QED BY <3>1 DEF PatchedTs
  <2>3. [last EXCEPT !.targets = PatchedTs(nd, m, x.nodes[n])]
          = [x.nodes[n] EXCEPT !.size = s, !.targets = PatchedTs(nd, m, x.nodes[n])]
    BY <1>1 DEF NodeT, last
  <2> QED BY <1>2, <1>11, <2>1, <2>2, <2>3
<1>16. \A i \in 1 .. n - 1 :
         y.nodes[i] = [x.nodes[i] EXCEPT !.targets = PatchedTs(nd, n + 1, x.nodes[i])]
  BY <1>8, <1>9, <1>11, <1>12, <1>13
<1> QED BY <1>9, <1>11, <1>12, <1>15, <1>16 DEF nd, y, ClosedBy

\* The jump that is inserted, if one is.
Extended(y, n, rs, size, goal) ==
  LET ts == y.nodes[n].targets
  IN  IF Skips(y, ts)
      THEN rs = y.refs /\ size = y.size
      ELSE /\ Grown(y.refs, rs, LeaNext(y, n, ts[Len(ts)], y.size, goal))
           /\ size = y.size + (Len(rs) - Len(y.refs))

LEMMA InsertJumpFields ==
  ASSUME NEW y \in CodeT, NEW n \in Nat \ {0}, Len(y.nodes) = n + 1, NEW goal \in Places,
         NEW split \in BOOLEAN, Skips(y, y.nodes[n].targets) \/ y.nodes[n].targets # << >>
  PROVE  LET v == InsertJump(y, split, goal)
         IN  /\ v \in CodeT /\ v.nodes = y.nodes /\ v.last = y.last /\ v.ok = y.ok
             /\ v.refs \in Seq(RefT) /\ v.size - y.size \in Nat
             /\ Extended(y, n, v.refs, v.size, goal)
<1> DEFINE v  == InsertJump(y, split, goal)
           ts == y.nodes[n].targets
           t  == ts[Len(ts)]
           lea == LeaNext(y, n, t, y.size, goal)
<1>1. /\ Len(y.nodes) - 1 = n /\ n \in DOMAIN y.nodes /\ y.nodes[n] \in NodeT /\ y.size \in Nat
      /\ y.refs \in Seq(RefT)
  <2>1. n \in 1 .. n + 1 /\ n + 1 - 1 = n
    OBVIOUS
  <2> QED BY <2>1, CodeParts
<1>2. CASE Skips(y, ts)
  <2>1. v = y
    BY <1>1, <1>2 DEF InsertJump
  <2> HIDE DEF v
  <2>2. y.size - y.size = 0
    BY <1>1
  <2> QED BY <1>1, <1>2, <2>1, <2>2 DEF Extended, v
<1>3. CASE ~Skips(y, ts)
  <2>1. v = Jump(y, n, t, split, y.size, goal)
    BY <1>1, <1>3 DEF InsertJump
  <2>2. t \in TargetT
    <3>1. ts \in Seq(TargetT) /\ ts # << >>
      BY <1>1, <1>3, NodeParts
    <3>2. Len(ts) \in DOMAIN ts
      BY <3>1
    <3> QED BY <3>1, <3>2
  <2> HIDE DEF t, v
  <2>3. JumpAdded(y, v, lea)
    BY <1>1, <2>1, <2>2, JumpFields
  <2>4. lea.offset = y.size
    BY DEF LeaNext
  <2> HIDE DEF lea
  <2>5. /\ v \in CodeT /\ v.nodes = y.nodes /\ v.last = y.last /\ v.ok = y.ok
        /\ Grown(y.refs, v.refs, lea) /\ v.size = y.size + (Len(v.refs) - Len(y.refs))
    BY <2>3, <2>4 DEF JumpAdded
  <2>6. v.refs \in Seq(RefT)
    BY <2>5, CodeParts
  <2>7. v.size - y.size \in Nat
    <3>1. PICK m \in Nat : m = Len(y.refs)
      BY <1>1
    <3>2. Len(v.refs) \in {m + 1, m + 2}
      BY <2>5, <3>1 DEF Grown
    <3>3. PICK d \in {1, 2} : d = Len(v.refs) - Len(y.refs)
      BY <3>1, <3>2
    <3>4. v.size = y.size + d
      BY <2>5, <3>3
    <3> QED BY <1>1, <3>4
  <2>8. Extended(y, n, v.refs, v.size, goal)
    BY <1>3, <2>5 DEF Extended, lea, t
  <2> QED BY <2>5, <2>6, <2>7, <2>8 DEF v
<1> QED BY <1>2, <1>3

BorderedBy(y, w, n, nd, goal) ==
  /\ w \in CodeT /\ Len(w.nodes) = n + 1
  /\ \A i \in 1 .. n - 1 : w.nodes[i] = y.nodes[i]
  /\ w.nodes[n] = [y.nodes[n] EXCEPT !.size = y.nodes[n].size + (w.size - y.size)]
  /\ w.nodes[n + 1] = [nd EXCEPT !.offset = w.size]
  /\ w.tail = "none" /\ w.last = y.last /\ w.ok = y.ok
  /\ \E rs \in Seq(RefT) :
       /\ Extended(y, n, rs, w.size, goal) /\ Len(w.refs) = Len(rs)
       /\ \A k \in 1 .. Len(rs) : w.refs[k] = PatchedR(nd, n + 1, rs[k])

LEMMA BorderFields ==
  ASSUME NEW y \in CodeT, NEW n \in Nat \ {0}, Len(y.nodes) = n + 1, NEW goal \in Places,
         Skips(y, y.nodes[n].targets) \/ y.nodes[n].targets # << >>
  PROVE  BorderedBy(y, Border(y, goal), n, LastNode(y), goal)
<1> DEFINE nd    == LastNode(y)
           split == nd.type = "loop"
           v     == InsertJump(y, split, goal)
           extra == v.size - y.size
           w     == Border(y, goal)
<1>1. /\ v \in CodeT /\ v.nodes = y.nodes /\ v.last = y.last /\ v.ok = y.ok
      /\ v.refs \in Seq(RefT) /\ v.size - y.size \in Nat
      /\ Extended(y, n, v.refs, v.size, goal)
  BY InsertJumpFields
<1>2. PICK e \in Nat : e = extra
  BY <1>1
<1>3. PICK o \in Nat : o = y.size + e
  BY CodeParts
<1>4. PICK m \in Nat \ {0} : m = n + 1
  OBVIOUS
<1>5. v.size = o /\ w.size = v.size => w.size - y.size = e
  BY <1>1, <1>2, <1>3, CodeParts
<1>6. /\ n \in DOMAIN y.nodes /\ m \in DOMAIN y.nodes /\ y.nodes[n] \in NodeT /\ y.nodes[m] \in NodeT
      /\ nd = y.nodes[m] /\ n # m /\ m - 1 = n /\ DOMAIN y.nodes = 1 .. m /\ y.nodes \in Seq(NodeT)
  <2>1. n \in 1 .. m /\ m \in 1 .. m /\ n # m /\ m - 1 = n
    BY <1>4
  <2> QED BY <1>4, <2>1, CodeParts DEF LastNode
<1>7. PICK s \in Nat : s = y.nodes[n].size + e
  BY <1>6, NodeParts
<1> DEFINE a  == [y.nodes[n] EXCEPT !.size = s]
           b  == [y.nodes[m] EXCEPT !.offset = o]
           ns == [y.nodes EXCEPT ![n] = a, ![m] = b]
           z  == [v EXCEPT !.nodes = ns, !.tail = "none"]
<1>8. a \in NodeT /\ b \in NodeT
  BY <1>6 DEF NodeT
<1>9. w = TryPatchRefs(z)
  <2>1. z = [v EXCEPT !.nodes[n].size = @ + extra, !.nodes[m].offset = y.size + extra,
                      !.tail = "none"]
    BY <1>1, <1>2, <1>3, <1>6, <1>7 DEF CodeT
  <2> HIDE DEF v, z
  <2> QED BY <1>4, <1>6, <2>1 DEF Border, v
<1> HIDE DEF a, b
<1>10. /\ ns \in Seq(NodeT) /\ Len(ns) = m /\ ns[n] = a /\ ns[m] = b
       /\ \A i \in 1 .. n - 1 : ns[i] = y.nodes[i]
  <2>1. \A i \in 1 .. n - 1 : i \in 1 .. m /\ i # n /\ i # m
    BY <1>4
  <2> QED BY <1>4, <1>6, <1>8, <2>1
<1> HIDE DEF ns, v
<1>11. "none" \in Tails
  BY DEF Tails
<1>12. /\ z \in CodeT /\ z.nodes = ns /\ z.refs = v.refs /\ z.size = v.size
       /\ z.tail = "none" /\ z.last = v.last /\ z.ok = v.ok
  BY <1>1, <1>10, <1>11 DEF CodeT
<1> HIDE DEF z, w
<1>13. LastNode(z) = b
  BY <1>10, <1>12 DEF LastNode
<1>14. /\ w \in CodeT /\ w.nodes = z.nodes /\ Len(w.refs) = Len(z.refs)
       /\ \A k \in 1 .. Len(z.refs) : w.refs[k] = PatchedR(b, m, z.refs[k])
       /\ w.size = z.size /\ w.tail = z.tail /\ w.last = z.last /\ w.ok = z.ok
  BY <1>9, <1>10, <1>12, <1>13, PatchRefsFields
<1>15. \A id, r : PatchedR(b, id, r) = PatchedR(nd, id, r)
  <2>1. b.depth = nd.depth /\ b.type = nd.type /\ b.state = nd.state
    BY <1>6 DEF b, NodeT
  <2> QED BY <2>1, SameNode
<1>16. w.size = o /\ w.size - y.size = e
  <2>1. v.size = o
    BY <1>1, <1>2, <1>3, CodeParts
  <2> QED BY <1>5, <1>12, <1>14, <2>1
<1>17. w.nodes[n] = [y.nodes[n] EXCEPT !.size = y.nodes[n].size + (w.size - y.size)]
  BY <1>7, <1>10, <1>12, <1>14, <1>16 DEF a
<1>18. w.nodes[n + 1] = [nd EXCEPT !.offset = w.size]
  BY <1>4, <1>6, <1>10, <1>12, <1>14, <1>16 DEF b
<1>19. \E rs \in Seq(RefT) :
         /\ Extended(y, n, rs, w.size, goal) /\ Len(w.refs) = Len(rs)
         /\ \A k \in 1 .. Len(rs) : w.refs[k] = PatchedR(nd, n + 1, rs[k])
  BY <1>1, <1>4, <1>12, <1>14, <1>15
<1> QED BY <1>1, <1>4, <1>10, <1>12, <1>14, <1>17, <1>18, <1>19 DEF w, nd, BorderedBy

\* The same for both: unit nd begins behind x, goal is where x goes on.
Longer(x, nd, n, rs, size, goal) ==
  LET ts == x.nodes[n].targets
      t  == PatchedT(nd, n + 1, x.nodes[n].depth, ts[Len(ts)])
  IN  IF Skips(x, ts)
      THEN rs = x.refs /\ size = x.size
      ELSE /\ Grown(x.refs, rs, LeaNext(x, n, t, x.size, goal))
           /\ size = x.size + (Len(rs) - Len(x.refs))

UnitBegun(x, w, n, nd, goal) ==
  /\ w \in CodeT /\ Len(w.nodes) = n + 1 /\ w.nodes[n + 1] = nd /\ nd.offset = w.size
  /\ \A i \in 1 .. n :
       /\ w.nodes[i].offset = x.nodes[i].offset /\ w.nodes[i].depth = x.nodes[i].depth
       /\ w.nodes[i].type = x.nodes[i].type /\ w.nodes[i].state = x.nodes[i].state
       /\ w.nodes[i].targets = PatchedTs(nd, n + 1, x.nodes[i])
  /\ \A i \in 1 .. n - 1 : w.nodes[i].size = x.nodes[i].size
  /\ w.nodes[n].size = w.size - x.nodes[n].offset
  /\ w.tail = "none" /\ w.last = x.last /\ w.ok = x.ok
  /\ \E rs \in Seq(RefT) :
       /\ Longer(x, nd, n, rs, w.size, goal) /\ Len(w.refs) = Len(rs)
       /\ \A k \in 1 .. Len(rs) : w.refs[k] = PatchedR(nd, n + 1, rs[k])

LEMMA UnitBegunIs ==
  ASSUME NEW x \in CodeT, NEW n \in Nat \ {0}, Len(x.nodes) = n, x.nodes[n].offset <= x.size,
         NEW depth \in 1 .. MaxDepth, NEW type \in Types, NEW state \in States,
         NEW goal \in Places, Skips(x, x.nodes[n].targets) \/ x.nodes[n].targets # << >>
  PROVE  LET w == Border(Close(x, depth, type, state), goal)
         IN  UnitBegun(x, w, n, NewNode(w.size, depth, type, state), goal)
<1> DEFINE y  == Close(x, depth, type, state)
           a  == NewNode(x.size, depth, type, state)
           w  == Border(y, goal)
           nd == NewNode(w.size, depth, type, state)
<1>1. /\ x.size \in Nat /\ x.nodes \in Seq(NodeT) /\ DOMAIN x.nodes = 1 .. n /\ n \in 1 .. n
      /\ \A i \in 1 .. n : x.nodes[i] \in NodeT
  BY CodeParts
<1>2. /\ y \in CodeT /\ Len(y.nodes) = n + 1 /\ y.nodes[n + 1] = a
      /\ \A i \in 1 .. n - 1 :
           y.nodes[i] = [x.nodes[i] EXCEPT !.targets = PatchedTs(a, n + 1, x.nodes[i])]
      /\ y.nodes[n] = [x.nodes[n] EXCEPT !.size = x.size - x.nodes[n].offset,
                                         !.targets = PatchedTs(a, n + 1, x.nodes[n])]
      /\ y.refs = x.refs /\ y.size = x.size /\ y.tail = x.tail
      /\ y.last = x.last /\ y.ok = x.ok
  <2>1. ClosedBy(x, y, n, a)
    BY CloseFields
  <2> HIDE DEF y, a
  <2> QED BY <2>1 DEF ClosedBy
<1> HIDE DEF y
<1>3. /\ a \in NodeT /\ a.depth = depth /\ a.type = type /\ a.state = state
      /\ a.targets = << >> /\ a.size = 0
  BY <1>1, NewNodeIs
<1>4. PICK m \in Nat : m = n + 1
  OBVIOUS
<1>5. LastNode(y) = a
  BY <1>2 DEF LastNode
<1>6. x.nodes[n] \in NodeT /\ y.nodes[n].targets = PatchedTs(a, m, x.nodes[n])
  BY <1>1, <1>2, <1>4 DEF NodeT
<1>7. PICK c \in Nat : c = Len(x.nodes[n].targets)
  BY <1>6, NodeParts
<1>8. Len(y.nodes[n].targets) = c /\ DOMAIN x.nodes[n].targets = 1 .. c
  BY <1>4, <1>6, <1>7, NodeParts, PatchedTsIs
<1> DEFINE t == x.nodes[n].targets[c]
<1>9. ASSUME c # 0
      PROVE  t \in TargetT /\ y.nodes[n].targets[c] = PatchedT(a, m, x.nodes[n].depth, t)
  <2>1. c \in 1 .. c
    BY <1>9
  <2> QED BY <1>4, <1>6, <1>7, <1>8, <2>1, NodeParts, PatchedTsIs
<1>10. (c = 0) = (x.nodes[n].targets = << >>) /\ (c = 0) = (y.nodes[n].targets = << >>)
  <2>1. x.nodes[n].targets \in Seq(TargetT) /\ y.nodes[n].targets \in Seq(TargetT)
    BY <1>4, <1>6, NodeParts, PatchedTsIs
  <2> QED BY <1>7, <1>8, <2>1
<1>11. Skips(y, y.nodes[n].targets) = Skips(x, x.nodes[n].targets)
  <2>1. c # 0 => y.nodes[n].targets[c].border = t.border
    BY <1>4, <1>9, PatchedTIs
  <2>2. y.last = x.last /\ y.tail = x.tail
    BY <1>2
  <2>3. CASE c = 0
    BY <1>10, <2>2, <2>3 DEF Skips
  <2>4. CASE c # 0
    <3>1. y.nodes[n].targets[Len(y.nodes[n].targets)].border = x.nodes[n].targets[Len(x.nodes[n].targets)].border
      BY <1>7, <1>8, <2>1, <2>4
    <3> QED BY <1>10, <2>2, <2>4, <3>1 DEF Skips
  <2> QED BY <2>3, <2>4
<1>12. Skips(y, y.nodes[n].targets) \/ y.nodes[n].targets # << >>
  BY <1>10, <1>11
<1>13. /\ w \in CodeT /\ Len(w.nodes) = n + 1
       /\ \A i \in 1 .. n - 1 : w.nodes[i] = y.nodes[i]
       /\ w.nodes[n] = [y.nodes[n] EXCEPT !.size = y.nodes[n].size + (w.size - y.size)]
       /\ w.nodes[n + 1] = [a EXCEPT !.offset = w.size]
       /\ w.tail = "none" /\ w.last = y.last /\ w.ok = y.ok
       /\ \E rs \in Seq(RefT) :
            /\ Extended(y, n, rs, w.size, goal) /\ Len(w.refs) = Len(rs)
            /\ \A k \in 1 .. Len(rs) : w.refs[k] = PatchedR(a, n + 1, rs[k])
  <2>1. BorderedBy(y, w, n, LastNode(y), goal)
    BY <1>2, <1>12, BorderFields
  <2> HIDE DEF w, a
  <2> QED BY <1>5, <2>1 DEF BorderedBy
<1> HIDE DEF w
<1>14. w.size \in Nat
  BY <1>13, CodeParts
<1>15. nd = [a EXCEPT !.offset = w.size] /\ nd.offset = w.size
  BY DEF NewNode
<1>16. nd.depth = a.depth /\ nd.type = a.type /\ nd.state = a.state
  BY DEF NewNode
<1>17. /\ \A id, b : PatchedTs(nd, id, b) = PatchedTs(a, id, b)
       /\ \A id, r : PatchedR(nd, id, r) = PatchedR(a, id, r)
       /\ \A id, d, b : PatchedT(nd, id, d, b) = PatchedT(a, id, d, b)
  <2> HIDE DEF nd, a
  <2>1. \A type1, depth1 : ResolvedBy(nd, type1, depth1) = ResolvedBy(a, type1, depth1)
    BY <1>16 DEF ResolvedBy
  <2> QED BY <2>1, <1>16, SameNode DEF PatchedT
<1> HIDE DEF nd, a
<1>18. ASSUME NEW i \in 1 .. n
       PROVE  /\ w.nodes[i].offset = x.nodes[i].offset /\ w.nodes[i].depth = x.nodes[i].depth
              /\ w.nodes[i].type = x.nodes[i].type /\ w.nodes[i].state = x.nodes[i].state
              /\ w.nodes[i].targets = PatchedTs(nd, n + 1, x.nodes[i])
              /\ i < n => w.nodes[i].size = x.nodes[i].size
  <2> DEFINE q == PatchedTs(a, n + 1, x.nodes[i])
  <2>0. x.nodes[i] \in NodeT /\ q = PatchedTs(nd, n + 1, x.nodes[i])
    BY <1>1, <1>17
  <2> HIDE DEF q
  <2>1. CASE i = n
    <3>1. ~(i < n)
      BY <2>1
    <3>2. y.nodes[i] = [x.nodes[i] EXCEPT !.size = x.size - x.nodes[i].offset, !.targets = q]
      BY <1>2, <2>1 DEF q
    <3>3. w.nodes[i] = [y.nodes[i] EXCEPT !.size = y.nodes[i].size + (w.size - y.size)]
      BY <1>13, <2>1
    <3> QED BY <2>0, <3>1, <3>2, <3>3 DEF NodeT
  <2>2. CASE i # n
    <3>1. i \in 1 .. n - 1
      BY <2>2
    <3>2. w.nodes[i] = [x.nodes[i] EXCEPT !.targets = q]
      <4>1. w.nodes[i] = y.nodes[i]
        BY <1>13, <3>1
      <4>2. y.nodes[i] = [x.nodes[i] EXCEPT !.targets = PatchedTs(a, n + 1, x.nodes[i])]
        BY <1>2, <3>1
      <4> QED BY <4>1, <4>2 DEF q
    <3> QED BY <2>0, <3>2 DEF NodeT
  <2> QED BY <2>1, <2>2
<1>19. w.nodes[n].size = w.size - x.nodes[n].offset
  <2>1. y.nodes[n].size = x.size - x.nodes[n].offset /\ y.nodes[n] \in NodeT
    <3>1. n \in 1 .. n + 1
      BY <1>4
    <3> QED BY <1>2, <1>6, <3>1, CodeParts DEF NodeT
  <2>2. w.nodes[n].size = y.nodes[n].size + (w.size - y.size)
    BY <1>13, <2>1 DEF NodeT
  <2>3. x.nodes[n].offset \in Nat
    BY <1>6, NodeParts
  <2> QED BY <1>1, <1>2, <1>14, <2>1, <2>2, <2>3
<1>20. ASSUME NEW rs \in Seq(RefT), Extended(y, n, rs, w.size, goal)
       PROVE  Longer(x, nd, n, rs, w.size, goal)
  <2>1. CASE Skips(x, x.nodes[n].targets)
    BY <1>2, <1>11, <1>20, <2>1 DEF Longer, Extended
  <2>2. CASE ~Skips(x, x.nodes[n].targets)
    <3> DEFINE p == PatchedT(a, m, x.nodes[n].depth, t)
    <3>1. c # 0
      BY <1>10, <2>2
    <3>2. y.nodes[n].targets[Len(y.nodes[n].targets)] = p
      BY <1>8, <1>9, <3>1
    <3>3. y.nodes[n].depth = x.nodes[n].depth
      BY <1>2, <1>6 DEF NodeT
    <3> HIDE DEF p
    <3>4. LeaNext(y, n, p, y.size, goal) = LeaNext(x, n, p, x.size, goal)
      BY <1>2, <3>3 DEF LeaNext
    <3>5. PatchedT(nd, n + 1, x.nodes[n].depth, x.nodes[n].targets[Len(x.nodes[n].targets)]) = p
      BY <1>4, <1>7, <1>17 DEF p
    <3> QED BY <1>2, <1>11, <1>20, <2>2, <3>2, <3>4, <3>5 DEF Longer, Extended
  <2> QED BY <2>1, <2>2
<1>21. \E rs \in Seq(RefT) :
         /\ Longer(x, nd, n, rs, w.size, goal) /\ Len(w.refs) = Len(rs)
         /\ \A k \in 1 .. Len(rs) : w.refs[k] = PatchedR(nd, n + 1, rs[k])
  BY <1>13, <1>17, <1>20
<1>22. \A i \in 1 .. n - 1 : i \in 1 .. n /\ i < n
  OBVIOUS
<1>23. UnitBegun(x, w, n, nd, goal)
  BY <1>2, <1>13, <1>15, <1>18, <1>19, <1>21, <1>22 DEF UnitBegun
<1> QED BY <1>23 DEF nd, w, y

LEMMA KnownStays ==
  ASSUME NEW nd, NEW d
  PROVE  ~ResolvedBy(nd, "known", d) /\ ~ResolvedBy(nd, "loopKnown", d)
BY DEF ResolvedBy

\* Both passes patch alike.
LEMMA PatchedAlike ==
  ASSUME NEW nd, NEW id \in Nat, NEW r \in RefT, Lea(r), NEW a \in NodeT, NEW b \in NodeT,
         a.depth = b.depth, NEW t \in TargetT, SameTarget(r, a, t)
  PROVE  SameTarget(PatchedR(nd, id, r), b, PatchedT(nd, id, a.depth, t))
<1> DEFINE q == PatchedR(nd, id, r)
           p == PatchedT(nd, id, a.depth, t)
<1>1. r.id = t.id /\ r.type = t.type /\ r.depth = a.depth - t.depth
  BY DEF SameTarget
<1>2. p.depth = t.depth /\ q.depth = r.depth
  BY PatchedTIs, PatchedRIs
<1>3. CASE ResolvedBy(nd, r.type, r.depth)
  <2>1. q.id = id /\ q.type = "known" /\ p.id = id /\ p.type = "known"
    BY <1>1, <1>3, PatchedTIs, PatchedRIs
  <2> HIDE DEF p, q
  <2>2. SameTarget(q, b, p)
    BY <1>1, <1>2, <2>1 DEF SameTarget
  <2> QED BY <2>2 DEF p, q
<1>4. CASE ~ResolvedBy(nd, r.type, r.depth)
  <2>1. q = r /\ p = t
    BY <1>1, <1>4, PatchedTIs, PatchedRIs
  <2> HIDE DEF p, q
  <2>2. SameTarget(q, b, p)
    BY <1>1, <1>2, <2>1 DEF SameTarget
  <2> QED BY <2>2 DEF p, q
<1> QED BY <1>3, <1>4

LEMMA PatchedTwice ==
  ASSUME NEW nd, NEW id \in Nat, NEW d, NEW t \in TargetT, NEW r \in RefT,
         r.type = PatchedT(nd, id, d, t).type, r.depth = d - t.depth
  PROVE  PatchedR(nd, id, r) = r
<1> DEFINE p == PatchedT(nd, id, d, t)
<1>1. ResolvedBy(nd, t.type, d - t.depth) => r.type = "known"
  BY PatchedTIs
<1>2. ~ResolvedBy(nd, t.type, d - t.depth) => r.type = t.type
  BY PatchedTIs
<1>3. ~ResolvedBy(nd, r.type, r.depth)
  BY <1>1, <1>2, KnownStays
<1> QED BY <1>3, PatchedRIs

\* A unit that is added: its border gets the target t, unless it is skipped.
UnitAdded(u, w, n, nd, goal, t) ==
  /\ CodeOK(w) /\ Len(w.nodes) = n + 1 /\ w.nodes[n + 1] = nd
  /\ \A i \in 1 .. n : /\ w.nodes[i].depth = u.nodes[i].depth /\ w.nodes[i].type = u.nodes[i].type
                       /\ w.nodes[i].state = u.nodes[i].state
  /\ w.tail = "none" /\ w.last = u.last /\ w.ok = u.ok
  /\ Len(u.refs) <= Len(w.refs)
  /\ \A k \in 1 .. Len(u.refs) : w.refs[k] = PatchedR(nd, n + 1, u.refs[k])
  /\ \A k \in 1 .. Len(w.refs) : k > Len(u.refs) =>
       IF k = Len(u.refs) + 1
       THEN /\ Lea(w.refs[k]) /\ w.refs[k].unit = n /\ w.refs[k].goal = goal
            /\ t.type = "known" => w.refs[k].type = "known" /\ w.refs[k].id = t.id
       ELSE ~Lea(w.refs[k]) /\ w.refs[k].goal.part = "springboard"
  /\ ~(IsEndingWithJmp(u) /\ u.last # "br_if") => Len(u.refs) + 1 <= Len(w.refs)

\* The unit that is closed, before it is.
LEMMA LastUnitIs ==
  ASSUME NEW u, CodeOK(u), NEW n \in Nat \ {0}, Len(u.nodes) = n,
         NEW t \in TargetT, t.border # "branch", NEW skip \in BOOLEAN,
         skip => IsEndingWithJmp(u) /\ u.last # "br_if"
  PROVE  LET x == IF skip THEN u ELSE AddTarget(u, t)
         IN  /\ x \in CodeT /\ Len(x.nodes) = n /\ (\A i \in 1 .. n - 1 : x.nodes[i] = u.nodes[i])
             /\ x.nodes[n] \in NodeT /\ u.nodes[n] \in NodeT
             /\ x.nodes[n].offset = u.nodes[n].offset /\ x.nodes[n].depth = u.nodes[n].depth
             /\ x.nodes[n].type = u.nodes[n].type /\ x.nodes[n].state = u.nodes[n].state
             /\ x.nodes[n].targets = IF skip THEN u.nodes[n].targets
                                     ELSE Append(u.nodes[n].targets, t)
             /\ x.refs = u.refs /\ x.size = u.size /\ x.tail = u.tail
             /\ x.last = u.last /\ x.ok = u.ok
             /\ skip => Skips(x, x.nodes[n].targets)
             /\ Skips(x, x.nodes[n].targets) => IsEndingWithJmp(u) /\ u.last # "br_if"
<1> DEFINE x == IF skip THEN u ELSE AddTarget(u, t)
<1>1. u \in CodeT /\ n \in 1 .. n
  BY DEF CodeOK
<1>2. u.nodes[n] \in NodeT /\ n \in DOMAIN u.nodes
  BY <1>1, CodeParts
<1>3. CASE skip
  <2>1. x = u
    BY <1>3
  <2> HIDE DEF x
  <2>2. \A i \in DOMAIN u.nodes[n].targets : u.nodes[n].targets[i].border = "branch"
    BY DEF CodeOK, Agreed, LastNode
  <2>3. u.nodes[n].targets # << >> => Len(u.nodes[n].targets) \in DOMAIN u.nodes[n].targets
    <3>1. u.nodes[n].targets \in Seq(TargetT)
      BY <1>2, NodeParts
    <3> QED BY <3>1
  <2>4. Skips(x, x.nodes[n].targets)
    BY <1>3, <2>1, <2>2, <2>3 DEF Skips, IsEndingWithJmp, JumpLike
  <2> QED BY <1>1, <1>2, <1>3, <2>1, <2>4 DEF x
<1>4. CASE ~skip
  <2>1. x = AddTarget(u, t)
    BY <1>4
  <2> HIDE DEF x
  <2>2. TargetAdded(u, x, t)
    BY <1>1, <2>1, AddTargetFields
  <2>3. /\ x \in CodeT /\ Len(x.nodes) = n /\ (\A i \in 1 .. n - 1 : x.nodes[i] = u.nodes[i])
        /\ x.nodes[n] = [u.nodes[n] EXCEPT !.targets = Append(u.nodes[n].targets, t)]
        /\ x.refs = u.refs /\ x.size = u.size /\ x.tail = u.tail
        /\ x.last = u.last /\ x.ok = u.ok
    BY <2>2 DEF TargetAdded, LastGets
  <2>4. x.nodes[n] \in NodeT
    BY <1>1, <2>3, CodeParts
  <2>5. /\ x.nodes[n].offset = u.nodes[n].offset /\ x.nodes[n].depth = u.nodes[n].depth
        /\ x.nodes[n].type = u.nodes[n].type /\ x.nodes[n].state = u.nodes[n].state
        /\ x.nodes[n].targets = Append(u.nodes[n].targets, t)
    BY <1>2, <2>3 DEF NodeT
  <2>6. Skips(x, x.nodes[n].targets) => IsEndingWithJmp(u) /\ u.last # "br_if"
    BY <2>3 DEF Skips, IsEndingWithJmp, JumpLike
  <2> QED BY <1>2, <1>4, <2>3, <2>4, <2>5, <2>6 DEF x
<1> QED BY <1>3, <1>4

\* What the code gets when a unit is added to it.
LEMMA UnitAddedIs ==
  ASSUME NEW u, CodeOK(u), NEW n \in Nat \ {0}, Len(u.nodes) = n, n < MaxUnits,
         NEW depth \in 1 .. MaxDepth, NEW type \in Types, NEW state \in States,
         NEW goal \in Places, NEW t \in TargetT, t.border # "branch", t.id <= n + 1,
         NEW skip \in BOOLEAN, skip => IsEndingWithJmp(u) /\ u.last # "br_if",
         NEW w, w = Border(Close(IF skip THEN u ELSE AddTarget(u, t), depth, type, state), goal)
  PROVE  UnitAdded(u, w, n, NewNode(w.size, depth, type, state), goal, t)
<1> DEFINE x  == IF skip THEN u ELSE AddTarget(u, t)
           nd == NewNode(w.size, depth, type, state)
           ts == u.nodes[n].targets
           xs == x.nodes[n].targets
<1>1. /\ u \in CodeT /\ Tiled(u) /\ RefsIn(u) /\ Agreed(u) /\ n \in 1 .. n /\ n + 1 \in 1 .. n + 1
      /\ n + 1 \in Nat
  BY DEF CodeOK
<1>2. /\ x \in CodeT /\ Len(x.nodes) = n /\ (\A i \in 1 .. n - 1 : x.nodes[i] = u.nodes[i])
      /\ x.nodes[n] \in NodeT /\ u.nodes[n] \in NodeT
      /\ x.nodes[n].offset = u.nodes[n].offset /\ x.nodes[n].depth = u.nodes[n].depth
      /\ x.nodes[n].type = u.nodes[n].type /\ x.nodes[n].state = u.nodes[n].state
      /\ xs = (IF skip THEN ts ELSE Append(ts, t))
      /\ x.refs = u.refs /\ x.size = u.size /\ x.tail = u.tail
      /\ x.last = u.last /\ x.ok = u.ok
      /\ skip => Skips(x, xs)
      /\ Skips(x, xs) => IsEndingWithJmp(u) /\ u.last # "br_if"
  BY LastUnitIs
<1>3. /\ u.nodes[n].offset <= u.size /\ (u.tail # "none" => u.nodes[n].offset < u.size)
      /\ u.nodes[n].offset \in Nat /\ u.size \in Nat /\ u.refs \in Seq(RefT)
      /\ DOMAIN u.nodes = 1 .. n /\ \A i \in 1 .. n : u.nodes[i] \in NodeT
  BY <1>1, <1>2, CodeParts, NodeParts DEF Tiled, LastNode
<1>4. PICK c \in Nat : /\ c = Len(ts) /\ DOMAIN ts = 1 .. c /\ c = Count(u, n)
                       /\ \A i \in 1 .. c : ts[i] \in TargetT /\ ts[i].border = "branch"
  <2>1. ts \in Seq(TargetT) /\ LastNode(u).targets = ts
    BY <1>2, NodeParts DEF LastNode
  <2>2. Count(u, n) = Len(ts) /\ \A i \in DOMAIN ts : ts[i].border = "branch"
    BY <1>1, <2>1 DEF Agreed
  <2>3. DOMAIN ts = 1 .. Len(ts) /\ Len(ts) \in Nat /\ \A i \in 1 .. Len(ts) : ts[i] \in TargetT
    <3> HIDE DEF ts
    <3> QED BY <2>1
  <2> QED BY <2>2, <2>3
<1> HIDE DEF x
<1>5. /\ skip => xs = ts
      /\ ~skip => xs \in Seq(TargetT) /\ Len(xs) = c + 1 /\ xs # << >> /\ xs[c + 1] = t
                  /\ \A i \in 1 .. c : xs[i] = ts[i]
  <2>1. ts \in Seq(TargetT)
    BY <1>2, NodeParts
  <2>2. CASE skip
    BY <1>2, <2>2
  <2>3. CASE ~skip
    <3>1. xs = Append(ts, t)
      BY <1>2, <2>3
    <3> HIDE DEF xs, ts
    <3> QED BY <1>4, <2>1, <2>3, <3>1
  <2> QED BY <2>2, <2>3
<1>6. UnitBegun(x, w, n, nd, goal)
  <2>1. x.nodes[n].offset <= x.size /\ (Skips(x, xs) \/ xs # << >>)
    BY <1>2, <1>3, <1>5
  <2> QED BY <1>2, <2>1, UnitBegunIs DEF x
<1>7. nd.depth = depth /\ nd.type = type /\ nd.state = state /\ nd.targets = << >> /\ nd.offset = w.size
  BY DEF NewNode
<1> HIDE DEF nd
<1>8. /\ w \in CodeT /\ Len(w.nodes) = n + 1 /\ w.nodes[n + 1] = nd /\ w.size \in Nat
      /\ w.refs \in Seq(RefT) /\ DOMAIN w.nodes = 1 .. n + 1
      /\ w.tail = "none" /\ w.last = u.last /\ w.ok = u.ok
  BY <1>2, <1>6, CodeParts DEF UnitBegun
<1>9. \A i \in 1 .. n :
        /\ w.nodes[i].offset = u.nodes[i].offset /\ w.nodes[i].depth = u.nodes[i].depth
        /\ w.nodes[i].type = u.nodes[i].type /\ w.nodes[i].state = u.nodes[i].state
        /\ w.nodes[i].targets = PatchedTs(nd, n + 1, x.nodes[i])
        /\ i < n => w.nodes[i].size = u.nodes[i].size /\ x.nodes[i] = u.nodes[i]
  <2> SUFFICES ASSUME NEW i \in 1 .. n
               PROVE  /\ w.nodes[i].offset = u.nodes[i].offset /\ w.nodes[i].depth = u.nodes[i].depth
                      /\ w.nodes[i].type = u.nodes[i].type /\ w.nodes[i].state = u.nodes[i].state
                      /\ w.nodes[i].targets = PatchedTs(nd, n + 1, x.nodes[i])
                      /\ i < n => w.nodes[i].size = u.nodes[i].size /\ x.nodes[i] = u.nodes[i]
    OBVIOUS
  <2>1. /\ w.nodes[i].offset = x.nodes[i].offset /\ w.nodes[i].depth = x.nodes[i].depth
        /\ w.nodes[i].type = x.nodes[i].type /\ w.nodes[i].state = x.nodes[i].state
        /\ w.nodes[i].targets = PatchedTs(nd, n + 1, x.nodes[i])
    BY <1>6 DEF UnitBegun
  <2>2. CASE i = n
    <3>1. ~(i < n)
      BY <2>2
    <3> QED BY <1>2, <2>1, <2>2, <3>1
  <2>3. CASE i # n
    <3>1. i \in 1 .. n - 1
      BY <2>3
    <3>2. x.nodes[i] = u.nodes[i] /\ w.nodes[i].size = x.nodes[i].size
      BY <1>2, <1>6, <3>1 DEF UnitBegun
    <3> QED BY <2>1, <3>2
  <2> QED BY <2>2, <2>3
<1>10. w.nodes[n].size = w.size - u.nodes[n].offset
  BY <1>2, <1>6 DEF UnitBegun
<1>11. PICK rs \in Seq(RefT) :
         /\ Longer(x, nd, n, rs, w.size, goal) /\ Len(w.refs) = Len(rs)
         /\ \A k \in 1 .. Len(rs) : w.refs[k] = PatchedR(nd, n + 1, rs[k])
  BY <1>6 DEF UnitBegun
<1>12. PICK m \in Nat : m = Len(u.refs) /\ DOMAIN u.refs = 1 .. m
  BY <1>1, CodeParts
<1> DEFINE p   == PatchedT(nd, n + 1, u.nodes[n].depth, t)
           lea == LeaNext(x, n, p, u.size, goal)
<1>13. p \in TargetT /\ p.border = t.border /\ p.depth = t.depth /\ p.id <= n + 1
  <2>1. p.id = n + 1 \/ p = t
    BY <1>1, PatchedTIs
  <2> QED BY <1>1, <2>1, PatchedTIs
<1>14. /\ lea \in RefT /\ Lea(lea) /\ lea.offset = u.size /\ lea.unit = n /\ lea.id = p.id
       /\ lea.type = p.type /\ lea.depth = u.nodes[n].depth - t.depth /\ lea.goal = goal
  <2>1. n \in DOMAIN x.nodes
    BY <1>1, <1>2, CodeParts
  <2> HIDE DEF p
  <2> QED BY <1>2, <1>3, <1>13, <2>1, LeaFields
<1>15. PatchedR(nd, n + 1, lea) = lea
  <2> HIDE DEF lea
  <2> QED BY <1>1, <1>14, PatchedTwice
<1> HIDE DEF lea, p
<1>16. PICK l \in Nat : l = Len(rs) /\ l = Len(w.refs) /\ DOMAIN rs = 1 .. l /\ DOMAIN w.refs = 1 .. l
  BY <1>8, <1>11
<1>17. \/ Skips(x, xs) /\ rs = u.refs /\ l = m /\ w.size = u.size
       \/ ~Skips(x, xs) /\ ~skip /\ Grown(u.refs, rs, lea) /\ l \in {m + 1, m + 2} /\ w.size = u.size + (l - m)
  <2>1. CASE Skips(x, xs)
    BY <1>2, <1>11, <1>12, <1>16, <2>1 DEF Longer
  <2>2. CASE ~Skips(x, xs)
    <3>1. ~skip
      BY <1>2, <2>2
    <3>2. PatchedT(nd, n + 1, x.nodes[n].depth, xs[Len(xs)]) = p
      BY <1>2, <1>5, <3>1 DEF p
    <3>3. Grown(u.refs, rs, lea) /\ w.size = u.size + (Len(rs) - Len(u.refs))
      BY <1>2, <1>11, <2>2, <3>2 DEF Longer, lea
    <3>4. l \in {m + 1, m + 2}
      BY <1>12, <1>16, <3>3 DEF Grown
    <3> QED BY <1>12, <1>16, <2>2, <3>1, <3>3, <3>4
  <2> QED BY <2>1, <2>2
<1>18. m <= l /\ u.size <= w.size /\ u.nodes[n].offset < w.size
  <2>1. CASE Skips(x, xs)
    <3>1. u.tail # "none"
      BY <1>2, <2>1 DEF IsEndingWithJmp, JumpLike
    <3> QED BY <1>3, <1>17, <2>1, <3>1
  <2>2. CASE ~Skips(x, xs)
    BY <1>3, <1>17, <2>2
  <2> QED BY <2>1, <2>2
<1>19. \A k \in 1 .. m : k \in 1 .. l /\ rs[k] = u.refs[k] /\ w.refs[k] = PatchedR(nd, n + 1, u.refs[k])
  <2>1. \A k \in 1 .. m : k \in 1 .. l
    BY <1>18
  <2>2. \A k \in 1 .. m : rs[k] = u.refs[k]
    BY <1>12, <1>17 DEF Grown
  <2> QED BY <1>11, <1>16, <2>1, <2>2
<1>20. ASSUME NEW k \in 1 .. l, k > m
       PROVE  /\ ~skip /\ ~Skips(x, xs) /\ Grown(u.refs, rs, lea)
              /\ k = m + 1 => w.refs[k] = lea /\ u.size < w.size
              /\ k # m + 1 => /\ u.size + 1 < w.size /\ ~Lea(w.refs[k]) /\ w.refs[k].id = 0
                              /\ w.refs[k].offset = u.size + 1 /\ w.refs[k].goal.part = "springboard"
  <2>1. ~Skips(x, xs) /\ ~skip /\ Grown(u.refs, rs, lea) /\ l \in {m + 1, m + 2} /\ w.size = u.size + (l - m)
    BY <1>17, <1>20
  <2>2. k = m + 1 \/ (k = m + 2 /\ l = m + 2 /\ k # m + 1 /\ k > m + 1)
    BY <1>20, <2>1
  <2>3. w.refs[k] = PatchedR(nd, n + 1, rs[k])
    BY <1>11, <1>16
  <2>4. CASE k = m + 1
    <3>1. rs[k] = lea
      BY <1>12, <2>1, <2>4 DEF Grown
    <3>2. u.size < w.size
      BY <1>3, <2>1
    <3> QED BY <1>15, <2>1, <2>3, <2>4, <3>1, <3>2
  <2>5. CASE k = m + 2 /\ l = m + 2 /\ k # m + 1 /\ k > m + 1
    <3> DEFINE spr == SpringboardNext(u.size + 1)
    <3>1. rs[k] = spr
      BY <1>12, <1>14, <1>16, <2>1, <2>5 DEF Grown
    <3>2. u.size + 1 < w.size /\ u.size + 1 \in Nat
      <4>1. PICK a \in Nat, b \in Nat : a = u.size /\ b = w.size
        BY <1>3, <1>8
      <4>2. b = a + ((m + 2) - m)
        BY <2>1, <2>5, <4>1
      <4>3. a + 1 < b /\ a + 1 \in Nat
        BY <4>2
      <4> QED BY <4>1, <4>3
    <3>3. spr \in RefT /\ ~Lea(spr) /\ spr.offset = u.size + 1 /\ spr.id = 0 /\ spr.goal.part = "springboard"
      BY <3>2, SpringboardFields
    <3> HIDE DEF spr
    <3>4. w.refs[k] = spr
      BY <1>1, <2>3, <3>1, <3>3, PatchedRIs
    <3> QED BY <2>1, <2>5, <3>2, <3>3, <3>4
  <2> QED BY <2>2, <2>4, <2>5
<1>21. /\ \A i : JumpsOf(w.refs, i) = JumpsOf(rs, i)
       /\ \A k \in 1 .. l : NthOf(w.refs, k) = NthOf(rs, k)
  <2>1. \A k \in 1 .. l : rs[k] \in RefT /\ w.refs[k] = PatchedR(nd, n + 1, rs[k])
    BY <1>11, <1>16
  <2>2. \A k \in 1 .. l : w.refs[k].kind = rs[k].kind /\ w.refs[k].unit = rs[k].unit
    BY <1>1, <2>1, PatchedRIs
  <2> QED BY <1>8, <1>16, <2>2, PatchedCounts
<1>22. /\ \A k \in 1 .. m : Lea(u.refs[k]) => NthOf(w.refs, k) = NthOf(u.refs, k)
       /\ \A i : i # n => JumpsOf(w.refs, i) = JumpsOf(u.refs, i)
       /\ l = m => Count(w, n) = c
       /\ l > m => NthOf(w.refs, m + 1) = c + 1 /\ Count(w, n) = c + 1
  <2>1. CASE l = m
    <3>1. rs = u.refs /\ ~(l > m)
      BY <1>17, <2>1
    <3>2. \A i : JumpsOf(w.refs, i) = JumpsOf(u.refs, i)
      BY <1>21, <3>1
    <3>3. Count(w, n) = c
      BY <1>4, <3>2 DEF Count
    <3>4. \A k \in 1 .. m : NthOf(w.refs, k) = NthOf(u.refs, k)
      BY <1>19, <1>21, <3>1
    <3> QED BY <3>1, <3>2, <3>3, <3>4
  <2>2. CASE l > m
    <3>1. Grown(u.refs, rs, lea) /\ m + 1 \in 1 .. l
      BY <1>17, <1>18, <2>2
    <3>2. /\ \A k \in 1 .. m : Lea(u.refs[k]) => NthOf(rs, k) = NthOf(u.refs, k)
          /\ NthOf(rs, m + 1) = c + 1
          /\ Cardinality(JumpsOf(rs, n)) = c + 1
          /\ \A i : i # n => JumpsOf(rs, i) = JumpsOf(u.refs, i)
      <4>1. u.refs \in Seq(RefT) /\ rs \in Seq(RefT) /\ lea \in RefT /\ Lea(lea)
        BY <1>3, <1>14
      <4>2. /\ lea.unit = n /\ m = Len(u.refs)
            /\ c = Cardinality(JumpsOf(u.refs, n))
        BY <1>4, <1>12, <1>14 DEF Count
      <4>3. /\ \A k \in 1 .. Len(u.refs) : Lea(u.refs[k]) => NthOf(rs, k) = NthOf(u.refs, k)
            /\ NthOf(rs, Len(u.refs) + 1) = Cardinality(JumpsOf(u.refs, lea.unit)) + 1
            /\ Cardinality(JumpsOf(rs, lea.unit)) = Cardinality(JumpsOf(u.refs, lea.unit)) + 1
            /\ \A i : i # lea.unit => JumpsOf(rs, i) = JumpsOf(u.refs, i)
        BY <3>1, <4>1, GrownCounts
      <4> QED BY <4>2, <4>3
    <3>3. \A k \in 1 .. m : Lea(u.refs[k]) => NthOf(w.refs, k) = NthOf(u.refs, k)
      <4> SUFFICES ASSUME NEW k \in 1 .. m, Lea(u.refs[k])
                   PROVE  NthOf(w.refs, k) = NthOf(u.refs, k)
        OBVIOUS
      <4>1. k \in 1 .. l
        BY <1>19
      <4>2. NthOf(w.refs, k) = NthOf(rs, k)
        BY <1>21, <4>1
      <4> QED BY <3>2, <4>2
    <3>4. \A i : i # n => JumpsOf(w.refs, i) = JumpsOf(u.refs, i)
      BY <1>21, <3>2
    <3>5. NthOf(w.refs, m + 1) = c + 1 /\ Count(w, n) = c + 1
      BY <1>21, <3>1, <3>2 DEF Count
    <3> QED BY <2>2, <3>3, <3>4, <3>5
  <2> QED BY <1>18, <2>1, <2>2
<1>23. Tiled(w)
  <2>1. \A i \in 1 .. n : /\ w.nodes[i].offset < w.nodes[i + 1].offset
                         /\ w.nodes[i].size = w.nodes[i + 1].offset - w.nodes[i].offset
    <3> SUFFICES ASSUME NEW i \in 1 .. n
                 PROVE  /\ w.nodes[i].offset < w.nodes[i + 1].offset
                        /\ w.nodes[i].size = w.nodes[i + 1].offset - w.nodes[i].offset
      OBVIOUS
    <3>1. CASE i = n
      BY <1>7, <1>8, <1>9, <1>10, <1>18, <3>1
    <3>2. CASE i # n
      <4>1. i \in 1 .. n - 1 /\ i < n /\ i + 1 \in 1 .. n
        BY <3>2
      <4> QED BY <1>1, <1>9, <4>1 DEF Tiled
    <3> QED BY <3>1, <3>2
  <2>2. n + 1 \in 1 .. MaxUnits /\ 1 \in 1 .. n /\ n + 1 - 1 = n
    BY CodeUnitsAssumption
  <2>3. w.nodes[1].offset = 0
    BY <1>1, <1>9, <2>2 DEF Tiled
  <2>4. LastNode(w).offset <= w.size
    BY <1>7, <1>8 DEF LastNode
  <2>5. Len(w.nodes) - 1 = n /\ ~(w.tail # "none")
    BY <1>8, <2>2
  <2> QED BY <1>8, <2>1, <2>2, <2>3, <2>4, <2>5 DEF Tiled
<1>24. RefsIn(w)
  <2> SUFFICES ASSUME NEW k \in 1 .. l PROVE RefIn(w, w.refs[k])
    BY <1>16 DEF RefsIn
  <2>0. UnitEnd(w, n) = w.size
    BY <1>7, <1>8 DEF UnitEnd
  <2>1. CASE k \in 1 .. m
    <3> DEFINE r == u.refs[k]
               q == w.refs[k]
    <3>1. r \in RefT /\ RefIn(u, r) /\ q = PatchedR(nd, n + 1, r)
      BY <1>1, <1>12, <1>19, <2>1, CodeParts DEF RefsIn
    <3>2. q.kind = r.kind /\ q.offset = r.offset /\ q.unit = r.unit /\ (q.id = n + 1 \/ q.id = r.id)
      BY <1>1, <3>1, PatchedRIs
    <3>3. r.offset \in Nat /\ r.offset < u.size /\ r.id \in Nat /\ r.id <= n
      BY <3>1 DEF RefT, RefIn
    <3>4. r.offset < w.size /\ q.id <= n + 1
      <4>1. r.offset < w.size
        <5>1. PICK a \in Nat, b \in Nat, e \in Nat : a = r.offset /\ b = u.size /\ e = w.size
          BY <1>3, <1>8, <3>3
        <5>2. a < b /\ b <= e
          BY <1>18, <3>3, <5>1
        <5>3. a < e
          BY <5>2
        <5> QED BY <5>1, <5>3
      <4>2. r.id <= n + 1 /\ n + 1 <= n + 1
        BY <3>3
      <4> QED BY <3>2, <4>1, <4>2
    <3>5. ASSUME Lea(r) PROVE r.unit \in 1 .. n + 1 /\ w.nodes[r.unit].offset <= r.offset /\ r.offset < UnitEnd(w, r.unit)
      <4>1. r.unit \in 1 .. n /\ u.nodes[r.unit].offset <= r.offset /\ r.offset < UnitEnd(u, r.unit)
        BY <3>1, <3>5 DEF RefIn
      <4>2. CASE r.unit = n
        <5>1. n \in 1 .. n + 1 /\ n \in 1 .. n
          OBVIOUS
        <5>2. w.nodes[n].offset = u.nodes[n].offset
          BY <1>9, <5>1
        <5> QED BY <2>0, <3>4, <4>1, <4>2, <5>1, <5>2
      <4>3. CASE r.unit # n
        <5>1. r.unit + 1 \in 1 .. n /\ r.unit < n /\ r.unit < n + 1
          BY <4>1, <4>3
        <5>2. /\ UnitEnd(w, r.unit) = w.nodes[r.unit + 1].offset
              /\ UnitEnd(u, r.unit) = u.nodes[r.unit + 1].offset
          BY <1>8, <5>1 DEF UnitEnd
        <5>3. w.nodes[r.unit + 1].offset = u.nodes[r.unit + 1].offset
          BY <1>9, <5>1
        <5>4. w.nodes[r.unit].offset = u.nodes[r.unit].offset
          BY <1>9, <4>1
        <5>5. r.unit \in 1 .. n + 1
          BY <4>1
        <5> HIDE DEF r
        <5> QED BY <4>1, <5>2, <5>3, <5>4, <5>5
      <4>4. r.unit \in 1 .. n + 1
        BY <4>1
      <4> HIDE DEF r
      <4> QED BY <4>2, <4>3, <4>4
    <3> HIDE DEF r, q
    <3>6. RefIn(w, q)
      BY <1>8, <3>2, <3>4, <3>5 DEF RefIn, Lea
    <3> QED BY <3>6 DEF q
  <2>2. CASE k > m /\ k = m + 1
    <3>1. w.refs[k] = lea /\ u.size < w.size
      BY <1>20, <2>2
    <3>2. n \in 1 .. n + 1
      OBVIOUS
    <3>3. w.nodes[n].offset = u.nodes[n].offset
      BY <1>1, <1>9
    <3>4. /\ lea.offset < w.size /\ lea.id <= Len(w.nodes) /\ lea.unit \in 1 .. Len(w.nodes)
          /\ w.nodes[lea.unit].offset <= lea.offset /\ lea.offset < UnitEnd(w, lea.unit)
      BY <1>3, <1>8, <1>13, <1>14, <2>0, <3>1, <3>2, <3>3
    <3> QED BY <3>1, <3>4 DEF RefIn
  <2>3. CASE k > m /\ k # m + 1
    <3>1. /\ u.size + 1 < w.size /\ ~Lea(w.refs[k]) /\ w.refs[k].id = 0
          /\ w.refs[k].offset = u.size + 1
      BY <1>20, <2>3
    <3>2. 0 <= n + 1
      OBVIOUS
    <3> QED BY <1>8, <3>1, <3>2 DEF RefIn
  <2>4. k \in 1 .. m \/ k > m
    OBVIOUS
  <2> QED BY <2>1, <2>2, <2>3, <2>4
<1>25. /\ \A i \in 1 .. n : DOMAIN w.nodes[i].targets = DOMAIN x.nodes[i].targets
       /\ \A i \in 1 .. n : \A j \in DOMAIN x.nodes[i].targets :
            w.nodes[i].targets[j] = PatchedT(nd, n + 1, u.nodes[i].depth, x.nodes[i].targets[j])
  <2> SUFFICES ASSUME NEW i \in 1 .. n
               PROVE  /\ DOMAIN w.nodes[i].targets = DOMAIN x.nodes[i].targets
                      /\ \A j \in DOMAIN x.nodes[i].targets :
                           w.nodes[i].targets[j] = PatchedT(nd, n + 1, u.nodes[i].depth, x.nodes[i].targets[j])
    OBVIOUS
  <2>1. x.nodes[i] \in NodeT /\ x.nodes[i].depth = u.nodes[i].depth
    <3>1. i = n \/ i < n
      OBVIOUS
    <3> QED BY <1>2, <1>3, <1>9, <3>1
  <2>2. w.nodes[i].targets = PatchedTs(nd, n + 1, x.nodes[i])
    BY <1>9
  <2> QED BY <1>1, <2>1, <2>2, PatchedTsIs
<1>26. ASSUME NEW k \in 1 .. l, Lea(w.refs[k])
       PROVE  LET b == w.nodes[w.refs[k].unit]
                  i == NthOf(w.refs, k)
              IN  i \in DOMAIN b.targets /\ SameTarget(w.refs[k], b, b.targets[i])
  <2>1. CASE k \in 1 .. m
    <3> DEFINE r == u.refs[k]
               a == u.nodes[r.unit]
               i == NthOf(u.refs, k)
    <3>1. r \in RefT /\ RefIn(u, r) /\ w.refs[k] = PatchedR(nd, n + 1, r)
      BY <1>1, <1>12, <1>19, <2>1, CodeParts DEF RefsIn
    <3>2. Lea(r) /\ w.refs[k].unit = r.unit
      BY <1>1, <1>26, <3>1, PatchedRIs DEF Lea
    <3>3. r.unit \in 1 .. n /\ NthOf(w.refs, k) = i
      BY <1>22, <2>1, <3>1, <3>2 DEF RefIn
    <3>4. i \in DOMAIN a.targets /\ SameTarget(r, a, a.targets[i])
      BY <1>1, <1>12, <2>1, <3>2 DEF Agreed
    <3>5. i \in DOMAIN x.nodes[r.unit].targets /\ x.nodes[r.unit].targets[i] = a.targets[i]
      <4>1. CASE r.unit = n
        <5>1. i \in 1 .. c
          BY <1>4, <3>4, <4>1
        <5>2. i \in 1 .. c + 1
          BY <5>1
        <5>3. i \in DOMAIN xs /\ xs[i] = ts[i]
          <6> HIDE DEF i, xs, ts
          <6> QED BY <1>4, <1>5, <5>1, <5>2
        <5> QED BY <4>1, <5>3
      <4>2. CASE r.unit # n
        <5>1. r.unit < n
          BY <3>3, <4>2
        <5> QED BY <1>9, <3>3, <3>4, <5>1
      <4> QED BY <4>1, <4>2
    <3>6. a \in NodeT /\ a.targets[i] \in TargetT /\ w.nodes[r.unit] \in NodeT /\ w.nodes[r.unit].depth = a.depth
      <4>1. a \in NodeT /\ a.targets[i] \in TargetT
        BY <1>3, <3>3, <3>4, NodeParts
      <4>2. r.unit \in 1 .. n + 1
        BY <3>3
      <4> QED BY <1>8, <1>9, <3>3, <4>1, <4>2, CodeParts
    <3> HIDE DEF r, a, i
    <3>7. SameTarget(PatchedR(nd, n + 1, r), w.nodes[r.unit], PatchedT(nd, n + 1, a.depth, a.targets[i]))
      BY <1>1, <3>1, <3>2, <3>4, <3>6, PatchedAlike
    <3>8. i \in DOMAIN w.nodes[r.unit].targets /\ w.nodes[r.unit].targets[i] = PatchedT(nd, n + 1, a.depth, a.targets[i])
      BY <1>25, <3>3, <3>5 DEF a
    <3> QED BY <3>1, <3>2, <3>3, <3>7, <3>8
  <2>2. CASE k > m
    <3>1. k = m + 1 /\ w.refs[k] = lea /\ ~skip /\ l > m
      BY <1>20, <1>26, <2>2
    <3>2. NthOf(w.refs, k) = c + 1 /\ c + 1 \in 1 .. c + 1
      BY <1>22, <3>1
    <3>3. DOMAIN xs = 1 .. c + 1 /\ xs[c + 1] = t
      BY <1>5, <3>1
    <3>4. c + 1 \in DOMAIN w.nodes[n].targets /\ w.nodes[n].targets[c + 1] = p
      BY <1>1, <1>25, <3>2, <3>3 DEF p
    <3>5. SameTarget(lea, w.nodes[n], p)
      BY <1>1, <1>9, <1>13, <1>14 DEF SameTarget
    <3> QED BY <1>14, <3>1, <3>2, <3>4, <3>5
  <2>3. k \in 1 .. m \/ k > m
    OBVIOUS
  <2> QED BY <2>1, <2>2, <2>3
<1>27. ASSUME NEW i \in 1 .. n + 1, NEW j \in DOMAIN w.nodes[i].targets
       PROVE  /\ w.nodes[i].targets[j].id <= n + 1
              /\ j > Count(w, i) => w.nodes[i].targets[j].border # "branch"
  <2>1. i # n + 1
    BY <1>7, <1>8, <1>27
  <2>2. i \in 1 .. n
    BY <2>1
  <2> DEFINE a == x.nodes[i].targets[j]
             b == w.nodes[i].targets[j]
  <2>3. j \in DOMAIN x.nodes[i].targets /\ b = PatchedT(nd, n + 1, u.nodes[i].depth, a)
    BY <1>25, <1>27, <2>2
  <2>4. /\ a \in TargetT /\ a.id <= n + 1
        /\ j > Count(w, i) => a.border # "branch"
    <3>1. CASE i = n
      <4>1. \A h \in 1 .. c : ts[h].id \in Nat /\ ts[h].id <= n
        BY <1>1, <1>3, <1>4 DEF Agreed, TargetT
      <4>2. \A h \in 1 .. c : ts[h].id <= n + 1
        BY <4>1
      <4>3. Count(w, n) = c \/ Count(w, n) = c + 1
        BY <1>18, <1>22
      <4>4. j \in 1 .. c \/ (~skip /\ j = c + 1)
        <5>1. j \in DOMAIN xs
          BY <2>3, <3>1
        <5>2. CASE skip
          BY <1>4, <1>5, <5>1, <5>2
        <5>3. CASE ~skip
          <6>1. DOMAIN xs = 1 .. c + 1
            BY <1>5, <5>3
          <6> HIDE DEF xs
          <6> QED BY <5>1, <5>3, <6>1
        <5> QED BY <5>2, <5>3
      <4>5. j \in 1 .. c => ~(j > Count(w, n))
        BY <4>3
      <4>6. CASE j \in 1 .. c
        <5>1. a = ts[j]
          BY <1>5, <3>1, <4>6
        <5> QED BY <1>4, <3>1, <4>2, <4>5, <4>6, <5>1
      <4>7. CASE ~skip /\ j = c + 1
        <5>1. a = t
          BY <1>5, <3>1, <4>7
        <5>2. t.border # "branch" /\ t.id <= n + 1
          OBVIOUS
        <5> QED BY <5>1, <5>2
      <4> QED BY <4>4, <4>6, <4>7
    <3>2. CASE i # n
      <4>1. x.nodes[i] = u.nodes[i] /\ Count(w, i) = Count(u, i)
        BY <1>9, <1>22, <2>2, <3>2 DEF Count
      <4>2. /\ u.nodes[i].targets[j].id <= n
            /\ j > Count(u, i) => u.nodes[i].targets[j].border # "branch"
        BY <1>1, <1>3, <2>2, <2>3, <4>1 DEF Agreed
      <4>3. u.nodes[i].targets[j] \in TargetT
        BY <1>3, <2>2, <2>3, <4>1, NodeParts
      <4>4. u.nodes[i].targets[j].id <= n + 1
        <5>1. PICK e \in Nat : e = u.nodes[i].targets[j].id
          BY <4>3 DEF TargetT
        <5>2. e <= n + 1
          BY <4>2, <5>1
        <5> QED BY <5>1, <5>2
      <4>5. a = u.nodes[i].targets[j]
        BY <4>1
      <4>6. j > Count(w, i) => a.border # "branch"
        BY <4>1, <4>2, <4>5
      <4> HIDE DEF a
      <4> QED BY <4>3, <4>4, <4>5, <4>6
    <3> QED BY <3>1, <3>2
  <2> HIDE DEF a, b
  <2>5. b.border = a.border /\ (b.id = n + 1 \/ b = a)
    BY <1>1, <2>3, <2>4, PatchedTIs
  <2>6. b.id <= n + 1
    BY <1>1, <2>4, <2>5
  <2> QED BY <2>4, <2>5, <2>6 DEF b
<1>28. Count(w, n + 1) = 0
  <2>1. JumpsOf(u.refs, n + 1) = {}
    <3>1. \A k \in 1 .. m : Lea(u.refs[k]) => u.refs[k].unit \in 1 .. n
      BY <1>1, <1>12 DEF RefsIn, RefIn
    <3> QED BY <1>12, <3>1 DEF JumpsOf
  <2>2. n + 1 # n
    OBVIOUS
  <2> QED BY <1>22, <2>1, <2>2, FS_EmptySet DEF Count
<1>29. Agreed(w)
  <2>1. LastNode(w).targets = << >> /\ Len(LastNode(w).targets) = 0 /\ DOMAIN LastNode(w).targets = {}
    BY <1>7, <1>8 DEF LastNode
  <2>2. \A k \in DOMAIN w.refs : Lea(w.refs[k]) =>
          LET b == w.nodes[w.refs[k].unit]
              i == NthOf(w.refs, k)
          IN  i \in DOMAIN b.targets /\ SameTarget(w.refs[k], b, b.targets[i])
    BY <1>16, <1>26
  <2>3. \A i \in DOMAIN w.nodes : \A j \in DOMAIN w.nodes[i].targets :
          /\ w.nodes[i].targets[j].id <= Len(w.nodes)
          /\ j > Count(w, i) => w.nodes[i].targets[j].border # "branch"
    BY <1>8, <1>27
  <2>4. /\ Count(w, Len(w.nodes)) = Len(LastNode(w).targets)
        /\ \A j \in DOMAIN LastNode(w).targets : LastNode(w).targets[j].border = "branch"
    BY <1>8, <1>28, <2>1
  <2> QED BY <2>2, <2>3, <2>4 DEF Agreed
<1>30. CodeOK(w)
  BY <1>8, <1>23, <1>24, <1>29 DEF CodeOK
<1>31. \A k \in 1 .. l : k > m =>
         IF k = m + 1
         THEN /\ Lea(w.refs[k]) /\ w.refs[k].unit = n /\ w.refs[k].goal = goal
              /\ t.type = "known" => w.refs[k].type = "known" /\ w.refs[k].id = t.id
         ELSE ~Lea(w.refs[k]) /\ w.refs[k].goal.part = "springboard"
  <2> SUFFICES ASSUME NEW k \in 1 .. l, k > m
               PROVE  IF k = m + 1
                      THEN /\ Lea(w.refs[k]) /\ w.refs[k].unit = n /\ w.refs[k].goal = goal
                           /\ t.type = "known" => w.refs[k].type = "known" /\ w.refs[k].id = t.id
                      ELSE ~Lea(w.refs[k]) /\ w.refs[k].goal.part = "springboard"
    OBVIOUS
  <2>1. t.type = "known" => p.type = "known" /\ p.id = t.id
    BY <1>1, KnownStays, PatchedTIs DEF p
  <2>2. CASE k = m + 1
    <3>1. w.refs[k] = lea
      BY <1>20, <2>2
    <3>2. t.type = "known" => lea.type = "known" /\ lea.id = t.id
      BY <1>14, <2>1
    <3> QED BY <1>14, <2>2, <3>1, <3>2
  <2>3. CASE k # m + 1
    BY <1>20, <2>3
  <2> QED BY <2>2, <2>3
<1>32. ~(IsEndingWithJmp(u) /\ u.last # "br_if") => m + 1 <= l
  BY <1>2, <1>17
<1> HIDE DEF x, nd
<1>33. UnitAdded(u, w, n, nd, goal, t)
  <2>1. /\ CodeOK(w) /\ Len(w.nodes) = n + 1 /\ w.nodes[n + 1] = nd
        /\ w.tail = "none" /\ w.last = u.last /\ w.ok = u.ok
    BY <1>8, <1>30
  <2>2. \A i \in 1 .. n : /\ w.nodes[i].depth = u.nodes[i].depth /\ w.nodes[i].type = u.nodes[i].type
                         /\ w.nodes[i].state = u.nodes[i].state
    BY <1>9
  <2>3. /\ Len(u.refs) <= Len(w.refs)
        /\ \A k \in 1 .. Len(u.refs) : w.refs[k] = PatchedR(nd, n + 1, u.refs[k])
    BY <1>12, <1>16, <1>18, <1>19
  <2>4. /\ \A k \in 1 .. Len(w.refs) : k > Len(u.refs) =>
             IF k = Len(u.refs) + 1
             THEN /\ Lea(w.refs[k]) /\ w.refs[k].unit = n /\ w.refs[k].goal = goal
                  /\ t.type = "known" => w.refs[k].type = "known" /\ w.refs[k].id = t.id
             ELSE ~Lea(w.refs[k]) /\ w.refs[k].goal.part = "springboard"
        /\ ~(IsEndingWithJmp(u) /\ u.last # "br_if") => Len(u.refs) + 1 <= Len(w.refs)
    BY <1>12, <1>16, <1>31, <1>32
  <2> QED BY <2>1, <2>2, <2>3, <2>4 DEF UnitAdded
<1> QED BY <1>33 DEF nd

-----------------------------------------------------------------------------
(* What stays sound while the code grows within its last unit. *)

SameUnits(u, w) ==
  /\ Len(w.nodes) = Len(u.nodes)
  /\ \A i \in 1 .. Len(u.nodes) :
       /\ w.nodes[i].depth = u.nodes[i].depth /\ w.nodes[i].type = u.nodes[i].type
       /\ w.nodes[i].state = u.nodes[i].state

LEMMA NestedKept ==
  ASSUME NEW u, NEW w, NEW ctl, SameUnits(u, w), Nested(u, ctl), Len(u.nodes) \in Nat \ {0}
  PROVE  Nested(w, ctl)
<1>1. PICK n \in Nat \ {0} : n = Len(u.nodes) /\ n = Len(w.nodes)
  BY DEF SameUnits
<1>2. \A i \in 1 .. n : /\ w.nodes[i].depth = u.nodes[i].depth /\ w.nodes[i].type = u.nodes[i].type
                        /\ w.nodes[i].state = u.nodes[i].state
  BY <1>1 DEF SameUnits
<1>3. ASSUME NEW c, NEW i, NEW s \in Nat, Begins(u, c, i, s) PROVE Begins(w, c, i, s)
  <2>1. s \in 1 .. n /\ \A j \in s + 1 .. n : j \in 1 .. n
    BY <1>1, <1>3 DEF Begins
  <2> QED BY <1>1, <1>2, <1>3, <2>1 DEF Begins
<1>4. LastNode(w).depth = LastNode(u).depth
  <2>1. n \in 1 .. n
    OBVIOUS
  <2> QED BY <1>1, <1>2, <2>1 DEF LastNode
<1> QED BY <1>3, <1>4 DEF Nested

\* Only the fields of the blocks that nothing here depends on change.
SameBlocks(ctl, ctl2) ==
  /\ ctl2 \in Seq(BlockT) /\ Len(ctl2) = Len(ctl)
  /\ \A i \in 1 .. Len(ctl) : /\ ctl2[i].id = ctl[i].id /\ ctl2[i].type = ctl[i].type
                              /\ ctl2[i].inner = ctl[i].inner

LEMMA BlocksKept ==
  ASSUME NEW u, NEW ctl, NEW ctl2, NEW bnd, Sound(u, ctl, bnd), SameBlocks(ctl, ctl2)
  PROVE  Sound(u, ctl2, bnd)
<1>1. PICK d \in Nat : /\ d = Len(ctl) /\ d = Len(ctl2) /\ DOMAIN ctl = 1 .. d /\ DOMAIN ctl2 = 1 .. d
                       /\ ctl \in Seq(BlockT) /\ ctl2 \in Seq(BlockT)
  BY DEF Sound, Nested, SameBlocks
<1>2. \A i \in 1 .. d : /\ ctl2[i].id = ctl[i].id /\ ctl2[i].type = ctl[i].type
                        /\ ctl2[i].inner = ctl[i].inner
  BY <1>1 DEF SameBlocks
<1>3. Nested(u, ctl2)
  <2>1. \A i \in 1 .. d : \A s : Begins(u, ctl[i], i, s) => Begins(u, ctl2[i], i, s)
    BY <1>2 DEF Begins
  <2>2. ctl2 # << >> => ctl # << >>
    BY <1>1
  <2> QED BY <1>1, <1>2, <2>1, <2>2 DEF Sound, Nested
<1>4. PlacesOK(u, ctl2, bnd)
  BY <1>1, <1>2 DEF Sound, PlacesOK
<1>5. \A r, types, blocks : Waits(r, ctl, bnd, types, blocks) => Waits(r, ctl2, bnd, types, blocks)
  <2>1. \A i \in 2 .. d : i \in 1 .. d
    OBVIOUS
  <2> QED BY <1>1, <1>2, <2>1 DEF Waits
<1>6. AllAimed(u, ctl2, bnd)
  BY <1>5 DEF Sound, AllAimed, Aimed
<1> QED BY <1>3, <1>4, <1>6 DEF Sound

LEMMA EmitSound ==
  ASSUME NEW u, NEW ctl, NEW bnd, Sound(u, ctl, bnd), NEW tail \in Tails \ {"none"}
  PROVE  /\ Sound(Emit(u, tail), ctl, bnd) /\ Emit(u, tail).nodes = u.nodes
         /\ Emit(u, tail).tail = tail /\ Emit(u, tail).last = u.last
<1> DEFINE w == Emit(u, tail)
<1>1. u \in CodeT /\ CodeOK(u) /\ tail \in Tails
  BY DEF Sound, CodeOK
<1>2. /\ w \in CodeT /\ w.nodes = u.nodes /\ w.refs = u.refs /\ w.size = u.size + 1
      /\ w.tail = tail /\ w.last = u.last /\ w.ok = u.ok
  BY <1>1, EmitFields
<1> HIDE DEF w
<1>3. PICK n \in Nat \ {0} : n = Len(u.nodes)
  BY <1>1 DEF CodeOK, Tiled
<1>4. u.size \in Nat /\ w.size \in Nat /\ u.nodes[n] \in NodeT /\ LastNode(u) = u.nodes[n] /\ LastNode(w) = LastNode(u)
  BY <1>1, <1>2, <1>3, CodeParts DEF LastNode
<1>5. LastNode(u).offset \in Nat
  BY <1>4, NodeParts
<1>6. Tiled(w)
  <2>1. LastNode(w).offset <= w.size /\ LastNode(w).offset < w.size
    <3>1. LastNode(u).offset <= u.size
      BY <1>1 DEF CodeOK, Tiled
    <3> QED BY <1>2, <1>4, <1>5, <3>1
  <2> QED BY <1>1, <1>2, <2>1 DEF CodeOK, Tiled
<1>7. RefsIn(w)
  <2> SUFFICES ASSUME NEW k \in DOMAIN u.refs PROVE RefIn(w, u.refs[k])
    BY <1>2 DEF RefsIn
  <2> DEFINE r == u.refs[k]
  <2>1. r \in RefT /\ RefIn(u, r)
    BY <1>1, CodeParts DEF CodeOK, RefsIn
  <2>2. r.offset \in Nat /\ r.offset < u.size /\ r.id <= n
    BY <1>3, <2>1 DEF RefT, RefIn
  <2>3. r.offset < w.size
    BY <1>2, <1>4, <2>2
  <2>4. Lea(r) => r.unit \in 1 .. n /\ u.nodes[r.unit].offset <= r.offset /\ r.offset < UnitEnd(u, r.unit)
    BY <1>3, <2>1 DEF RefIn
  <2>5. Lea(r) => r.offset < UnitEnd(w, r.unit)
    BY <1>2, <1>3, <2>3, <2>4 DEF UnitEnd
  <2> HIDE DEF r
  <2> QED BY <1>2, <1>3, <2>2, <2>3, <2>4, <2>5 DEF RefIn, r
<1>8. Agreed(w)
  BY <1>1, <1>2, <1>4 DEF CodeOK, Agreed, Count
<1>9. CodeOK(w)
  BY <1>2, <1>6, <1>7, <1>8 DEF CodeOK
<1>10. Nested(w, ctl)
  BY <1>2, <1>3, NestedKept DEF Sound, SameUnits
<1> QED BY <1>2, <1>9, <1>10 DEF Sound, PlacesOK, AllAimed, Aimed, Chained, w

LEMMA BranchSound ==
  ASSUME NEW u, NEW ctl, NEW bnd, Sound(u, ctl, bnd), NEW k \in Nat, NEW op \in Ops,
         NEW tail \in Tails \ {"none"}, NEW goal \in Places,
         NEW t \in TargetT, t.border = "branch", t.id <= Len(u.nodes), NotedTarget(u, op, k, t),
         Aimed(LeaNext(u, Len(u.nodes), t, u.size, goal), u, ctl, bnd)
  PROVE  LET w == Branch(u, op, tail, k, goal)
         IN  Sound(w, ctl, bnd) /\ w.tail = tail /\ w.last = op /\ SameUnits(u, w)
<1> DEFINE w == Branch(u, op, tail, k, goal)
           lea == LeaNext(u, Len(u.nodes), t, u.size, goal)
<1>1. u \in CodeT /\ CodeOK(u) /\ u.ok /\ tail \in Tails
  BY DEF Sound, CodeOK
<1>2. PICK n \in Nat \ {0} : n = Len(u.nodes)
  BY <1>1 DEF CodeOK, Tiled
<1>3. Branched(u, w, t, goal) /\ w.tail = tail /\ w.last = op
  BY <1>1, <1>2, BranchFields
<1>4. CodeOK(w)
  BY <1>1, BranchCodeOK
<1> HIDE DEF w
<1>5. w.ok /\ Len(w.nodes) = n /\ Grown(u.refs, w.refs, lea) /\ w.refs \in Seq(RefT)
  BY <1>2, <1>3, CodeParts DEF Branched, LastGets
<1>6. SameUnits(u, w)
  <2>1. (\A i \in 1 .. n - 1 : w.nodes[i] = u.nodes[i])
        /\ w.nodes[n] = [u.nodes[n] EXCEPT !.targets = Append(u.nodes[n].targets, t)]
    BY <1>2, <1>3 DEF Branched, LastGets
  <2>2. u.nodes[n] \in NodeT
    BY <1>1, <1>2, CodeParts
  <2>3. /\ w.nodes[n].depth = u.nodes[n].depth /\ w.nodes[n].type = u.nodes[n].type
        /\ w.nodes[n].state = u.nodes[n].state
    BY <2>1, <2>2 DEF NodeT
  <2>4. \A i \in 1 .. n : i = n \/ i \in 1 .. n - 1
    OBVIOUS
  <2> QED BY <1>2, <1>5, <2>1, <2>3, <2>4 DEF SameUnits
<1>7. Nested(w, ctl)
  BY <1>2, <1>6, NestedKept DEF Sound
<1>8. PlacesOK(w, ctl, bnd)
  BY <1>2, <1>5 DEF Sound, PlacesOK
<1>9. PICK m \in Nat : m = Len(u.refs) /\ DOMAIN u.refs = 1 .. m
  BY <1>1, CodeParts
<1>10. PICK l \in {m + 1, m + 2} : l = Len(w.refs) /\ DOMAIN w.refs = 1 .. l
  BY <1>5, <1>9 DEF Grown
<1>11. \A j \in 1 .. m : j \in 1 .. l /\ w.refs[j] = u.refs[j]
  BY <1>5, <1>9 DEF Grown
<1>12. AllAimed(w, ctl, bnd)
  <2> SUFFICES ASSUME NEW j \in 1 .. l PROVE Aimed(w.refs[j], w, ctl, bnd)
    BY <1>10 DEF AllAimed
  <2>1. \A r : Aimed(r, u, ctl, bnd) => Aimed(r, w, ctl, bnd)
    BY <1>2, <1>5 DEF Aimed
  <2>2. CASE j \in 1 .. m
    BY <1>9, <1>11, <2>1, <2>2 DEF Sound, AllAimed
  <2>3. CASE j = m + 1
    BY <1>5, <1>9, <2>1, <2>3 DEF Grown
  <2>4. CASE j > m + 1
    <3>1. w.refs[j] = SpringboardNext(lea.offset + 1)
      BY <1>5, <1>9, <1>10, <2>4 DEF Grown
    <3>2. lea.offset + 1 \in Nat
      <4>1. lea.offset = u.size /\ u.size \in Nat
        BY <1>1, CodeParts DEF LeaNext
      <4> QED BY <4>1
    <3> QED BY <3>1, <3>2, SpringboardFields DEF Aimed
  <2> QED BY <2>2, <2>3, <2>4
<1>13. Chained(w, bnd)
  BY <1>9, <1>10, <1>11 DEF Sound, Chained
<1> QED BY <1>3, <1>4, <1>5, <1>6, <1>7, <1>8, <1>12, <1>13 DEF Sound, w

-----------------------------------------------------------------------------
(* What stays sound when a unit is added. *)

LEMMA OnToIs ==
  ASSUME NEW u, NEW n \in Nat \ {0}, Len(u.nodes) = n, n < MaxUnits, NEW falls \in BOOLEAN
  PROVE  LET l == OnTo(falls, u)
         IN  /\ l \in Places /\ l.of = n + 1 /\ l.part \in {"dead", "dropped", "next"}
             /\ ~falls => l.part = "dead"
             /\ l.part = "next" => falls /\ ~TakenForJump(u)
<1>1. n + 1 \in 0 .. MaxUnits
  BY CodeUnitsAssumption
<1>2. {"dead", "dropped", "next"} \subseteq Parts
  BY DEF Parts
<1> QED BY <1>1, <1>2, LabelFields DEF OnTo

LEMMA StartAdded ==
  ASSUME NEW u, CodeOK(u), NEW n \in Nat \ {0}, Len(u.nodes) = n, n < MaxUnits,
         NEW depth \in 1 .. MaxDepth, NEW type \in Types, NEW falls \in BOOLEAN
  PROVE  LET w == StartUnit(u, type, depth, falls)
         IN  UnitAdded(u, w, n, NewNode(w.size, depth, type, "controlStart"),
                       OnTo(falls, u), AtStart(u, type))
<1> DEFINE t    == AtStart(u, type)
           skip == IsEndingWithJmp(u) /\ u.last # "br_if" /\ type # "block"
<1>1. /\ t \in TargetT /\ t.border # "branch" /\ t.id <= n + 1
  <2>1. CASE LastNode(u).state = "controlStart" /\ type = "else"
    <3>1. t = [id |-> 0, type |-> "elseUnknown", depth |-> 0, border |-> type]
      BY <2>1 DEF AtStart, NewTarget
    <3> QED BY <3>1 DEF TargetT, TargetTypes, Unknown, Borders, Types
  <2>2. CASE ~(LastNode(u).state = "controlStart" /\ type = "else")
    <3>1. t = [id |-> n + 1, type |-> "known", depth |-> 0, border |-> type]
      BY <2>2 DEF AtStart, NewTarget
    <3>2. n + 1 \in Nat /\ n + 1 <= n + 1
      OBVIOUS
    <3> QED BY <3>1, <3>2 DEF TargetT, TargetTypes, Borders, Types
  <2> QED BY <2>1, <2>2
<1>2. skip \in BOOLEAN /\ (skip => IsEndingWithJmp(u) /\ u.last # "br_if")
  OBVIOUS
<1>3. OnTo(falls, u) \in Places /\ "controlStart" \in States
  BY OnToIs DEF States
<1>4. StartUnit(u, type, depth, falls) =
        Border(Close(IF skip THEN u ELSE AddTarget(u, t), depth, type, "controlStart"), OnTo(falls, u))
  BY DEF StartUnit, ControlStart
<1> HIDE DEF skip, t
<1>5. UnitAdded(u, StartUnit(u, type, depth, falls), n,
                NewNode(StartUnit(u, type, depth, falls).size, depth, type, "controlStart"),
                OnTo(falls, u), t)
  BY <1>1, <1>2, <1>3, <1>4, UnitAddedIs
<1> QED BY <1>5 DEF t

LEMMA EndAdded ==
  ASSUME NEW u, CodeOK(u), NEW n \in Nat \ {0}, Len(u.nodes) = n, n < MaxUnits,
         NEW depth \in 1 .. MaxDepth, NEW type \in Types, NEW falls \in BOOLEAN
  PROVE  LET w == EndUnit(u, type, depth, falls)
         IN  UnitAdded(u, w, n, NewNode(w.size, depth, type, "controlEnd"),
                       OnTo(falls, u), NewTarget(n + 1, "known", 0, "end"))
<1> DEFINE t    == NewTarget(n + 1, "known", 0, "end")
           skip == IsEndingWithJmp(u) /\ u.last # "br_if"
<1>1. /\ t \in TargetT /\ t.border # "branch" /\ t.id <= n + 1
  <2>1. t = [id |-> n + 1, type |-> "known", depth |-> 0, border |-> "end"]
    BY DEF NewTarget
  <2>2. n + 1 \in Nat /\ n + 1 <= n + 1
    OBVIOUS
  <2> QED BY <2>1, <2>2 DEF TargetT, TargetTypes, Borders
<1>2. skip \in BOOLEAN /\ (skip => IsEndingWithJmp(u) /\ u.last # "br_if")
  OBVIOUS
<1>3. OnTo(falls, u) \in Places /\ "controlEnd" \in States
  BY OnToIs DEF States
<1>4. EndUnit(u, type, depth, falls) =
        Border(Close(IF skip THEN u ELSE AddTarget(u, t), depth, type, "controlEnd"), OnTo(falls, u))
  BY DEF EndUnit, ControlEnd
<1> HIDE DEF skip, t
<1>5. UnitAdded(u, EndUnit(u, type, depth, falls), n,
                NewNode(EndUnit(u, type, depth, falls).size, depth, type, "controlEnd"),
                OnTo(falls, u), t)
  BY <1>1, <1>2, <1>3, <1>4, UnitAddedIs
<1> QED BY <1>5 DEF t

\* The units of a block that stays open.
LEMMA BeginsKept ==
  ASSUME NEW u, NEW w, NEW n \in Nat \ {0}, NEW nd, NEW goal, NEW t,
         Len(u.nodes) = n, UnitAdded(u, w, n, nd, goal, t),
         NEW c, NEW c2, NEW i \in Nat, NEW s \in Nat, Begins(u, c, i, s),
         c2.id = c.id, c2.type = c.type, c.inner => c2.inner, nd.depth \in Nat, nd.depth >= i,
         nd.depth = i => nd.state = "controlEnd" /\ c2.inner
  PROVE  Begins(w, c2, i, s) /\ s <= n /\ c.id <= s
<1>1. Len(w.nodes) = n + 1 /\ w.nodes[n + 1] = nd
  BY DEF UnitAdded
<1>2. s \in 1 .. n /\ s \in 1 .. n + 1
  BY DEF Begins
<1>3. ASSUME NEW j \in s + 1 .. n + 1
      PROVE  /\ w.nodes[j].depth >= i
             /\ w.nodes[j].depth = i => w.nodes[j].state = "controlEnd" /\ c2.inner
  <2>1. j = n + 1 \/ (j \in s + 1 .. n /\ j \in 1 .. n)
    BY <1>2
  <2>2. CASE j = n + 1
    BY <1>1, <2>2
  <2>3. CASE j \in s + 1 .. n /\ j \in 1 .. n
    <3>1. w.nodes[j].depth = u.nodes[j].depth /\ w.nodes[j].state = u.nodes[j].state
      BY <2>3 DEF UnitAdded
    <3> QED BY <2>3, <3>1 DEF Begins
  <2> QED BY <2>1, <2>2, <2>3
<1>4. /\ w.nodes[s].depth = u.nodes[s].depth /\ w.nodes[s].type = u.nodes[s].type
      /\ w.nodes[s].state = u.nodes[s].state
  BY <1>2 DEF UnitAdded
<1>5. Begins(w, c2, i, s)
  BY <1>1, <1>2, <1>3, <1>4 DEF Begins
<1> QED BY <1>2, <1>5 DEF Begins

\* The jump of the unit that is closed.
LEMMA ChainedKept ==
  ASSUME NEW u, NEW w, NEW n \in Nat \ {0}, NEW nd, NEW falls \in BOOLEAN, NEW t, NEW bnd, NEW bnd2,
         Len(u.nodes) = n, CodeOK(u), n < MaxUnits, UnitAdded(u, w, n, nd, OnTo(falls, u), t),
         Chained(u, bnd), falls /\ u.tail = "jmp" => u.last = "br_if",
         \A l \in DOMAIN bnd2 : l.part = "next" => l \in DOMAIN bnd \/ l = OnTo(falls, u)
  PROVE  Chained(w, bnd2)
<1> SUFFICES ASSUME NEW l \in DOMAIN bnd2, l.part = "next"
             PROVE  \E k \in DOMAIN w.refs : w.refs[k].goal = l /\ w.refs[k].unit = l.of - 1
  BY DEF Chained
<1>1. PICK m \in Nat : m = Len(u.refs) /\ DOMAIN u.refs = 1 .. m /\ \A k \in 1 .. m : u.refs[k] \in RefT
  BY CodeParts DEF CodeOK
<1>2. PICK h \in Nat : h = Len(w.refs) /\ DOMAIN w.refs = 1 .. h /\ m <= h
  BY <1>1, CodeParts DEF UnitAdded, CodeOK
<1>3. CASE l \in DOMAIN bnd
  <2>1. PICK k \in 1 .. m : u.refs[k].goal = l /\ u.refs[k].unit = l.of - 1
    BY <1>1, <1>3 DEF Chained
  <2>2. w.refs[k] = PatchedR(nd, n + 1, u.refs[k]) /\ k \in 1 .. h
    BY <1>1, <1>2 DEF UnitAdded
  <2>3. w.refs[k].goal = l /\ w.refs[k].unit = l.of - 1
    BY <1>1, <2>1, <2>2, PatchedRIs
  <2> QED BY <1>2, <2>2, <2>3
<1>4. CASE l = OnTo(falls, u)
  <2>1. falls /\ ~TakenForJump(u) /\ l.of = n + 1
    BY <1>4, OnToIs
  <2>2. ~(IsEndingWithJmp(u) /\ u.last # "br_if")
    BY <2>1 DEF TakenForJump, IsEndingWithJmp, JumpLike
  <2>3. m + 1 <= h
    BY <1>1, <1>2, <2>2 DEF UnitAdded
  <2>4. m + 1 \in 1 .. h /\ m + 1 > m
    BY <2>3
  <2>5. w.refs[m + 1].goal = l /\ w.refs[m + 1].unit = n
    BY <1>1, <1>2, <1>4, <2>4 DEF UnitAdded
  <2>6. n = l.of - 1
    BY <2>1
  <2> QED BY <1>2, <2>4, <2>5, <2>6
<1> QED BY <1>3, <1>4

\* The references: what remains is to show that the old ones, patched, are aimed
\* as they should, and that the jump to the next unit is, where it is bound.
LEMMA AimedKept ==
  ASSUME NEW u, NEW w, NEW n \in Nat \ {0}, NEW nd, NEW falls \in BOOLEAN, NEW t, NEW ctl2, NEW bnd2,
         Len(u.nodes) = n, CodeOK(u), n < MaxUnits, UnitAdded(u, w, n, nd, OnTo(falls, u), t),
         \A k \in 1 .. Len(u.refs) : Aimed(PatchedR(nd, n + 1, u.refs[k]), w, ctl2, bnd2),
         OnTo(falls, u) \in DOMAIN bnd2 => t.type = "known" /\ t.id = bnd2[OnTo(falls, u)],
         falls => OnTo(falls, u) \in DOMAIN bnd2
  PROVE  AllAimed(w, ctl2, bnd2)
<1>1. PICK m \in Nat : m = Len(u.refs)
  BY CodeParts DEF CodeOK
<1>2. PICK h \in Nat : h = Len(w.refs) /\ DOMAIN w.refs = 1 .. h /\ m <= h
  BY <1>1, CodeParts DEF UnitAdded, CodeOK
<1> SUFFICES ASSUME NEW k \in 1 .. h PROVE Aimed(w.refs[k], w, ctl2, bnd2)
  BY <1>2 DEF AllAimed
<1>3. CASE k \in 1 .. m
  BY <1>1, <1>3 DEF UnitAdded
<1>4. CASE k > m /\ k # m + 1
  BY <1>1, <1>2, <1>4 DEF UnitAdded, Aimed
<1>5. CASE k > m /\ k = m + 1
  <2> DEFINE g == OnTo(falls, u)
             r == w.refs[k]
  <2>1. Lea(r) /\ r.goal = g /\ (t.type = "known" => r.type = "known" /\ r.id = t.id)
    BY <1>1, <1>2, <1>5 DEF UnitAdded
  <2>2. /\ g.of = n + 1 /\ g.part \in {"dead", "dropped", "next"}
        /\ g.part = "next" => falls
    BY OnToIs
  <2>3. Len(w.nodes) = n + 1 /\ n + 1 <= n + 1
    BY DEF UnitAdded
  <2> HIDE DEF g, r
  <2>4. Aimed(r, w, ctl2, bnd2)
    <3>1. g \in DOMAIN bnd2 => r.type = "known" /\ r.id = bnd2[g]
      BY <2>1 DEF g
    <3>2. g.part = "next" => g \in DOMAIN bnd2
      BY <2>2 DEF g
    <3> QED BY <2>1, <2>2, <2>3, <3>1, <3>2 DEF Aimed
  <2> QED BY <2>4 DEF r
<1>6. k \in 1 .. m \/ k > m
  OBVIOUS
<1> QED BY <1>3, <1>4, <1>5, <1>6

-----------------------------------------------------------------------------
(* The start of a block. *)

StartBinds(bnd, u, type, falls, n) ==
  LET next == BindNext(bnd, falls, u)
  IN  IF type = "loop" THEN Bind(next, Label(n + 1, "start"), n + 1) ELSE next

StartBound(bnd, b, g, s, type, n) ==
  /\ DOMAIN b = DOMAIN bnd \cup {g} \cup (IF type = "loop" THEN {s} ELSE {})
  /\ b[g] = n + 1 /\ (type = "loop" => b[s] = n + 1)
  /\ \A l \in DOMAIN bnd : l.of <= n /\ l.of \in Nat => b[l] = bnd[l]

LEMMA StartBindsIs ==
  ASSUME NEW u, NEW n \in Nat \ {0}, Len(u.nodes) = n, n < MaxUnits, NEW falls \in BOOLEAN,
         NEW type, NEW bnd
  PROVE  StartBound(bnd, StartBinds(bnd, u, type, falls, n), OnTo(falls, u),
                    Label(n + 1, "start"), type, n)
<1> DEFINE g == OnTo(falls, u)
           s == Label(n + 1, "start")
           f == BindNext(bnd, falls, u)
           b == StartBinds(bnd, u, type, falls, n)
<1>1. g.of = n + 1 /\ g.part # "start" /\ s.of = n + 1 /\ s.part = "start" /\ s # g
  BY OnToIs, LabelFields
<1> HIDE DEF g, s
<1>2. /\ DOMAIN f = DOMAIN bnd \cup {g} /\ f[g] = n + 1
      /\ \A l \in DOMAIN bnd : l # g => f[l] = bnd[l]
  <2>1. f = Bind(bnd, g, n + 1)
    BY DEF BindNext, g
  <2> HIDE DEF f
  <2>2. BoundTo(bnd, f, g, n + 1)
    BY <2>1, Binds
  <2> QED BY <2>2 DEF BoundTo
<1> HIDE DEF f
<1>3. \A l : l.of <= n /\ l.of \in Nat => l # g /\ l # s
  BY <1>1
<1>4. CASE type = "loop"
  <2>1. b = Bind(f, s, n + 1)
    BY <1>4 DEF StartBinds, f, s
  <2> HIDE DEF b
  <2>2. /\ DOMAIN b = DOMAIN f \cup {s} /\ b[s] = n + 1
        /\ \A l \in DOMAIN f : l # s => b[l] = f[l]
    <3>1. BoundTo(f, b, s, n + 1)
      BY <2>1, Binds
    <3> QED BY <3>1 DEF BoundTo
  <2> QED BY <1>1, <1>2, <1>3, <1>4, <2>2 DEF b, g, s, StartBound
<1>5. CASE type # "loop"
  <2>1. b = f
    BY <1>5 DEF StartBinds, f
  <2> HIDE DEF b
  <2> QED BY <1>1, <1>2, <1>3, <1>5, <2>1 DEF b, g, s, StartBound
<1> QED BY <1>4, <1>5

LEMMA StartSound ==
  ASSUME NEW u, NEW ctl, NEW bnd, Sound(u, ctl, bnd), NoDeadEnd(u, ctl),
         NEW d \in Nat \ {0}, Len(ctl) = d, d < MaxDepth,
         NEW n \in Nat \ {0}, Len(u.nodes) = n, n < MaxUnits,
         NEW type \in {"block", "loop", "if"}, NEW reach \in Reaches,
         NEW falls \in BOOLEAN, falls => Live(ctl[d])
  PROVE  LET w == StartUnit(u, type, d + 1, falls)
         IN  /\ Sound(w, Append(ctl, Block(n + 1, type, reach)), StartBinds(bnd, u, type, falls, n))
             /\ Len(w.nodes) = n + 1 /\ w.tail = "none"
<1> DEFINE w    == StartUnit(u, type, d + 1, falls)
           c    == Block(n + 1, type, reach)
           ctl2 == Append(ctl, c)
           bnd2 == StartBinds(bnd, u, type, falls, n)
           g    == OnTo(falls, u)
           nd   == NewNode(w.size, d + 1, type, "controlStart")
           t    == AtStart(u, type)
           s    == Label(n + 1, "start")
<1>1. CodeOK(u) /\ u \in CodeT /\ u.ok
  BY DEF Sound, CodeOK
<1>2. type \in Types /\ d + 1 \in 1 .. MaxDepth /\ n + 1 \in 1 .. MaxUnits
  BY CodeUnitsAssumption DEF Types
<1>3. UnitAdded(u, w, n, nd, g, t)
  BY <1>1, <1>2, StartAdded
<1>4. nd.depth = d + 1 /\ nd.type = type /\ nd.state = "controlStart"
  BY DEF NewNode
<1> HIDE DEF w, nd
<1>5. CodeOK(w) /\ w.ok /\ Len(w.nodes) = n + 1 /\ w.nodes[n + 1] = nd /\ w.tail = "none"
  BY <1>1, <1>3 DEF UnitAdded
<1>6. t.type = "known" /\ t.id = n + 1
  BY DEF AtStart, NewTarget
<1>7. \A type1, depth1 : ~ResolvedBy(nd, type1, depth1)
  BY <1>4 DEF ResolvedBy
<1>8. /\ ctl \in Seq(BlockT) /\ DOMAIN ctl = 1 .. d /\ \A i \in 1 .. d : ctl[i] \in BlockT
  BY DEF Sound, Nested
<1>9. /\ c \in BlockT /\ c.id = n + 1 /\ c.type = type
  BY <1>2 DEF Block, BlockT
<1> HIDE DEF c
<1>10. /\ ctl2 \in Seq(BlockT) /\ Len(ctl2) = d + 1 /\ DOMAIN ctl2 = 1 .. d + 1 /\ ctl2[d + 1] = c
       /\ \A i \in 1 .. d : ctl2[i] = ctl[i] /\ i \in 1 .. d + 1
       /\ ctl2 # << >>
  BY <1>8, <1>9
<1> HIDE DEF ctl2
<1>11. /\ g \in Places /\ g.of = n + 1 /\ g.part \in {"dead", "dropped", "next"}
       /\ g.part = "next" => falls
       /\ s \in Places /\ s.of = n + 1 /\ s.part = "start"
  BY <1>2, OnToIs, LabelFields DEF Parts
<1>12. /\ DOMAIN bnd \subseteq Places
       /\ \A l \in DOMAIN bnd : l.of <= n /\ l.of \in Nat
  BY DEF Sound, PlacesOK, Places
<1>13. /\ DOMAIN bnd2 = DOMAIN bnd \cup {g} \cup (IF type = "loop" THEN {s} ELSE {})
       /\ bnd2[g] = n + 1 /\ (type = "loop" => bnd2[s] = n + 1)
       /\ \A l \in DOMAIN bnd : bnd2[l] = bnd[l]
  <2>1. StartBound(bnd, bnd2, g, s, type, n)
    BY StartBindsIs
  <2> HIDE DEF bnd2, g, s
  <2> QED BY <1>12, <2>1 DEF StartBound
<1> HIDE DEF bnd2, g, s, t
<1>14. \A i \in 1 .. d : \E h \in Nat : Begins(w, ctl[i], i, h) /\ h <= n /\ ctl[i].id <= h
  <2> SUFFICES ASSUME NEW i \in 1 .. d
               PROVE  \E h \in Nat : Begins(w, ctl[i], i, h) /\ h <= n /\ ctl[i].id <= h
    OBVIOUS
  <2>1. PICK h \in Nat : Begins(u, ctl[i], i, h)
    BY <1>8 DEF Sound, Nested
  <2>2. nd.depth \in Nat /\ nd.depth >= i /\ nd.depth # i /\ i \in Nat
    BY <1>4
  <2>3. Begins(w, ctl[i], i, h) /\ h <= n /\ ctl[i].id <= h
    BY <1>3, <2>1, <2>2, BeginsKept
  <2> QED BY <2>3
<1>15. \A i \in 1 .. d : ctl[i].id < n + 1
  <2> TAKE i \in 1 .. d
  <2>1. PICK h \in Nat : h <= n /\ ctl[i].id <= h
    BY <1>14
  <2>2. ctl[i].id \in Nat
    BY <1>8 DEF BlockT
  <2> QED BY <2>1, <2>2
<1>16. Nested(w, ctl2)
  <2>1. Begins(w, c, d + 1, n + 1)
    <3>1. n + 1 \in 1 .. n + 1 /\ n + 1 <= n + 1 /\ n + 1 + 1 .. n + 1 = {}
      OBVIOUS
    <3> QED BY <1>4, <1>5, <1>9, <3>1 DEF Begins
  <2>2. \A i \in 1 .. d + 1 : \E h \in Nat : Begins(w, ctl2[i], i, h)
    <3> TAKE i \in 1 .. d + 1
    <3>1. CASE i = d + 1
      <4>1. n + 1 \in Nat
        OBVIOUS
      <4> QED BY <1>10, <2>1, <3>1, <4>1
    <3>2. CASE i # d + 1
      <4>1. i \in 1 .. d
        BY <3>2
      <4> QED BY <1>10, <1>14, <4>1
    <3> QED BY <3>1, <3>2
  <2>3. \A i, j \in 1 .. d + 1 : i < j => ctl2[i].id < ctl2[j].id
    <3> TAKE i, j \in 1 .. d + 1
    <3> SUFFICES ASSUME i < j PROVE ctl2[i].id < ctl2[j].id
      OBVIOUS
    <3>1. i \in 1 .. d /\ (j = d + 1 \/ j \in 1 .. d)
      OBVIOUS
    <3>2. CASE j = d + 1
      BY <1>9, <1>10, <1>15, <3>1, <3>2
    <3>3. CASE j \in 1 .. d
      <4>1. ctl[i].id < ctl[j].id
        BY <1>8, <3>1, <3>3 DEF Sound, Nested
      <4> QED BY <1>10, <3>1, <3>3, <4>1
    <3> QED BY <3>1, <3>2, <3>3
  <2>4. LastNode(w).depth = d + 1 /\ d + 1 <= MaxDepth
    BY <1>2, <1>4, <1>5 DEF LastNode
  <2> QED BY <1>10, <2>2, <2>3, <2>4 DEF Nested
<1>17. PlacesOK(w, ctl2, bnd2)
  <2>1. DOMAIN bnd2 \subseteq Places
    BY <1>11, <1>12, <1>13
  <2>2. ASSUME NEW l \in DOMAIN bnd2
        PROVE  /\ l.of <= n + 1 /\ l.part \notin {"stray", "springboard"} /\ bnd2[l] \in 1 .. n + 1
               /\ l.part \in {"next", "dropped", "dead"} => bnd2[l] = l.of
    <3>1. CASE l \in DOMAIN bnd
      <4>1. l.of <= n + 1
        BY <1>12, <3>1
      <4>2. bnd2[l] \in 1 .. n + 1
        <5>1. bnd[l] \in 1 .. n
          BY <3>1 DEF Sound, PlacesOK
        <5> QED BY <1>13, <3>1, <5>1
      <4> QED BY <1>13, <3>1, <4>1, <4>2 DEF Sound, PlacesOK
    <3>2. CASE l \notin DOMAIN bnd
      <4>1. l = g \/ (type = "loop" /\ l = s)
        BY <1>13, <3>2
      <4>2. n + 1 <= n + 1 /\ n + 1 \in 1 .. n + 1
        OBVIOUS
      <4> QED BY <1>11, <1>13, <4>1, <4>2
    <3> QED BY <3>1, <3>2
  <2>3. ASSUME NEW i \in 1 .. d + 1
        PROVE  /\ Label(ctl2[i].id, "end") \notin DOMAIN bnd2
               /\ Label(ctl2[i].id, "else") \in DOMAIN bnd2 => ctl2[i].type = "else"
               /\ ctl2[i].type = "loop" => /\ Label(ctl2[i].id, "start") \in DOMAIN bnd2
                                           /\ bnd2[Label(ctl2[i].id, "start")] = ctl2[i].id
    <3> DEFINE e == Label(ctl2[i].id, "end")
               f == Label(ctl2[i].id, "else")
    <3>1. e.part = "end" /\ f.part = "else" /\ e.of = ctl2[i].id /\ f.of = ctl2[i].id
      BY LabelFields
    <3> HIDE DEF e, f
    <3>2. (e \in DOMAIN bnd2 => e \in DOMAIN bnd) /\ (f \in DOMAIN bnd2 => f \in DOMAIN bnd)
      BY <1>11, <1>13, <3>1
    <3>3. CASE i = d + 1
      <4>1. ctl2[i].id = n + 1 /\ ctl2[i].type = type
        BY <1>9, <1>10, <3>3
      <4>2. ~(n + 1 <= n)
        OBVIOUS
      <4>3. e \notin DOMAIN bnd /\ f \notin DOMAIN bnd
        BY <1>12, <3>1, <4>1, <4>2
      <4> QED BY <1>13, <3>2, <4>1, <4>3 DEF e, f, s
    <3>4. CASE i # d + 1
      <4>1. i \in 1 .. d /\ ctl2[i] = ctl[i]
        BY <1>10, <3>4
      <4> QED BY <1>8, <1>13, <3>2, <4>1 DEF e, f, Sound, PlacesOK
    <3> QED BY <3>3, <3>4
  <2> QED BY <1>5, <1>10, <2>1, <2>2, <2>3 DEF PlacesOK
<1>18. AllAimed(w, ctl2, bnd2)
  <2>1. ASSUME NEW k \in 1 .. Len(u.refs) PROVE Aimed(PatchedR(nd, n + 1, u.refs[k]), w, ctl2, bnd2)
    <3> DEFINE r == u.refs[k]
    <3>1. r \in RefT /\ k \in DOMAIN u.refs
      BY <1>1, CodeParts
    <3>2. Aimed(r, u, ctl, bnd)
      BY <3>1 DEF Sound, AllAimed
    <3>3. PatchedR(nd, n + 1, r) = r
      <4>1. n + 1 \in Nat
        OBVIOUS
      <4> QED BY <1>7, <3>1, <4>1, PatchedRIs
    <3>4. r.goal.of \in Nat
      BY <3>1 DEF RefT, Places
    <3> HIDE DEF r
    <3>5. r.goal.of <= n => (r.goal \in DOMAIN bnd2 => r.goal \in DOMAIN bnd)
      BY <1>11, <1>13, <3>4
    <3>6. r.goal.of <= n => r.goal.of <= n + 1
      BY <3>4
    <3>7. Arrived(r, bnd) => Arrived(r, bnd2)
      BY <1>13 DEF Arrived
    <3>8. ASSUME NEW types, NEW blocks, Waits(r, ctl, bnd, types, blocks), r.goal.part \in {"else", "end"}
          PROVE  Waits(r, ctl2, bnd2, types, blocks)
      <4>1. r.goal \notin DOMAIN bnd2
        BY <1>11, <1>13, <3>8 DEF Waits
      <4>2. \A i \in 2 .. d : i \in 1 .. d /\ i \in 2 .. d + 1
        OBVIOUS
      <4> QED BY <1>10, <3>8, <4>1, <4>2 DEF Waits
    <3>9. Aimed(r, w, ctl2, bnd2)
      BY <1>5, <1>13, <3>2, <3>5, <3>6, <3>7, <3>8 DEF Aimed
    <3> QED BY <3>3, <3>9 DEF r
  <2>2. g \in DOMAIN bnd2
    BY <1>13
  <2> QED BY <1>1, <1>3, <1>6, <1>13, <2>1, <2>2, AimedKept DEF g
<1>19. Chained(w, bnd2)
  <2>1. \A l \in DOMAIN bnd2 : l.part = "next" => l \in DOMAIN bnd \/ l = g
    BY <1>11, <1>13
  <2>2. falls /\ u.tail = "jmp" => u.last = "br_if"
    <3>1. ctl # << >>
      BY <1>8
    <3> QED BY <3>1 DEF NoDeadEnd
  <2> QED BY <1>1, <1>3, <2>1, <2>2, ChainedKept DEF g, Sound
<1>20. Sound(w, ctl2, bnd2)
  BY <1>5, <1>16, <1>17, <1>18, <1>19 DEF Sound
<1> QED BY <1>5, <1>20 DEF w, c, ctl2, bnd2

-----------------------------------------------------------------------------
(* The else arm, and the end of a block. *)

\* A reference when a unit begins that resolves those for part of block d, the
\* innermost one.
Resolves(nd, part, d) ==
  /\ \A type, depth : ResolvedBy(nd, type, depth) => type \in Unknown /\ depth = d
  /\ part = "else" => \A type, depth : ResolvedBy(nd, type, depth) <=> type = "ifUnknown" /\ depth = d
  /\ part = "end" => \A type \in {"elseUnknown", "brUnknown"} : ResolvedBy(nd, type, d)

LEMMA RefKept ==
  ASSUME NEW u, NEW w, NEW ctl, NEW bnd, NEW bnd2, NEW nd,
         NEW n \in Nat \ {0}, Len(u.nodes) = n, Len(w.nodes) = n + 1,
         NEW d \in Nat \ {0}, Len(ctl) = d, NEW d2 \in {d - 1, d}, NEW ctl2, Len(ctl2) = d2,
         \A i \in 1 .. d2 : ctl2[i].id = ctl[i].id /\ ctl2[i].type \in Types,
         \A i \in 1 .. d - 1 : ctl2[i].type = ctl[i].type /\ ctl[i].id # ctl[d].id,
         NEW part \in {"else", "end"}, part = "else" => d2 = d, part = "end" => ctl[d].type # "if",
         Resolves(nd, part, d), NEW b, b = Label(ctl[d].id, part), b \in DOMAIN bnd2, bnd2[b] = n + 1,
         \A l \in DOMAIN bnd : l \in DOMAIN bnd2 /\ bnd2[l] = bnd[l],
         \A l \in DOMAIN bnd2 : l \in DOMAIN bnd \/ l = b \/ (l.of = n + 1 /\ l.part \in {"next", "dropped", "dead"}),
         NEW r \in RefT, Aimed(r, u, ctl, bnd)
  PROVE  Aimed(PatchedR(nd, n + 1, r), w, ctl2, bnd2)
<1> DEFINE q == PatchedR(nd, n + 1, r)
<1>1. r.goal \in Places /\ r.goal.of \in Nat /\ r.goal = Label(r.goal.of, r.goal.part)
  BY PlaceIs DEF RefT, Places
<1>2. q.goal = r.goal /\ q.kind = r.kind
  BY PatchedRIs
<1>3. ~(Lea(r) /\ ResolvedBy(nd, r.type, r.depth)) => q = r
  BY PatchedRIs
<1>4. Lea(r) /\ ResolvedBy(nd, r.type, r.depth) => q.id = n + 1 /\ q.type = "known"
  BY PatchedRIs
<1>5. Lea(q) <=> Lea(r)
  BY <1>2 DEF Lea
<1> HIDE DEF q
<1> SUFFICES Aimed(q, w, ctl2, bnd2)
  BY DEF q
<1>6. r.type \in {"known", "loopKnown"} \/ r.depth # d => q = r
  BY <1>3 DEF Resolves, Unknown
<1>7. b.part = part /\ b.of = ctl[d].id
  BY LabelFields
<1>8. Arrived(r, bnd) => Arrived(r, bnd2)
  BY DEF Arrived
\* Those that wait for a block further out go on to wait.
<1>9. ASSUME NEW types, NEW blocks, NEW i \in 2 .. d, i # d, r.goal.part \in {"else", "end"},
             r.goal \notin DOMAIN bnd, r.type \in types, ctl[i].id = r.goal.of,
             ctl[i].type \in blocks, r.depth = i
      PROVE  q = r /\ Waits(r, ctl2, bnd2, types, blocks)
  <2>1. i \in 1 .. d - 1 /\ i \in 2 .. d2 /\ i \in 1 .. d2
    BY <1>9
  <2>2. q = r
    BY <1>6, <1>9
  <2>3. r.goal \notin DOMAIN bnd2
    BY <1>7, <1>9, <2>1
  <2> QED BY <1>9, <2>1, <2>2, <2>3 DEF Waits
<1>10. CASE ~Lea(r)
  BY <1>3, <1>10 DEF Aimed
<1>11. CASE Lea(r) /\ r.goal.part = "else"
  <2>1. CASE r.type = "known" /\ Arrived(r, bnd)
    BY <1>6, <1>8, <1>11, <2>1 DEF Aimed
  <2>2. CASE Waits(r, ctl, bnd, {"ifUnknown"}, {"if"})
    <3>1. PICK i \in 2 .. d : ctl[i].id = r.goal.of /\ ctl[i].type = "if" /\ r.depth = i
      BY <2>2 DEF Waits
    <3>2. r.type = "ifUnknown" /\ r.goal \notin DOMAIN bnd
      BY <2>2 DEF Waits
    <3>3. CASE i = d
      <4>1. part = "else"
        BY <3>1, <3>3
      <4>2. r.goal = b
        BY <1>1, <1>11, <3>1, <3>3, <4>1
      <4>3. q.id = n + 1 /\ q.type = "known"
        BY <1>4, <1>11, <3>1, <3>2, <3>3, <4>1 DEF Resolves
      <4> QED BY <1>2, <1>5, <1>11, <4>2, <4>3 DEF Aimed, Arrived
    <3>4. CASE i # d
      <4>1. q = r /\ Waits(r, ctl2, bnd2, {"ifUnknown"}, {"if"})
        BY <1>9, <1>11, <3>1, <3>2, <3>4
      <4> QED BY <1>11, <4>1 DEF Aimed
    <3> QED BY <3>3, <3>4
  <2> QED BY <1>11, <2>1, <2>2 DEF Aimed
<1>12. CASE Lea(r) /\ r.goal.part = "end"
  <2> DEFINE ts == {"elseUnknown", "brUnknown"}
  <2>1. CASE r.type = "known" /\ Arrived(r, bnd)
    BY <1>6, <1>8, <1>12, <2>1 DEF Aimed
  <2>2. CASE Waits(r, ctl, bnd, ts, Types)
    <3>1. PICK i \in 2 .. d : ctl[i].id = r.goal.of /\ ctl[i].type \in Types /\ r.depth = i
      BY <2>2 DEF Waits
    <3>2. r.type \in ts /\ r.goal \notin DOMAIN bnd
      BY <2>2 DEF Waits
    <3>3. CASE i = d /\ part = "end"
      <4>1. r.goal = b
        BY <1>1, <1>12, <3>1, <3>3
      <4>2. q.id = n + 1 /\ q.type = "known"
        BY <1>4, <1>12, <3>1, <3>2, <3>3 DEF Resolves
      <4> QED BY <1>2, <1>5, <1>12, <4>1, <4>2 DEF Aimed, Arrived
    <3>4. CASE i = d /\ part = "else"
      <4>1. q = r
        BY <1>3, <3>2, <3>4 DEF Resolves
      <4>2. r.goal \notin DOMAIN bnd2
        BY <1>7, <1>12, <3>2, <3>4
      <4>3. i \in 2 .. d2 /\ i \in 1 .. d2
        BY <3>1, <3>4
      <4>4. Waits(r, ctl2, bnd2, ts, Types)
        BY <3>1, <3>2, <4>2, <4>3 DEF Waits
      <4> QED BY <1>12, <4>1, <4>4 DEF Aimed
    <3>5. CASE i # d
      <4>1. q = r /\ Waits(r, ctl2, bnd2, ts, Types)
        BY <1>9, <1>12, <3>1, <3>2, <3>5
      <4> QED BY <1>12, <4>1 DEF Aimed
    <3> QED BY <3>3, <3>4, <3>5
  <2> QED BY <1>12, <2>1, <2>2 DEF Aimed
<1>13. CASE Lea(r) /\ r.goal.part \in {"next", "dropped", "dead"}
  <2>1. /\ r.goal.of <= n
        /\ r.goal \in DOMAIN bnd => r.type = "known" /\ r.id = bnd[r.goal]
        /\ r.goal.part = "next" => r.goal \in DOMAIN bnd
    BY <1>13 DEF Aimed
  <2>2. r.goal.of <= n + 1 /\ r.goal.of # n + 1
    BY <1>1, <2>1
  <2>3. r.goal \in DOMAIN bnd2 <=> r.goal \in DOMAIN bnd
    BY <1>7, <1>13, <2>2
  <2>4. r.goal \in DOMAIN bnd => q = r
    BY <1>6, <2>1
  <2>5. /\ q.goal.of <= Len(w.nodes)
        /\ q.goal \in DOMAIN bnd2 => q.type = "known" /\ q.id = bnd2[q.goal]
        /\ q.goal.part = "next" => q.goal \in DOMAIN bnd2
    BY <1>2, <2>1, <2>2, <2>3, <2>4
  <2> QED BY <1>2, <1>5, <1>13, <2>5 DEF Aimed
<1>14. CASE Lea(r) /\ r.goal.part = "start"
  <2>1. r.type = "loopKnown" /\ Arrived(r, bnd) /\ q = r
    BY <1>6, <1>14 DEF Aimed
  <2> QED BY <1>8, <1>14, <2>1 DEF Aimed
<1>15. CASE Lea(r) /\ r.goal.part \notin {"else", "end", "next", "dropped", "dead", "start"}
  BY <1>2, <1>5, <1>15 DEF Aimed
<1> QED BY <1>10, <1>11, <1>12, <1>13, <1>14, <1>15

\* The control stack in the else arm of the innermost block.
ElseOf(ctl, ctl2, d) ==
  /\ ctl2 \in Seq(BlockT) /\ Len(ctl2) = d /\ \A i \in 1 .. d - 1 : ctl2[i] = ctl[i]
  /\ ctl2[d].id = ctl[d].id /\ ctl2[d].type = "else"

ElseUnit(u, d) == StartUnit(u, "else", d, FALSE)

LEMMA ElseSound ==
  ASSUME NEW u, NEW ctl, NEW bnd, Sound(u, ctl, bnd),
         NEW d \in Nat \ {0}, Len(ctl) = d, d > 1, ctl[d].type = "if",
         NEW n \in Nat \ {0}, Len(u.nodes) = n, n < MaxUnits,
         NEW ctl2, ElseOf(ctl, ctl2, d)
  PROVE  LET w == ElseUnit(u, d)
         IN  /\ Sound(w, ctl2, Bind(bnd, Label(ctl[d].id, "else"), n + 1))
             /\ Len(w.nodes) = n + 1 /\ w.tail = "none"
<1>0. /\ ctl2 \in Seq(BlockT) /\ Len(ctl2) = d /\ \A i \in 1 .. d - 1 : ctl2[i] = ctl[i]
      /\ ctl2[d].id = ctl[d].id /\ ctl2[d].type = "else"
  BY DEF ElseOf
<1> DEFINE w    == StartUnit(u, "else", d, FALSE)
           g    == OnTo(FALSE, u)
           nd   == NewNode(w.size, d, "else", "controlStart")
           t    == AtStart(u, "else")
           b    == Label(ctl[d].id, "else")
           bnd2 == Bind(bnd, b, n + 1)
<1>1. CodeOK(u) /\ u \in CodeT /\ u.ok
  BY DEF Sound, CodeOK
<1>2. /\ ctl \in Seq(BlockT) /\ DOMAIN ctl = 1 .. d /\ (\A i \in 1 .. d : ctl[i] \in BlockT)
      /\ d <= MaxDepth /\ d \in 1 .. d /\ DOMAIN ctl2 = 1 .. d /\ ctl2 # << >>
  BY <1>0 DEF Sound, Nested
<1>3. "else" \in Types /\ d \in 1 .. MaxDepth /\ n + 1 \in 1 .. MaxUnits /\ n + 1 \in Nat
  BY <1>2, CodeUnitsAssumption DEF Types
<1>4. UnitAdded(u, w, n, nd, g, t)
  BY <1>1, <1>3, StartAdded
<1>5. nd.depth = d /\ nd.type = "else" /\ nd.state = "controlStart"
  BY DEF NewNode
<1> HIDE DEF w, nd
<1>6. CodeOK(w) /\ w.ok /\ Len(w.nodes) = n + 1 /\ w.nodes[n + 1] = nd /\ w.tail = "none"
  BY <1>1, <1>4 DEF UnitAdded
<1>7. \A type, depth : ResolvedBy(nd, type, depth) = (type = "ifUnknown" /\ depth = d)
  BY <1>5 DEF ResolvedBy
<1>8. /\ g \in Places /\ g.of = n + 1 /\ g.part = "dead"
  BY OnToIs
<1>9. /\ ctl[d].id \in 1 .. MaxUnits /\ ctl[d].id \in Nat
      /\ b.of = ctl[d].id /\ b.part = "else" /\ b \in Places
  <2>1. ctl[d].id \in 1 .. MaxUnits /\ ctl[d].id \in Nat /\ ctl[d].id \in 0 .. MaxUnits
    BY <1>2, CodeUnitsAssumption DEF BlockT
  <2> QED BY <2>1, LabelFields DEF Parts
<1>10. /\ DOMAIN bnd2 = DOMAIN bnd \cup {b} /\ bnd2[b] = n + 1
       /\ \A l \in DOMAIN bnd : l # b => bnd2[l] = bnd[l]
  <2>1. BoundTo(bnd, bnd2, b, n + 1)
    BY Binds
  <2> HIDE DEF bnd2, b
  <2> QED BY <2>1 DEF BoundTo
<1>11. /\ DOMAIN bnd \subseteq Places /\ (\A l \in DOMAIN bnd : l.of <= n /\ l.of \in Nat)
       /\ b \notin DOMAIN bnd
  BY <1>2 DEF Sound, PlacesOK, Places
<1>12. \A i \in 1 .. d : i # d => /\ i \in 1 .. d - 1 /\ ctl2[i] = ctl[i] /\ i < d /\ ctl[i].id # ctl[d].id
  <2> TAKE i \in 1 .. d
  <2> SUFFICES ASSUME i # d PROVE /\ i \in 1 .. d - 1 /\ ctl2[i] = ctl[i] /\ i < d /\ ctl[i].id # ctl[d].id
    OBVIOUS
  <2>1. i \in 1 .. d - 1 /\ i < d
    OBVIOUS
  <2>2. ctl[i].id < ctl[d].id
    BY <1>2, <2>1 DEF Sound, Nested
  <2>3. ctl[i].id \in Nat
    BY <1>2 DEF BlockT
  <2> QED BY <1>0, <1>9, <2>1, <2>2, <2>3
<1> HIDE DEF bnd2, b, g, t
<1>13. PICK h \in Nat : Begins(u, ctl[d], d, h)
  BY <1>2 DEF Sound, Nested
<1>14. ctl[d].id <= n + 1 /\ ctl[d].id <= n
  <2>1. h \in 1 .. n /\ ctl[d].id <= h
    BY <1>13 DEF Begins
  <2> QED BY <1>9, <2>1
<1>15. Nested(w, ctl2)
  <2>1. Begins(w, ctl2[d], d, n + 1)
    <3>1. n + 1 \in 1 .. n + 1 /\ n + 1 + 1 .. n + 1 = {}
      OBVIOUS
    <3> QED BY <1>0, <1>5, <1>6, <1>14, <3>1 DEF Begins
  <2>2. \A i \in 1 .. d : \E h1 \in Nat : Begins(w, ctl2[i], i, h1)
    <3> TAKE i \in 1 .. d
    <3>1. CASE i = d
      BY <1>3, <2>1, <3>1
    <3>2. CASE i # d
      <4>1. ctl2[i] = ctl[i] /\ i < d /\ i \in Nat
        BY <1>12, <3>2
      <4>2. PICK h1 \in Nat : Begins(u, ctl[i], i, h1)
        BY <1>2 DEF Sound, Nested
      <4>3. nd.depth \in Nat /\ nd.depth >= i /\ nd.depth # i
        BY <1>5, <4>1
      <4> QED BY <1>4, <4>1, <4>2, <4>3, BeginsKept
    <3> QED BY <3>1, <3>2
  <2>3. \A i \in 1 .. d : ctl2[i].id = ctl[i].id
    BY <1>0, <1>12
  <2>4. \A i, j \in 1 .. d : i < j => ctl2[i].id < ctl2[j].id
    BY <1>2, <2>3 DEF Sound, Nested
  <2>5. LastNode(w).depth = d
    BY <1>5, <1>6 DEF LastNode
  <2> QED BY <1>0, <1>2, <2>2, <2>4, <2>5 DEF Nested
<1>16. PlacesOK(w, ctl2, bnd2)
  <2>1. DOMAIN bnd2 \subseteq Places
    BY <1>9, <1>10, <1>11
  <2>2. ASSUME NEW l \in DOMAIN bnd2
        PROVE  /\ l.of <= n + 1 /\ l.part \notin {"stray", "springboard"} /\ bnd2[l] \in 1 .. n + 1
               /\ l.part \in {"next", "dropped", "dead"} => bnd2[l] = l.of
    <3>1. CASE l = b
      <4>1. n + 1 \in 1 .. n + 1
        OBVIOUS
      <4> QED BY <1>9, <1>10, <1>14, <3>1, <4>1
    <3>2. CASE l # b
      <4>1. l \in DOMAIN bnd /\ bnd2[l] = bnd[l]
        BY <1>10, <3>2
      <4>2. l.of <= n + 1
        BY <1>11, <4>1
      <4>3. bnd2[l] \in 1 .. n + 1
        <5>1. bnd[l] \in 1 .. n
          BY <4>1 DEF Sound, PlacesOK
        <5> QED BY <4>1, <5>1
      <4> QED BY <4>1, <4>2, <4>3 DEF Sound, PlacesOK
    <3> QED BY <3>1, <3>2
  <2>3. ASSUME NEW i \in 1 .. d
        PROVE  /\ Label(ctl2[i].id, "end") \notin DOMAIN bnd2
               /\ Label(ctl2[i].id, "else") \in DOMAIN bnd2 => ctl2[i].type = "else"
               /\ ctl2[i].type = "loop" => /\ Label(ctl2[i].id, "start") \in DOMAIN bnd2
                                           /\ bnd2[Label(ctl2[i].id, "start")] = ctl2[i].id
    <3>1. Label(ctl2[i].id, "end") # b /\ Label(ctl2[i].id, "start") # b
      BY <1>9, LabelFields
    <3>2. ctl2[i].id = ctl[i].id
      BY <1>0, <1>12
    <3>3. CASE i = d
      BY <1>0, <1>2, <1>10, <3>1, <3>2, <3>3 DEF Sound, PlacesOK
    <3>4. CASE i # d
      <4>1. ctl2[i] = ctl[i] /\ Label(ctl[i].id, "else") # b
        BY <1>9, <1>12, <3>4, LabelFields
      <4> QED BY <1>2, <1>10, <3>1, <4>1 DEF Sound, PlacesOK
    <3> QED BY <3>3, <3>4
  <2> QED BY <1>2, <1>6, <2>1, <2>2, <2>3 DEF PlacesOK
<1>17. AllAimed(w, ctl2, bnd2)
  <2>1. ASSUME NEW k \in 1 .. Len(u.refs) PROVE Aimed(PatchedR(nd, n + 1, u.refs[k]), w, ctl2, bnd2)
    <3> DEFINE r == u.refs[k]
    <3>1. r \in RefT /\ Aimed(r, u, ctl, bnd)
      BY <1>1, CodeParts DEF Sound, AllAimed
    <3> HIDE DEF r
    <3>2. Resolves(nd, "else", d)
      BY <1>7 DEF Resolves, Unknown
    <3>3. /\ \A i \in 1 .. d : ctl2[i].id = ctl[i].id /\ ctl2[i].type \in Types
          /\ \A i \in 1 .. d - 1 : ctl2[i].type = ctl[i].type /\ ctl[i].id # ctl[d].id
      <4>1. \A i \in 1 .. d : ctl2[i] \in BlockT
        BY <1>0, <1>2
      <4>2. \A i \in 1 .. d - 1 : i \in 1 .. d /\ i # d
        OBVIOUS
      <4> QED BY <1>0, <1>12, <4>1, <4>2 DEF BlockT
    <3>4. d \in {d - 1, d}
      OBVIOUS
    <3>5. b \in DOMAIN bnd2 /\ bnd2[b] = n + 1 /\ b = Label(ctl[d].id, "else")
      BY <1>10 DEF b
    <3>6. /\ \A l \in DOMAIN bnd : l \in DOMAIN bnd2 /\ bnd2[l] = bnd[l]
          /\ \A l \in DOMAIN bnd2 : l \in DOMAIN bnd \/ l = b
      BY <1>10, <1>11
    <3>7. Aimed(PatchedR(nd, n + 1, r), w, ctl2, bnd2)
      BY <1>0, <1>6, <3>1, <3>2, <3>3, <3>4, <3>5, <3>6, RefKept
    <3> QED BY <3>7 DEF r
  <2>2. g \notin DOMAIN bnd2
    <3>1. ~(n + 1 <= n)
      OBVIOUS
    <3> QED BY <1>8, <1>9, <1>10, <1>11, <3>1
  <2> QED BY <1>1, <1>4, <2>1, <2>2, AimedKept DEF g
<1>18. Chained(w, bnd2)
  <2>1. \A l \in DOMAIN bnd2 : l.part = "next" => l \in DOMAIN bnd \/ l = g
    BY <1>9, <1>10
  <2> QED BY <1>1, <1>4, <2>1, ChainedKept DEF g, Sound
<1>19. Sound(w, ctl2, bnd2)
  BY <1>6, <1>15, <1>16, <1>17, <1>18 DEF Sound
<1> QED BY <1>6, <1>19 DEF w, bnd2, b, ElseUnit

EndBinds(bnd, u, falls, id, n) == Bind(BindNext(bnd, falls, u), Label(id, "end"), n + 1)

EndBound(bnd, b, g, e, n) ==
  /\ DOMAIN b = DOMAIN bnd \cup {g, e}
  /\ b[g] = n + 1 /\ b[e] = n + 1
  /\ \A l \in DOMAIN bnd : l # g /\ l # e => b[l] = bnd[l]

LEMMA EndBindsIs ==
  ASSUME NEW u, NEW n \in Nat \ {0}, Len(u.nodes) = n, n < MaxUnits, NEW falls \in BOOLEAN,
         NEW id, NEW bnd
  PROVE  EndBound(bnd, EndBinds(bnd, u, falls, id, n), OnTo(falls, u), Label(id, "end"), n)
<1> DEFINE g == OnTo(falls, u)
           e == Label(id, "end")
           f == BindNext(bnd, falls, u)
           b == EndBinds(bnd, u, falls, id, n)
<1>1. g # e
  BY OnToIs, LabelFields
<1>2. BoundTo(bnd, f, g, n + 1)
  <2>1. f = Bind(bnd, g, n + 1)
    BY DEF BindNext
  <2> HIDE DEF f, g
  <2> QED BY <2>1, Binds
<1>3. BoundTo(f, b, e, n + 1)
  <2>1. b = Bind(f, e, n + 1)
    BY DEF EndBinds
  <2> HIDE DEF b, f, e
  <2> QED BY <2>1, Binds
<1> HIDE DEF b, f, e, g
<1>4. EndBound(bnd, b, g, e, n)
  BY <1>1, <1>2, <1>3 DEF BoundTo, EndBound
<1> QED BY <1>4 DEF b, g, e

\* The control stack around the innermost block.
EndOf(ctl, ctl2, d) ==
  /\ ctl2 \in Seq(BlockT) /\ Len(ctl2) = d - 1
  /\ \A i \in 1 .. d - 1 : /\ ctl2[i].id = ctl[i].id /\ ctl2[i].type = ctl[i].type
                           /\ ctl[i].inner => ctl2[i].inner
  /\ ctl2[d - 1].inner

LEMMA EndSound ==
  ASSUME NEW u, NEW ctl, NEW bnd, Sound(u, ctl, bnd),
         NEW d \in Nat \ {0}, Len(ctl) = d, d > 1, ctl[d].type # "if",
         NEW n \in Nat \ {0}, Len(u.nodes) = n, n < MaxUnits,
         NEW type \in Types, NEW falls \in BOOLEAN, falls /\ u.tail = "jmp" => u.last = "br_if",
         NEW ctl2, EndOf(ctl, ctl2, d)
  PROVE  LET w == EndUnit(u, type, d - 1, falls)
         IN  /\ Sound(w, ctl2, EndBinds(bnd, u, falls, ctl[d].id, n))
             /\ Len(w.nodes) = n + 1 /\ w.tail = "none"
<1>0. ctl2 \in Seq(BlockT) /\ Len(ctl2) = d - 1
  BY DEF EndOf
<1>21. \A i \in 1 .. d - 1 : ctl2[i].id = ctl[i].id /\ ctl2[i].type = ctl[i].type
  BY DEF EndOf
<1>22. ctl2[d - 1].inner /\ \A i \in 1 .. d - 1 : ctl[i].inner => ctl2[i].inner
  BY DEF EndOf
<1> DEFINE w    == EndUnit(u, type, d - 1, falls)
           g    == OnTo(falls, u)
           nd   == NewNode(w.size, d - 1, type, "controlEnd")
           t    == NewTarget(n + 1, "known", 0, "end")
           e    == Label(ctl[d].id, "end")
           bnd2 == EndBinds(bnd, u, falls, ctl[d].id, n)
<1>1. CodeOK(u) /\ u \in CodeT /\ u.ok
  BY DEF Sound, CodeOK
<1>2. /\ ctl \in Seq(BlockT) /\ DOMAIN ctl = 1 .. d /\ (\A i \in 1 .. d : ctl[i] \in BlockT)
      /\ d <= MaxDepth /\ d \in 1 .. d /\ DOMAIN ctl2 = 1 .. d - 1 /\ d - 1 \in 1 .. d - 1
      /\ \A i \in 1 .. d - 1 : i \in 1 .. d /\ i < d /\ i # d
  BY <1>0 DEF Sound, Nested
<1>3. d - 1 \in 1 .. MaxDepth /\ d - 1 \in Nat /\ n + 1 \in 1 .. MaxUnits /\ n + 1 \in Nat
  BY <1>2, CodeUnitsAssumption
<1>4. UnitAdded(u, w, n, nd, g, t)
  BY <1>1, <1>3, EndAdded
<1>5. /\ nd.depth = d - 1 /\ nd.type = type /\ nd.state = "controlEnd"
      /\ t.type = "known" /\ t.id = n + 1
  BY DEF NewNode, NewTarget
<1> HIDE DEF w, nd, t
<1>6. CodeOK(w) /\ w.ok /\ Len(w.nodes) = n + 1 /\ w.nodes[n + 1] = nd /\ w.tail = "none"
  BY <1>1, <1>4 DEF UnitAdded
<1>7. Resolves(nd, "end", d)
  <2>1. \A type1, depth1 : ResolvedBy(nd, type1, depth1) => type1 \in Unknown /\ depth1 = d
    <3>1. d - 1 + 1 = d
      OBVIOUS
    <3> QED BY <1>5, <3>1 DEF ResolvedBy, Unknown
  <2>2. \A type1 \in {"elseUnknown", "brUnknown"} : ResolvedBy(nd, type1, d)
    <3>1. d = d - 1 + 1
      OBVIOUS
    <3> QED BY <1>5, <3>1 DEF ResolvedBy
  <2> QED BY <2>1, <2>2 DEF Resolves
<1>8. /\ g \in Places /\ g.of = n + 1 /\ g.part \in {"dead", "dropped", "next"}
      /\ g.part = "next" => falls
  BY OnToIs
<1>9. /\ ctl[d].id \in 1 .. MaxUnits /\ ctl[d].id \in Nat
      /\ e.of = ctl[d].id /\ e.part = "end" /\ e \in Places
  <2>1. ctl[d].id \in 1 .. MaxUnits /\ ctl[d].id \in Nat /\ ctl[d].id \in 0 .. MaxUnits
    BY <1>2, CodeUnitsAssumption DEF BlockT
  <2> QED BY <2>1, LabelFields DEF Parts
<1>10. /\ DOMAIN bnd2 = DOMAIN bnd \cup {g, e} /\ bnd2[g] = n + 1 /\ bnd2[e] = n + 1
       /\ \A l \in DOMAIN bnd : l # g /\ l # e => bnd2[l] = bnd[l]
  <2>1. EndBound(bnd, bnd2, g, e, n)
    BY EndBindsIs
  <2> HIDE DEF bnd2, g, e
  <2> QED BY <2>1 DEF EndBound
<1>11. /\ DOMAIN bnd \subseteq Places /\ (\A l \in DOMAIN bnd : l.of <= n /\ l.of \in Nat)
       /\ e \notin DOMAIN bnd
  BY <1>2 DEF Sound, PlacesOK, Places
<1>12. g \notin DOMAIN bnd /\ \A l \in DOMAIN bnd : bnd2[l] = bnd[l]
  <2>1. ~(n + 1 <= n)
    OBVIOUS
  <2>2. g \notin DOMAIN bnd
    BY <1>8, <1>11, <2>1
  <2> QED BY <1>10, <1>11, <2>2
<1>13. \A i \in 1 .. d - 1 : ctl[i].id # ctl[d].id
  <2> TAKE i \in 1 .. d - 1
  <2>1. ctl[i].id < ctl[d].id
    BY <1>2 DEF Sound, Nested
  <2>2. ctl[i].id \in Nat
    BY <1>2 DEF BlockT
  <2> QED BY <1>9, <2>1, <2>2
<1> HIDE DEF bnd2, e, g
<1>14. PICK h \in Nat : Begins(u, ctl[d], d, h)
  BY <1>2 DEF Sound, Nested
<1>15. ctl[d].id <= n + 1
  <2>1. h \in 1 .. n /\ ctl[d].id <= h
    BY <1>14 DEF Begins
  <2> QED BY <1>9, <2>1
<1>16. Nested(w, ctl2)
  <2>1. \A i \in 1 .. d - 1 : \E h1 \in Nat : Begins(w, ctl2[i], i, h1)
    <3> TAKE i \in 1 .. d - 1
    <3>1. PICK h1 \in Nat : Begins(u, ctl[i], i, h1)
      BY <1>2 DEF Sound, Nested
    <3>2. nd.depth \in Nat /\ nd.depth >= i /\ (nd.depth = i => nd.state = "controlEnd" /\ ctl2[i].inner)
      BY <1>3, <1>5, <1>22
    <3>3. i \in Nat
      OBVIOUS
    <3> QED BY <1>4, <1>21, <1>22, <3>1, <3>2, <3>3, BeginsKept
  <2>2. \A i, j \in 1 .. d - 1 : i < j => ctl2[i].id < ctl2[j].id
    BY <1>2, <1>21 DEF Sound, Nested
  <2>3. LastNode(w).depth = d - 1
    BY <1>5, <1>6 DEF LastNode
  <2>4. d - 1 <= MaxDepth
    BY <1>3
  <2> QED BY <1>0, <1>2, <2>1, <2>2, <2>3, <2>4 DEF Nested
<1>17. PlacesOK(w, ctl2, bnd2)
  <2>1. DOMAIN bnd2 \subseteq Places
    BY <1>8, <1>9, <1>10, <1>11
  <2>2. ASSUME NEW l \in DOMAIN bnd2
        PROVE  /\ l.of <= n + 1 /\ l.part \notin {"stray", "springboard"} /\ bnd2[l] \in 1 .. n + 1
               /\ l.part \in {"next", "dropped", "dead"} => bnd2[l] = l.of
    <3>1. CASE l = e
      <4>1. n + 1 \in 1 .. n + 1
        OBVIOUS
      <4> QED BY <1>9, <1>10, <1>15, <3>1, <4>1
    <3>2. CASE l = g
      <4>1. n + 1 <= n + 1 /\ n + 1 \in 1 .. n + 1
        OBVIOUS
      <4> QED BY <1>8, <1>10, <3>2, <4>1
    <3>3. CASE l # e /\ l # g
      <4>1. l \in DOMAIN bnd /\ bnd2[l] = bnd[l]
        BY <1>10, <1>12, <3>3
      <4>2. l.of <= n + 1
        BY <1>11, <4>1
      <4>3. bnd2[l] \in 1 .. n + 1
        <5>1. bnd[l] \in 1 .. n
          BY <4>1 DEF Sound, PlacesOK
        <5> QED BY <4>1, <5>1
      <4> QED BY <4>1, <4>2, <4>3 DEF Sound, PlacesOK
    <3> QED BY <3>1, <3>2, <3>3
  <2>3. ASSUME NEW i \in 1 .. d - 1
        PROVE  /\ Label(ctl2[i].id, "end") \notin DOMAIN bnd2
               /\ Label(ctl2[i].id, "else") \in DOMAIN bnd2 => ctl2[i].type = "else"
               /\ ctl2[i].type = "loop" => /\ Label(ctl2[i].id, "start") \in DOMAIN bnd2
                                           /\ bnd2[Label(ctl2[i].id, "start")] = ctl2[i].id
    <3> DEFINE e1 == Label(ctl[i].id, "end")
               f1 == Label(ctl[i].id, "else")
    <3>1. ctl2[i].id = ctl[i].id /\ ctl2[i].type = ctl[i].type
      BY <1>21
    <3>2. e1.part = "end" /\ e1.of = ctl[i].id /\ f1.part = "else"
      BY LabelFields
    <3>3. e1 \notin DOMAIN bnd /\ (f1 \in DOMAIN bnd => ctl[i].type = "else")
      BY <1>2 DEF Sound, PlacesOK
    <3>4. ctl[i].type = "loop" => /\ Label(ctl[i].id, "start") \in DOMAIN bnd
                                  /\ bnd[Label(ctl[i].id, "start")] = ctl[i].id
      BY <1>2 DEF Sound, PlacesOK
    <3> HIDE DEF e1, f1
    <3>5. e1 # e /\ e1 # g /\ f1 # e /\ f1 # g
      BY <1>8, <1>9, <1>13, <3>2
    <3> QED BY <1>10, <1>12, <3>1, <3>3, <3>4, <3>5 DEF e1, f1
  <2> QED BY <1>2, <1>6, <2>1, <2>2, <2>3 DEF PlacesOK
<1>18. AllAimed(w, ctl2, bnd2)
  <2>1. ASSUME NEW k \in 1 .. Len(u.refs) PROVE Aimed(PatchedR(nd, n + 1, u.refs[k]), w, ctl2, bnd2)
    <3> DEFINE r == u.refs[k]
    <3>1. r \in RefT /\ Aimed(r, u, ctl, bnd)
      BY <1>1, CodeParts DEF Sound, AllAimed
    <3> HIDE DEF r
    <3> DEFINE d2 == d - 1
    <3>3. d2 \in {d - 1, d} /\ Len(ctl2) = d2 /\ d2 # d
      BY <1>0
    <3>4. /\ \A i \in 1 .. d2 : ctl2[i].id = ctl[i].id /\ ctl2[i].type \in Types
          /\ \A i \in 1 .. d - 1 : ctl2[i].type = ctl[i].type /\ ctl[i].id # ctl[d].id
      <4>1. \A i \in 1 .. d - 1 : ctl[i] \in BlockT
        BY <1>2
      <4> QED BY <1>0, <1>13, <1>21, <4>1 DEF BlockT
    <3>5. e \in DOMAIN bnd2 /\ bnd2[e] = n + 1 /\ e = Label(ctl[d].id, "end")
      BY <1>10 DEF e
    <3>6. /\ \A l \in DOMAIN bnd : l \in DOMAIN bnd2 /\ bnd2[l] = bnd[l]
          /\ \A l \in DOMAIN bnd2 : l \in DOMAIN bnd \/ l = e \/ (l.of = n + 1 /\ l.part \in {"next", "dropped", "dead"})
      BY <1>8, <1>10, <1>12
    <3> HIDE DEF d2
    <3>7. Aimed(PatchedR(nd, n + 1, r), w, ctl2, bnd2)
      BY <1>6, <1>7, <3>1, <3>3, <3>4, <3>5, <3>6, RefKept
    <3> QED BY <3>7 DEF r
  <2>2. g \in DOMAIN bnd2 /\ bnd2[g] = n + 1
    BY <1>10
  <2> QED BY <1>1, <1>4, <1>5, <2>1, <2>2, AimedKept DEF g
<1>19. Chained(w, bnd2)
  <2>1. \A l \in DOMAIN bnd2 : l.part = "next" => l \in DOMAIN bnd \/ l = g
    BY <1>9, <1>10
  <2> QED BY <1>1, <1>4, <2>1, ChainedKept DEF g, Sound
<1>20. Sound(w, ctl2, bnd2)
  BY <1>6, <1>16, <1>17, <1>18, <1>19 DEF Sound
<1> QED BY <1>6, <1>20 DEF w, bnd2

-----------------------------------------------------------------------------
(* Branches out of the blocks that are open. *)

LEMMA LastLea ==
  ASSUME NEW u, NEW ctl, NEW bnd, Sound(u, ctl, bnd), NEW d \in Nat \ {0}, Len(ctl) = d,
         NEW t \in TargetT, NEW goal \in Places
  PROVE  LET r == LeaNext(u, Len(u.nodes), t, u.size, goal)
         IN  /\ r \in RefT /\ Lea(r) /\ r.id = t.id /\ r.type = t.type
             /\ r.depth = d - t.depth /\ r.goal = goal
<1>1. u \in CodeT /\ u.size \in Nat /\ Len(u.nodes) \in DOMAIN u.nodes
  BY CodeParts DEF Sound, CodeOK, Tiled
<1>2. u.nodes[Len(u.nodes)].depth = d
  <2>1. ctl # << >>
    BY DEF Sound, Nested
  <2> QED BY <2>1 DEF Sound, Nested, LastNode
<1> QED BY <1>1, <1>2, LeaFields

LEMMA BlockPlace ==
  ASSUME NEW u, NEW ctl, Nested(u, ctl), NEW i \in DOMAIN ctl, NEW part \in Parts
  PROVE  /\ Label(ctl[i].id, part) \in Places
         /\ Label(ctl[i].id, part).of = ctl[i].id /\ Label(ctl[i].id, part).part = part
         /\ ctl[i].id \in 1 .. MaxUnits /\ ctl[i].type \in Types /\ ctl[i] \in BlockT
<1>1. ctl[i] \in BlockT
  BY DEF Nested
<1>2. ctl[i].id \in 1 .. MaxUnits /\ ctl[i].id \in 0 .. MaxUnits /\ ctl[i].type \in Types
  BY <1>1, CodeUnitsAssumption DEF BlockT
<1> QED BY <1>1, <1>2, LabelFields

\* A jump ahead: to the end of a block, or to the else arm of an if.
LEMMA AimedAhead ==
  ASSUME NEW u, NEW ctl, NEW bnd, Sound(u, ctl, bnd), NEW d \in Nat \ {0}, Len(ctl) = d,
         NEW k \in Nat, NEW i \in 2 .. d, i = d - k, NEW t \in TargetT, t.depth = k,
         NEW part, \/ part = "end" /\ t.type \in {"elseUnknown", "brUnknown"}
                   \/ part = "else" /\ t.type = "ifUnknown" /\ ctl[i].type = "if",
         NEW goal, goal = Label(ctl[i].id, part)
  PROVE  goal \in Places /\ Aimed(LeaNext(u, Len(u.nodes), t, u.size, goal), u, ctl, bnd)
<1>1. i \in DOMAIN ctl /\ part \in Parts /\ Nested(u, ctl)
  BY DEF Sound, Nested, Parts
<1>2. goal \in Places /\ goal.of = ctl[i].id /\ goal.part = part /\ ctl[i].type \in Types
  BY <1>1, BlockPlace
<1> DEFINE r == LeaNext(u, Len(u.nodes), t, u.size, goal)
<1>3. Lea(r) /\ r.type = t.type /\ r.depth = i /\ r.goal = goal
  BY <1>2, LastLea
<1> HIDE DEF r
<1>4. goal \notin DOMAIN bnd
  BY <1>1 DEF Sound, PlacesOK
<1>5. Aimed(r, u, ctl, bnd)
  <2>1. CASE part = "end"
    <3>1. Waits(r, ctl, bnd, {"elseUnknown", "brUnknown"}, Types)
      BY <1>2, <1>3, <1>4, <2>1 DEF Waits
    <3> QED BY <1>2, <1>3, <2>1, <3>1 DEF Aimed
  <2>2. CASE part = "else"
    <3>1. Waits(r, ctl, bnd, {"ifUnknown"}, {"if"})
      BY <1>2, <1>3, <1>4, <2>2 DEF Waits
    <3> QED BY <1>2, <1>3, <2>2, <3>1 DEF Aimed
  <2> QED BY <2>1, <2>2
<1> QED BY <1>2, <1>5 DEF r

\* A branch to a label, or the return that takes its place.
LEMMA BrSound ==
  ASSUME NEW u, Sound(u, control, bound), NEW k \in 0 .. Depth - 1,
         NEW op \in {"br", "br_if", "br_table"}
  PROVE  LET w == BrOrRet(u, op, k)
         IN  /\ Sound(w, control, bound) /\ Len(w.nodes) = Len(u.nodes)
             /\ w.tail = "jmp" => w.last = op
<1>1. Nested(u, control) /\ control \in Seq(BlockT) /\ DOMAIN control = 1 .. Len(control)
  BY DEF Sound, Nested
<1>2. PICK d \in Nat \ {0} : d = Len(control) /\ d = Depth /\ k \in 0 .. d - 1 /\ k \in Nat
  <2>1. Len(control) \in Nat /\ k \in Nat /\ 0 <= k /\ k <= Len(control) - 1
    BY <1>1 DEF Depth
  <2> QED BY <2>1 DEF Depth
<1>3. CASE Outermost(k)
  <2>1. BrOrRet(u, op, k) = Emit(u, "ret")
    BY <1>3 DEF BrOrRet
  <2> QED BY <2>1, EmitSound DEF Tails
<1>4. CASE ~Outermost(k)
  <2>1. k \in 0 .. d - 2 /\ d - k \in 2 .. d
    BY <1>2, <1>4 DEF Outermost
  <2> DEFINE i == d - k
             c == control[i]
             b == NewTarget(0, "brUnknown", k, "branch")
             t == UpdateBranch(u, b)
             goal == Jumped(k)
  <2>2. i \in 2 .. d /\ i \in DOMAIN control
    BY <1>1, <1>2, <2>1
  <2>3. /\ UpdateBranchOK(u, b) /\ t \in TargetT /\ t.depth = k /\ t.border = "branch"
        /\ t.id \in 0 .. Len(u.nodes) /\ t.type \in {"brUnknown", "loopKnown"}
        /\ c.type # "loop" => t.type = "brUnknown"
        /\ c.type = "loop" /\ ~(k > 0 /\ c.inner) => t.type = "loopKnown" /\ t.id = c.id
    <3>1. u \in CodeT /\ Tiled(u) /\ k \in 0 .. Len(control) - 2
      BY <1>2, <2>1 DEF Sound, CodeOK
    <3>2. c = control[Len(control) - k]
      BY <1>2
    <3> HIDE DEF c, b, t
    <3>3. /\ UpdateBranchOK(u, b) /\ t \in TargetT /\ t.depth = k /\ t.border = "branch"
          /\ t.id \in 0 .. Len(u.nodes) /\ t.type \in {"brUnknown", "loopKnown"}
          /\ c.type # "loop" => t.type = "brUnknown"
          /\ c.type = "loop" /\ ~(k > 0 /\ c.inner) => t.type = "loopKnown" /\ t.id = c.id
      BY <1>1, <3>1, <3>2, BranchBack DEF b, t
    <3> QED BY <3>3
  <2>4. NotedTarget(u, op, k, t)
    <3>1. UnknownFor(op) = "brUnknown" /\ b.type = "brUnknown"
      BY DEF UnknownFor, NewTarget
    <3> QED BY <2>3, <3>1 DEF NotedTarget
  <2>5. t.id <= Len(u.nodes)
    <3>1. Len(u.nodes) \in Nat
      BY CodeParts DEF Sound, CodeOK
    <3> QED BY <2>3, <3>1
  <2>6. goal = Label(c.id, IF c.type = "loop" THEN IF k > 0 /\ c.inner THEN "stray" ELSE "start" ELSE "end")
    BY <1>2 DEF Jumped, Target, Label, Depth
  <2> HIDE DEF t, goal, i
  <2>7. goal \in Places /\ Aimed(LeaNext(u, Len(u.nodes), t, u.size, goal), u, control, bound)
    <3> DEFINE r == LeaNext(u, Len(u.nodes), t, u.size, goal)
    <3>1. CASE c.type # "loop"
      <4>1. goal = Label(control[i].id, "end")
        BY <2>6, <3>1
      <4>2. i = d - k
        BY DEF i
      <4> QED BY <1>2, <2>2, <2>3, <3>1, <4>1, <4>2, AimedAhead
    <3>2. CASE c.type = "loop"
      <4>1. {"start", "stray"} \subseteq Parts
        BY DEF Parts
      <4>2. PICK part \in {"start", "stray"} :
              /\ goal = Label(c.id, part) /\ (part = "start" <=> ~(k > 0 /\ c.inner))
        BY <2>6, <3>2
      <4>3. goal \in Places /\ goal.part = part
        BY <1>1, <2>2, <4>1, <4>2, BlockPlace
      <4>4. Lea(r) /\ r.type = t.type /\ r.id = t.id /\ r.goal = goal
        <5>1. t \in TargetT /\ goal \in Places /\ Sound(u, control, bound) /\ Len(control) = d
          BY <1>2, <2>3, <4>3
        <5> HIDE DEF b, c
        <5> QED BY <5>1, LastLea
      <4> HIDE DEF r
      <4>5. CASE part = "start"
        <5>1. goal \in DOMAIN bound /\ bound[goal] = c.id
          BY <2>2, <3>2, <4>2, <4>5 DEF Sound, PlacesOK
        <5>2. r.type = "loopKnown" /\ Arrived(r, bound)
          BY <2>3, <3>2, <4>2, <4>4, <4>5, <5>1 DEF Arrived
        <5>3. Aimed(r, u, control, bound)
          BY <4>3, <4>4, <4>5, <5>2 DEF Aimed
        <5> QED BY <4>3, <5>3 DEF r
      <4>6. CASE part = "stray"
        <5>1. Aimed(r, u, control, bound)
          BY <4>3, <4>4, <4>6 DEF Aimed
        <5> QED BY <4>3, <5>1 DEF r
      <4> QED BY <4>5, <4>6
    <3> QED BY <3>1, <3>2
  <2>8. BrOrRet(u, op, k) = Branch(u, op, "jmp", k, goal)
    BY <1>4 DEF BrOrRet, goal
  <2>9. "jmp" \in Tails \ {"none"} /\ op \in Ops
    BY DEF Tails, Ops
  <2>10. LET w == Branch(u, op, "jmp", k, goal)
         IN  Sound(w, control, bound) /\ w.tail = "jmp" /\ w.last = op /\ SameUnits(u, w)
    BY <1>2, <2>3, <2>4, <2>5, <2>7, <2>9, BranchSound
  <2> QED BY <2>8, <2>10 DEF SameUnits
<1> QED BY <1>3, <1>4

\* The jump over the else arm.
LEMMA EndArmSound ==
  ASSUME Sound(code, control, bound), Depth > 1, NEW op \in {"else", "end"}
  PROVE  Sound(EndArm(op), control, bound) /\ Len(EndArm(op).nodes) = Len(code.nodes)
<1>1. Nested(code, control) /\ control \in Seq(BlockT) /\ DOMAIN control = 1 .. Len(control)
  BY DEF Sound, Nested
<1>2. PICK d \in Nat \ {0} : d = Len(control) /\ d = Depth /\ d > 1
  <2>1. Len(control) \in Nat /\ Len(control) > 1 /\ Len(control) # 0
    BY <1>1 DEF Depth
  <2> QED BY <2>1 DEF Depth
<1>3. CASE Live(Current)
  <2> DEFINE t == NewTarget(0, "elseUnknown", 0, "branch")
             goal == Label(Current.id, "end")
  <2>1. t \in TargetT /\ t.border = "branch" /\ t.id = 0 /\ t.depth = 0 /\ t.type = "elseUnknown"
    BY DEF NewTarget, TargetT, TargetTypes, Unknown, Borders
  <2>2. NotedTarget(code, op, 0, t)
    <3>1. UnknownFor(op) = "elseUnknown"
      BY DEF UnknownFor
    <3> QED BY <2>1, <3>1 DEF NotedTarget
  <2>3. t.id <= Len(code.nodes)
    <3>1. Len(code.nodes) \in Nat
      BY CodeParts DEF Sound, CodeOK
    <3> QED BY <2>1, <3>1
  <2>4. d \in 2 .. d /\ d = d - 0 /\ goal = Label(control[d].id, "end")
    BY <1>2 DEF Current
  <2> HIDE DEF t, goal
  <2>5. goal \in Places /\ Aimed(LeaNext(code, Len(code.nodes), t, code.size, goal), code, control, bound)
    BY <1>2, <2>1, <2>4, AimedAhead
  <2>6. EndArm(op) = Branch(code, op, "jmp", 0, goal)
    BY <1>3 DEF EndArm, goal
  <2>7. "jmp" \in Tails \ {"none"} /\ op \in Ops
    BY DEF Tails, Ops
  <2>8. LET w == Branch(code, op, "jmp", 0, goal)
        IN  Sound(w, control, bound) /\ SameUnits(code, w)
    BY <2>1, <2>2, <2>3, <2>5, <2>7, BranchSound
  <2> QED BY <2>6, <2>8 DEF SameUnits
<1>4. CASE ~Live(Current)
  BY <1>4 DEF EndArm
<1> QED BY <1>3, <1>4

-----------------------------------------------------------------------------
(* The cases of a br_table. *)

CasesUpTo(labels, m, f) ==
  f = [n \in 0 .. m |-> IF n = 0 THEN Emit(code, "jcc")
                        ELSE BrOrRet(f[n - 1], "br_table", labels[n])]

LEMMA CasesExist ==
  ASSUME NEW labels, NEW m \in Nat
  PROVE  \E f : CasesUpTo(labels, m, f)
<1> DEFINE S == {x \in Nat : \E f : CasesUpTo(labels, x, f)}
<1>1. 0 \in S
  <2> DEFINE f == [n \in 0 .. 0 |-> Emit(code, "jcc")]
  <2>1. \A n \in 0 .. 0 : n = 0
    OBVIOUS
  <2>2. CasesUpTo(labels, 0, f)
    BY <2>1 DEF CasesUpTo
  <2> QED BY <2>2
<1>2. ASSUME NEW x \in Nat, x \in S PROVE x + 1 \in S
  <2>1. PICK f : CasesUpTo(labels, x, f)
    BY <1>2
  <2> DEFINE e == BrOrRet(f[x], "br_table", labels[x + 1])
             g == [n \in 0 .. x + 1 |-> IF n = x + 1 THEN e ELSE f[n]]
             h == [n \in 0 .. x + 1 |-> IF n = 0 THEN Emit(code, "jcc")
                                        ELSE BrOrRet(g[n - 1], "br_table", labels[n])]
  <2> HIDE DEF e
  <2>2. ASSUME NEW n \in 0 .. x + 1 PROVE g[n] = h[n]
    <3>1. CASE n = x + 1
      <4>1. n # 0 /\ n - 1 = x /\ x \in 0 .. x + 1 /\ x # x + 1
        BY <3>1
      <4>2. g[n - 1] = f[x]
        BY <4>1
      <4>3. h[n] = BrOrRet(f[x], "br_table", labels[x + 1])
        BY <3>1, <4>1, <4>2
      <4> QED BY <3>1, <4>3 DEF e
    <3>2. CASE n # x + 1
      <4>1. n \in 0 .. x /\ (n # 0 => n - 1 \in 0 .. x /\ n - 1 \in 0 .. x + 1 /\ n - 1 # x + 1)
        BY <3>2
      <4>2. f[n] = IF n = 0 THEN Emit(code, "jcc") ELSE BrOrRet(f[n - 1], "br_table", labels[n])
        BY <2>1, <4>1 DEF CasesUpTo
      <4>3. n # 0 => g[n - 1] = f[n - 1]
        BY <4>1
      <4>4. g[n] = f[n]
        BY <3>2
      <4>5. h[n] = IF n = 0 THEN Emit(code, "jcc") ELSE BrOrRet(g[n - 1], "br_table", labels[n])
        OBVIOUS
      <4> HIDE DEF g, h
      <4> QED BY <4>2, <4>3, <4>4, <4>5
    <3> QED BY <3>1, <3>2
  <2>3. g = h
    <3>1. \A f1, f2 : f1 = [n \in 0 .. x + 1 |-> f1[n]] /\ f2 = [n \in 0 .. x + 1 |-> f2[n]]
                      /\ (\A n \in 0 .. x + 1 : f1[n] = f2[n]) => f1 = f2
      OBVIOUS
    <3>2. g = [n \in 0 .. x + 1 |-> g[n]] /\ h = [n \in 0 .. x + 1 |-> h[n]]
      OBVIOUS
    <3> HIDE DEF g, h
    <3> QED BY <2>2, <3>1, <3>2
  <2>4. CasesUpTo(labels, x + 1, g)
    <3> HIDE DEF g
    <3> QED BY <2>3 DEF CasesUpTo
  <2> QED BY <2>4
<1> HIDE DEF S
<1>3. Nat \subseteq S
  BY <1>1, <1>2, UpTo
<1> QED BY <1>3 DEF S

LEMMA CasesSound ==
  ASSUME Sound(code, control, bound), NEW ks \in SUBSET (0 .. Depth - 1), NEW labels \in SetToSeqs(ks)
  PROVE  Sound(Cases(labels), control, bound)
<1>1. Depth \in Nat /\ IsFiniteSet(0 .. Depth - 1)
  <2>1. Depth \in Nat
    BY DEF Depth, Sound, Nested
  <2> QED BY <2>1, FS_Interval
<1>2. IsFiniteSet(ks) /\ Cardinality(ks) \in Nat
  BY <1>1, FS_Subset, FS_CardinalityType
<1>3. PICK m \in Nat : m = Len(labels) /\ \A n \in 1 .. m : labels[n] \in ks
  <2>1. labels \in [1 .. Cardinality(ks) -> ks]
    BY DEF SetToSeqs
  <2>2. labels \in Seq(ks) /\ Len(labels) = Cardinality(ks)
    BY <1>2, <2>1
  <2> QED BY <1>2, <2>1, <2>2
<1> DEFINE case == CHOOSE f : CasesUpTo(labels, m, f)
<1>4. CasesUpTo(labels, m, case)
  BY CasesExist
<1>5. Cases(labels) = case[m]
  BY <1>3 DEF Cases, CasesUpTo
<1> HIDE DEF case
<1> DEFINE T == {n \in Nat : n <= m => Sound(case[n], control, bound)}
<1>6. 0 \in T
  <2>1. case[0] = Emit(code, "jcc")
    <3>1. 0 \in 0 .. m
      OBVIOUS
    <3> QED BY <1>4, <3>1 DEF CasesUpTo
  <2>2. "jcc" \in Tails \ {"none"}
    BY DEF Tails
  <2>3. Sound(Emit(code, "jcc"), control, bound)
    BY <2>2, EmitSound
  <2> QED BY <2>1, <2>3
<1>7. ASSUME NEW n \in Nat, n \in T PROVE n + 1 \in T
  <2> SUFFICES ASSUME n + 1 <= m PROVE Sound(case[n + 1], control, bound)
    OBVIOUS
  <2>1. n + 1 \in 0 .. m /\ n + 1 # 0 /\ n + 1 - 1 = n /\ n <= m /\ n + 1 \in 1 .. m
    OBVIOUS
  <2>2. case[n + 1] = BrOrRet(case[n], "br_table", labels[n + 1])
    BY <1>4, <2>1 DEF CasesUpTo
  <2>3. Sound(case[n], control, bound)
    BY <1>7, <2>1
  <2>4. labels[n + 1] \in 0 .. Depth - 1
    BY <1>3, <2>1
  <2>5. Sound(BrOrRet(case[n], "br_table", labels[n + 1]), control, bound)
    BY <2>3, <2>4, BrSound
  <2> QED BY <2>2, <2>5
<1> HIDE DEF T
<1>8. m \in T
  BY <1>6, <1>7, UpTo
<1>9. Sound(case[m], control, bound)
  <2>1. m <= m
    OBVIOUS
  <2> QED BY <1>8, <2>1 DEF T
<1> QED BY <1>5, <1>9

-----------------------------------------------------------------------------
(* The control stack. *)

LEMMA ReachKeeps ==
  ASSUME control \in Seq(BlockT), NEW targets
  PROVE  SameBlocks(control, Reach(targets))
<1> DEFINE c(i) == IF Depth - i \in targets /\ control[i].type # "loop"
                   THEN [control[i] EXCEPT !.endReached = TRUE] ELSE control[i]
<1>1. \A i \in 1 .. Len(control) :
        c(i) \in BlockT /\ c(i).id = control[i].id /\ c(i).type = control[i].type
        /\ c(i).inner = control[i].inner
  <2> TAKE i \in 1 .. Len(control)
  <2>1. control[i] \in BlockT
    OBVIOUS
  <2> QED BY <2>1 DEF BlockT
<1>2. DOMAIN control = 1 .. Len(control) /\ Len(control) \in Nat
  OBVIOUS
<1>3. Reach(targets) = [i \in 1 .. Len(control) |-> c(i)]
  BY <1>2 DEF Reach
<1> HIDE DEF c
<1>4. Reach(targets) \in Seq(BlockT) /\ Len(Reach(targets)) = Len(control)
  BY <1>1, <1>2, <1>3
<1> QED BY <1>1, <1>3, <1>4 DEF SameBlocks

\* Where nothing goes on.
LEMMA EndControlKeeps ==
  ASSUME NEW c \in Seq(BlockT), Len(c) = Depth, Depth > 0
  PROVE  /\ SameBlocks(c, EndControl(c)) /\ EndControl(c) # << >>
         /\ \A u : NoDeadEnd(u, EndControl(c))
<1> DEFINE b == EndControl(c)
<1>1. PICK d \in Nat \ {0} : d = Depth /\ d = Len(c) /\ DOMAIN c = 1 .. d /\ d \in 1 .. d
  <2>1. Len(c) \in Nat /\ Len(c) > 0
    OBVIOUS
  <2> QED BY <2>1
<1>2. c[d] \in BlockT
  BY <1>1
<1> DEFINE x == [c[d] EXCEPT !.reach = "unreachable"]
<1>3. x \in BlockT /\ x.id = c[d].id /\ x.type = c[d].type /\ x.inner = c[d].inner /\ x.reach = "unreachable"
  BY <1>2 DEF BlockT, Reaches
<1>4. b = [c EXCEPT ![d] = x]
  BY <1>1 DEF EndControl
<1> HIDE DEF x, b
<1>5. /\ b \in Seq(BlockT) /\ Len(b) = d /\ b[d] = x
      /\ \A i \in 1 .. d : i # d => b[i] = c[i]
  BY <1>1, <1>3, <1>4
<1>6. SameBlocks(c, b)
  BY <1>1, <1>3, <1>5 DEF SameBlocks
<1>7. b # << >> /\ ~Live(b[Len(b)])
  BY <1>3, <1>5 DEF Live
<1> QED BY <1>6, <1>7 DEF NoDeadEnd, b

LEMMA OutsideIs ==
  ASSUME control \in Seq(BlockT), NEW d \in Nat \ {0}, Len(control) = d, d > 1, NEW reached
  PROVE  EndOf(control, Outside(reached), d) /\ Outside(reached) # << >>
<1> DEFINE outer == Front(control)
           o == outer[d - 1]
           x == [o EXCEPT !.reach = IF ~reached /\ Live(o) THEN "specOnly" ELSE o.reach,
                          !.inner = TRUE]
           c == Outside(reached)
<1>1. /\ outer \in Seq(BlockT) /\ Len(outer) = d - 1 /\ DOMAIN outer = 1 .. d - 1 /\ d - 1 \in 1 .. d - 1
      /\ \A i \in 1 .. d - 1 : outer[i] = control[i]
  BY DEF Front
<1> HIDE DEF outer
<1>2. o \in BlockT
  BY <1>1
<1>3. x \in BlockT /\ x.id = o.id /\ x.type = o.type /\ x.inner
  BY <1>2 DEF BlockT, Reaches
<1>4. c = [outer EXCEPT ![d - 1] = x]
  <2>1. Depth = d
    BY DEF Depth
  <2>2. c = [outer EXCEPT ![Depth - 1] =
              [outer[Depth - 1] EXCEPT
                 !.reach = IF ~reached /\ Live(outer[Depth - 1]) THEN "specOnly" ELSE outer[Depth - 1].reach,
                 !.inner = TRUE]]
    BY DEF Outside, outer
  <2> HIDE DEF c
  <2> QED BY <2>1, <2>2
<1> HIDE DEF x, c
<1>5. /\ c \in Seq(BlockT) /\ Len(c) = d - 1 /\ c[d - 1] = x
      /\ \A i \in 1 .. d - 1 : i # d - 1 => c[i] = outer[i]
  BY <1>1, <1>3, <1>4
<1>6. \A i \in 1 .. d - 1 : /\ c[i].id = control[i].id /\ c[i].type = control[i].type
                            /\ control[i].inner => c[i].inner
  BY <1>1, <1>3, <1>5
<1>7. c # << >>
  BY <1>1, <1>5
<1>8. EndOf(control, c, d)
  BY <1>3, <1>5, <1>6 DEF EndOf
<1> QED BY <1>7, <1>8 DEF c

LEMMA InnerIs ==
  ASSUME NEW c
  PROVE  Inner(c) \in Reaches /\ Live(c) \in BOOLEAN
BY DEF Inner, Live, Reaches

-----------------------------------------------------------------------------
(* The invariant, one action at a time. *)

\* While the function is compiled.
LEMMA Compiles ==
  ASSUME IInv, Depth > 0
  PROVE  /\ entries = << >> /\ control # << >> /\ control \in Seq(BlockT)
         /\ Sound(code, control, bound) /\ NoDeadEnd(code, control)
         /\ \E d \in Nat \ {0} : d = Depth /\ d = Len(control) /\ d \in DOMAIN control
         /\ \E n \in Nat \ {0} : n = Len(code.nodes)
<1>1. Sound(code, control, bound) /\ NoDeadEnd(code, control) /\ control \in Seq(BlockT)
  BY DEF IInv, Sound, Nested
<1>2. Len(control) \in Nat /\ Len(control) > 0 /\ control # << >>
  BY <1>1 DEF Depth
<1>3. \E d \in Nat \ {0} : d = Depth /\ d = Len(control) /\ d \in DOMAIN control
  <2>1. Len(control) \in Nat \ {0} /\ Len(control) \in DOMAIN control
    BY <1>1, <1>2
  <2> QED BY <2>1 DEF Depth
<1>4. Len(code.nodes) \in Nat \ {0}
  BY <1>1 DEF Sound, CodeOK, Tiled
<1>5. entries = << >>
  BY <1>2 DEF IInv
<1> QED BY <1>1, <1>2, <1>3, <1>4, <1>5

LEMMA CompilesOn ==
  ASSUME entries' = << >>, control' # << >>,
         Sound(code', control', bound'), NoDeadEnd(code', control')
  PROVE  IInv'
BY DEF IInv

LEMMA StraightInv ==
  ASSUME IInv, Straight
  PROVE  IInv'
<1>1. Depth > 0 /\ UNCHANGED <<control, bound, entries>>
  BY DEF Straight, Compiling
<1>2. PICK tail \in Code \ {code.tail} : code' = Emit(code, tail)
  BY DEF Straight
<1>3. tail \in Tails \ {"none"} /\ tail # "jmp"
  BY CodeUnitsAssumption DEF Tails
<1>4. entries = << >> /\ control # << >> /\ Sound(code, control, bound)
  BY <1>1, Compiles
<1>5. Sound(code', control, bound) /\ code'.tail = tail
  BY <1>2, <1>3, <1>4, EmitSound
<1>6. Sound(code', control', bound')
  BY <1>1, <1>5
<1>7. NoDeadEnd(code', control')
  BY <1>3, <1>5 DEF NoDeadEnd
<1> QED BY <1>1, <1>4, <1>6, <1>7, CompilesOn

LEMMA OpenBlockInv ==
  ASSUME IInv, OpenBlock
  PROVE  IInv'
<1>1. Depth > 0 /\ Depth < MaxDepth /\ Room(1) /\ UNCHANGED entries
  BY DEF OpenBlock, Compiling
<1>2. /\ entries = << >> /\ control \in Seq(BlockT) /\ Sound(code, control, bound)
      /\ NoDeadEnd(code, control)
  BY <1>1, Compiles
<1>3. PICK d \in Nat \ {0} : d = Depth /\ d = Len(control)
  BY <1>1, Compiles
<1>4. PICK n \in Nat \ {0} : n = Len(code.nodes)
  BY <1>1, Compiles
<1> DEFINE falls == Live(Current)
           w == StartUnit(code, "block", d + 1, falls)
           ctl2 == Append(control, Block(n + 1, "block", Inner(Current)))
           bnd2 == StartBinds(bound, code, "block", falls, n)
<1>5. d < MaxDepth /\ n < MaxUnits /\ falls \in BOOLEAN /\ Inner(Current) \in Reaches
      /\ (falls => Live(control[d]))
  <2>1. n < MaxUnits
    BY <1>1, <1>4, CodeUnitsAssumption DEF Room
  <2> QED BY <1>1, <1>3, <2>1, InnerIs DEF Current
<1>6. code' = w /\ control' = ctl2 /\ bound' = bnd2
  BY <1>3, <1>4 DEF OpenBlock, Opened, StartBinds
<1> HIDE DEF falls
<1>7. Sound(w, ctl2, bnd2) /\ w.tail = "none"
  BY <1>2, <1>3, <1>4, <1>5, StartSound
<1>8. ctl2 # << >>
  BY <1>2
<1> HIDE DEF w, ctl2, bnd2
<1>9. NoDeadEnd(w, ctl2)
  BY <1>7 DEF NoDeadEnd
<1> QED BY <1>1, <1>2, <1>6, <1>7, <1>8, <1>9, CompilesOn

LEMMA OpenLoopInv ==
  ASSUME IInv, OpenLoop
  PROVE  IInv'
<1>1. Depth > 0 /\ Depth < MaxDepth /\ Room(1) /\ UNCHANGED entries
  BY DEF OpenLoop, Compiling
<1>2. /\ entries = << >> /\ control \in Seq(BlockT) /\ Sound(code, control, bound)
      /\ NoDeadEnd(code, control)
  BY <1>1, Compiles
<1>3. PICK d \in Nat \ {0} : d = Depth /\ d = Len(control)
  BY <1>1, Compiles
<1>4. PICK n \in Nat \ {0} : n = Len(code.nodes)
  BY <1>1, Compiles
<1> DEFINE falls == Live(Current)
           w == StartUnit(code, "loop", d + 1, falls)
           ctl2 == Append(control, Block(n + 1, "loop", Inner(Current)))
           bnd2 == StartBinds(bound, code, "loop", falls, n)
<1>5. d < MaxDepth /\ n < MaxUnits /\ falls \in BOOLEAN /\ Inner(Current) \in Reaches
      /\ (falls => Live(control[d]))
  <2>1. n < MaxUnits
    BY <1>1, <1>4, CodeUnitsAssumption DEF Room
  <2> QED BY <1>1, <1>3, <2>1, InnerIs DEF Current
<1>6. code' = w /\ control' = ctl2
  BY <1>3, <1>4 DEF OpenLoop, Opened
<1>7. bound' = Bind(BindNext(bound, falls, code), Label(n + 1, "start"), Len(code'.nodes))
  BY <1>4 DEF OpenLoop
<1> HIDE DEF falls
<1>8. Sound(w, ctl2, bnd2) /\ w.tail = "none" /\ Len(w.nodes) = n + 1
  BY <1>2, <1>3, <1>4, <1>5, StartSound
<1>9. bound' = bnd2
  <2>1. Len(code'.nodes) = n + 1
    BY <1>6, <1>8
  <2> QED BY <1>7, <2>1 DEF StartBinds
<1>10. ctl2 # << >>
  BY <1>2
<1> HIDE DEF w, ctl2, bnd2
<1>11. NoDeadEnd(w, ctl2)
  BY <1>8 DEF NoDeadEnd
<1> QED BY <1>1, <1>2, <1>6, <1>8, <1>9, <1>10, <1>11, CompilesOn

LEMMA OpenIfInv ==
  ASSUME IInv, OpenIf
  PROVE  IInv'
<1>1. Depth > 0 /\ Depth < MaxDepth /\ Room(1) /\ UNCHANGED entries
  BY DEF OpenIf, Compiling
<1>2. /\ entries = << >> /\ control \in Seq(BlockT) /\ Sound(code, control, bound)
      /\ NoDeadEnd(code, control)
  BY <1>1, Compiles
<1>3. PICK d \in Nat \ {0} : d = Depth /\ d = Len(control)
  BY <1>1, Compiles
<1>4. PICK n \in Nat \ {0} : n = Len(code.nodes)
  BY <1>1, Compiles
<1> DEFINE falls == Live(Current)
           u == StartUnit(code, "if", d + 1, falls)
           b == Block(n + 1, "if", Inner(Current))
           ctl2 == Append(control, b)
           bnd2 == StartBinds(bound, code, "if", falls, n)
           goal == Label(n + 1, "else")
           w == Branch(u, "if", "jcc", 0, goal)
           t == NewTarget(0, "ifUnknown", 0, "branch")
<1>5. d < MaxDepth /\ n < MaxUnits /\ falls \in BOOLEAN /\ Inner(Current) \in Reaches
      /\ (falls => Live(control[d]))
  <2>1. n < MaxUnits
    BY <1>1, <1>4, CodeUnitsAssumption DEF Room
  <2> QED BY <1>1, <1>3, <2>1, InnerIs DEF Current
<1>6. code' = w /\ control' = ctl2 /\ bound' = bnd2
  BY <1>3, <1>4 DEF OpenIf, Opened, StartBinds
<1> HIDE DEF falls
<1>7. Sound(u, ctl2, bnd2) /\ Len(u.nodes) = n + 1
  BY <1>2, <1>3, <1>4, <1>5, StartSound
<1>8. b.id = n + 1 /\ b.type = "if"
  BY DEF Block
<1> HIDE DEF b
<1>9. ctl2 # << >> /\ Len(ctl2) = d + 1 /\ ctl2[d + 1] = b
  BY <1>2, <1>3
<1> HIDE DEF u, ctl2, bnd2
<1>10. t \in TargetT /\ t.border = "branch" /\ t.id = 0 /\ t.depth = 0 /\ t.type = "ifUnknown"
  BY DEF NewTarget, TargetT, TargetTypes, Unknown, Borders
<1>11. NotedTarget(u, "if", 0, t)
  <2>1. UnknownFor("if") = "ifUnknown"
    BY DEF UnknownFor
  <2> QED BY <1>10, <2>1 DEF NotedTarget
<1> HIDE DEF t
<1>12. t.id <= Len(u.nodes)
  BY <1>7, <1>10
<1>13. goal \in Places /\ Aimed(LeaNext(u, Len(u.nodes), t, u.size, goal), u, ctl2, bnd2)
  <2>1. PICK e \in Nat \ {0} : e = d + 1 /\ e \in 2 .. e /\ e = e - 0 /\ 0 \in Nat
    OBVIOUS
  <2>2. goal = Label(ctl2[e].id, "else") /\ ctl2[e].type = "if" /\ Len(ctl2) = e
    BY <1>8, <1>9, <2>1
  <2> HIDE DEF goal
  <2> QED BY <1>7, <1>10, <2>1, <2>2, AimedAhead
<1> HIDE DEF goal
<1>14. Sound(w, ctl2, bnd2) /\ w.tail = "jcc"
  <2>1. "jcc" \in Tails \ {"none"} /\ "if" \in Ops /\ 0 \in Nat
    BY DEF Tails, Ops
  <2> QED BY <1>7, <1>10, <1>11, <1>12, <1>13, <2>1, BranchSound
<1> HIDE DEF w
<1>15. NoDeadEnd(w, ctl2)
  BY <1>14 DEF NoDeadEnd
<1> QED BY <1>1, <1>2, <1>6, <1>9, <1>14, <1>15, CompilesOn

LEMMA ElseInv ==
  ASSUME IInv, Else
  PROVE  IInv'
<1>1. Depth > 1 /\ Current.type = "if" /\ Room(1) /\ UNCHANGED entries
  BY DEF Else
<1>2. PICK d \in Nat \ {0} : d = Depth /\ d = Len(control) /\ d > 1 /\ d \in DOMAIN control
  <2>1. Depth \in Nat /\ Depth > 0
    BY <1>1 DEF Depth, IInv, Sound, Nested
  <2> QED BY <1>1, <2>1, Compiles
<1>3. /\ entries = << >> /\ control \in Seq(BlockT) /\ Sound(code, control, bound)
  BY <1>2, Compiles
<1>4. PICK n \in Nat \ {0} : n = Len(code.nodes) /\ n < MaxUnits
  <2>1. PICK n \in Nat \ {0} : n = Len(code.nodes)
    BY <1>2, Compiles
  <2> QED BY <1>1, <2>1, CodeUnitsAssumption DEF Room
<1> DEFINE u == EndArm("else")
           b == [Current EXCEPT !.type = "else", !.reach = Inner(control[Depth - 1]),
                                !.endReached = Current.endReached \/ Live(Current)]
           ctl2 == [control EXCEPT ![d] = b]
           w == ElseUnit(u, d)
           bnd2 == Bind(bound, Label(control[d].id, "else"), n + 1)
<1>5. Sound(u, control, bound) /\ Len(u.nodes) = n
  BY <1>1, <1>3, <1>4, EndArmSound
<1>6. control' = ctl2 /\ code' = w /\ bound' = Bind(bound, Label(Current.id, "else"), Len(code'.nodes))
  BY <1>2 DEF Else, ElseUnit
<1> HIDE DEF u
<1>7. b \in BlockT /\ b.id = control[d].id /\ b.type = "else"
  <2>1. Current = control[d] /\ control[d] \in BlockT
    BY <1>2, <1>3 DEF Current
  <2>2. Inner(control[Depth - 1]) \in Reaches /\ (Current.endReached \/ Live(Current)) \in BOOLEAN
    BY InnerIs
  <2> QED BY <2>1, <2>2 DEF BlockT, Types
<1>8. control[d].type = "if"
  BY <1>1, <1>2 DEF Current
<1> HIDE DEF b
<1>9. /\ ctl2 \in Seq(BlockT) /\ Len(ctl2) = d /\ ctl2[d] = b /\ ctl2 # << >>
      /\ \A i \in 1 .. d - 1 : ctl2[i] = control[i]
  BY <1>2, <1>3, <1>7
<1> HIDE DEF ctl2
<1>10. Sound(w, ctl2, bnd2) /\ Len(w.nodes) = n + 1 /\ w.tail = "none"
  <2>1. ElseOf(control, ctl2, d)
    BY <1>7, <1>9 DEF ElseOf
  <2>2. Len(control) = d /\ d > 1
    BY <1>2
  <2> QED BY <1>4, <1>5, <1>8, <2>1, <2>2, ElseSound
<1>11. bound' = bnd2
  BY <1>2, <1>6, <1>10 DEF Current
<1> HIDE DEF w, bnd2
<1>12. NoDeadEnd(w, ctl2)
  BY <1>10 DEF NoDeadEnd
<1> QED BY <1>1, <1>3, <1>6, <1>9, <1>10, <1>11, <1>12, CompilesOn

LEMMA EndInv ==
  ASSUME IInv, End
  PROVE  IInv'
<1>1. Depth > 1 /\ Current.type # "if" /\ Room(1) /\ UNCHANGED entries
  BY DEF End
<1>2. PICK d \in Nat \ {0} : d = Depth /\ d = Len(control) /\ d > 1 /\ d \in DOMAIN control
  <2>1. Depth \in Nat /\ Depth > 0
    BY <1>1 DEF Depth, IInv, Sound, Nested
  <2> QED BY <1>1, <2>1, Compiles
<1>3. /\ entries = << >> /\ control \in Seq(BlockT) /\ Sound(code, control, bound)
      /\ NoDeadEnd(code, control) /\ control # << >>
  BY <1>2, Compiles
<1>4. PICK n \in Nat \ {0} : n = Len(code.nodes) /\ n < MaxUnits
  <2>1. PICK n \in Nat \ {0} : n = Len(code.nodes)
    BY <1>2, Compiles
  <2> QED BY <1>1, <2>1, CodeUnitsAssumption DEF Room
<1> DEFINE falls == Live(Current)
           reached == falls \/ Current.endReached
           ctl2 == Outside(reached)
           w == EndUnit(code, Current.type, d - 1, falls)
           bnd2 == EndBinds(bound, code, falls, control[d].id, n)
<1>5. EndOf(control, ctl2, d) /\ ctl2 # << >>
  BY <1>2, <1>3, OutsideIs
<1>6. control' = ctl2 /\ code' = w
  BY <1>2 DEF End
<1>7. bound' = Bind(BindNext(bound, falls, code), Label(control[d].id, "end"), Len(code'.nodes))
  BY <1>2 DEF End, Current
<1>8. /\ Current = control[d] /\ Current.type \in Types /\ control[d].type # "if"
      /\ falls \in BOOLEAN /\ (falls /\ code.tail = "jmp" => code.last = "br_if")
  <2>1. Current = control[d] /\ control[d] \in BlockT
    BY <1>2, <1>3 DEF Current
  <2>2. Current.type \in Types
    BY <2>1 DEF BlockT
  <2>3. falls /\ code.tail = "jmp" => code.last = "br_if"
    BY <1>2, <1>3, <2>1 DEF NoDeadEnd
  <2> QED BY <1>1, <2>1, <2>2, <2>3, InnerIs
<1> HIDE DEF ctl2, falls
<1>9. Sound(w, ctl2, bnd2) /\ Len(w.nodes) = n + 1 /\ w.tail = "none"
  <2>1. PICK type \in Types : type = Current.type
    BY <1>8
  <2>2. w = EndUnit(code, type, d - 1, falls)
    BY <2>1
  <2> HIDE DEF w
  <2>3. Len(control) = d /\ d > 1
    BY <1>2
  <2> QED BY <1>3, <1>4, <1>5, <1>8, <2>2, <2>3, EndSound
<1>10. bound' = bnd2
  BY <1>6, <1>7, <1>9 DEF EndBinds
<1> HIDE DEF w, bnd2
<1>11. NoDeadEnd(w, ctl2)
  BY <1>9 DEF NoDeadEnd
<1> QED BY <1>1, <1>3, <1>5, <1>6, <1>9, <1>10, <1>11, CompilesOn

LEMMA EndOneArmedIfInv ==
  ASSUME IInv, EndOneArmedIf
  PROVE  IInv'
<1>1. Depth > 1 /\ Current.type = "if" /\ Room(2) /\ UNCHANGED entries
  BY DEF EndOneArmedIf
<1>2. PICK d \in Nat \ {0} : d = Depth /\ d = Len(control) /\ d > 1 /\ d \in DOMAIN control
  <2>1. Depth \in Nat /\ Depth > 0
    BY <1>1 DEF Depth, IInv, Sound, Nested
  <2> QED BY <1>1, <2>1, Compiles
<1>3. /\ entries = << >> /\ control \in Seq(BlockT) /\ Sound(code, control, bound)
  BY <1>2, Compiles
<1>4. PICK n \in Nat \ {0} : n = Len(code.nodes) /\ n < MaxUnits /\ n + 1 < MaxUnits /\ n + 1 \in Nat \ {0}
  <2>1. PICK n \in Nat \ {0} : n = Len(code.nodes)
    BY <1>2, Compiles
  <2> QED BY <1>1, <2>1, CodeUnitsAssumption DEF Room
<1> DEFINE u    == EndArm("end")
           bare == ElseUnit(u, d)
           Arm(tail) == IF tail = "none" THEN bare ELSE Emit(bare, tail)
           falls == Live(control[Depth - 1])
           ctl2 == Outside(TRUE)
           bndE == Bind(bound, Label(control[d].id, "else"), n + 1)
           ctlE == [control EXCEPT ![d] = [control[d] EXCEPT !.type = "else"]]
<1>5. Sound(u, control, bound) /\ Len(u.nodes) = n
  BY <1>1, <1>3, <1>4, EndArmSound
<1>6. control' = ctl2
  BY DEF EndOneArmedIf
<1>7. PICK tail \in {"none"} \cup Code :
        /\ code' = EndUnit(Arm(tail), "if", d - 1, falls)
        /\ bound' = Bind(BindNext(Bind(bound, Label(Current.id, "else"), Len(Arm(tail).nodes)), falls, Arm(tail)),
                         Label(Current.id, "end"), Len(code'.nodes))
  BY <1>2 DEF EndOneArmedIf, ElseUnit
<1>8. Current = control[d] /\ control[d].type = "if" /\ falls \in BOOLEAN
  BY <1>1, <1>2, InnerIs DEF Current
<1> HIDE DEF u, falls
<1>9. ElseOf(control, ctlE, d) /\ ctlE[d].type # "if" /\ \A i \in 1 .. d : ctlE[i].id = control[i].id
  <2> DEFINE b == [control[d] EXCEPT !.type = "else"]
  <2>1. control[d] \in BlockT
    BY <1>2, <1>3
  <2>2. b \in BlockT /\ b.id = control[d].id /\ b.type = "else"
    BY <2>1 DEF BlockT, Types
  <2> HIDE DEF b
  <2>3. ctlE = [control EXCEPT ![d] = b]
    BY DEF b
  <2>4. /\ ctlE \in Seq(BlockT) /\ Len(ctlE) = d /\ ctlE[d] = b
        /\ \A i \in 1 .. d - 1 : ctlE[i] = control[i]
    <3> HIDE DEF ctlE
    <3> QED BY <1>2, <1>3, <2>2, <2>3
  <2> HIDE DEF ctlE
  <2>5. \A i \in 1 .. d : i = d \/ i \in 1 .. d - 1
    OBVIOUS
  <2> QED BY <2>2, <2>4, <2>5 DEF ElseOf
<1>10. EndOf(control, ctl2, d) /\ ctl2 # << >>
  BY <1>2, <1>3, OutsideIs
<1>11. EndOf(ctlE, ctl2, d)
  <2>1. \A i \in 1 .. d - 1 : ctlE[i] = control[i]
    BY <1>9 DEF ElseOf
  <2> HIDE DEF ctlE, ctl2
  <2> QED BY <1>10, <2>1 DEF EndOf
<1> HIDE DEF ctlE, ctl2
<1>12. Sound(bare, ctlE, bndE) /\ Len(bare.nodes) = n + 1 /\ bare.tail = "none"
  <2>1. Len(control) = d /\ d > 1
    BY <1>2
  <2> QED BY <1>4, <1>5, <1>8, <1>9, <2>1, ElseSound
<1> HIDE DEF bare, bndE
<1>13. PICK arm : arm = Arm(tail)
  OBVIOUS
<1>14. Sound(arm, ctlE, bndE) /\ Len(arm.nodes) = n + 1 /\ arm.tail # "jmp"
  <2>1. CASE tail = "none"
    BY <1>12, <1>13, <2>1
  <2>2. CASE tail # "none"
    <3>1. tail \in Tails \ {"none"} /\ tail # "jmp"
      BY <2>2, CodeUnitsAssumption DEF Tails
    <3> QED BY <1>12, <1>13, <2>2, <3>1, EmitSound
  <2> QED BY <2>1, <2>2
<1> DEFINE w == EndUnit(arm, "if", d - 1, falls)
           bnd2 == EndBinds(bndE, arm, falls, ctlE[d].id, n + 1)
<1>15. Sound(w, ctl2, bnd2) /\ Len(w.nodes) = n + 1 + 1 /\ w.tail = "none"
  <2>1. Len(ctlE) = d /\ d > 1
    BY <1>2, <1>9 DEF ElseOf
  <2>2. PICK m \in Nat \ {0} : m = n + 1 /\ m < MaxUnits /\ Len(arm.nodes) = m
    BY <1>4, <1>14
  <2>3. "if" \in Types
    BY DEF Types
  <2>4. falls /\ arm.tail = "jmp" => arm.last = "br_if"
    BY <1>14
  <2>5. LET w1 == EndUnit(arm, "if", d - 1, falls)
        IN  /\ Sound(w1, ctl2, EndBinds(bndE, arm, falls, ctlE[d].id, m))
            /\ Len(w1.nodes) = m + 1 /\ w1.tail = "none"
    BY <1>8, <1>9, <1>11, <1>14, <2>1, <2>2, <2>3, <2>4, EndSound
  <2> QED BY <2>2, <2>5
<1>16. code' = w /\ bound' = bnd2
  <2>1. code' = w
    BY <1>7, <1>13
  <2>2. Len(code'.nodes) = n + 1 + 1 /\ Len(Arm(tail).nodes) = n + 1
    BY <1>13, <1>14, <1>15, <2>1
  <2>3. bound' = Bind(BindNext(Bind(bound, Label(control[d].id, "else"), n + 1), falls, arm),
                      Label(control[d].id, "end"), n + 1 + 1)
    BY <1>7, <1>8, <1>13, <2>2
  <2>4. ctlE[d].id = control[d].id
    BY <1>9
  <2> QED BY <2>1, <2>3, <2>4 DEF EndBinds, bndE
<1> HIDE DEF w, bnd2
<1>17. NoDeadEnd(w, ctl2)
  BY <1>15 DEF NoDeadEnd
<1> QED BY <1>1, <1>3, <1>6, <1>10, <1>15, <1>16, <1>17, CompilesOn

\* What does not go on.
LEMMA Ends ==
  ASSUME IInv, Depth > 0, NEW c, SameBlocks(control, c), control' = EndControl(c),
         entries' = entries, bound' = bound, Sound(code', control, bound)
  PROVE  IInv'
<1>1. entries = << >> /\ control \in Seq(BlockT)
  BY Compiles
<1>2. c \in Seq(BlockT) /\ Len(c) = Depth
  BY DEF SameBlocks, Depth
<1>3. SameBlocks(c, control') /\ control' # << >> /\ NoDeadEnd(code', control')
  BY <1>2, EndControlKeeps
<1>4. Sound(code', c, bound)
  BY BlocksKept
<1>5. Sound(code', control', bound)
  BY <1>3, <1>4, BlocksKept
<1> QED BY <1>1, <1>3, <1>5, CompilesOn

LEMMA SameBlocksRefl ==
  ASSUME NEW ctl \in Seq(BlockT)
  PROVE  SameBlocks(ctl, ctl)
BY DEF SameBlocks

LEMMA ReturnInv ==
  ASSUME IInv, Return
  PROVE  IInv'
<1>1. /\ Depth > 0 /\ control' = EndControl(control) /\ code' = Emit(code, "ret")
      /\ UNCHANGED <<bound, entries>>
  BY DEF Return, Compiling
<1>2. control \in Seq(BlockT) /\ Sound(code, control, bound)
  BY <1>1, Compiles
<1>3. SameBlocks(control, control)
  BY <1>2, SameBlocksRefl
<1>4. Sound(code', control, bound)
  <2>1. "ret" \in Tails \ {"none"}
    BY DEF Tails
  <2> QED BY <1>1, <1>2, <2>1, EmitSound
<1> QED BY <1>1, <1>3, <1>4, Ends

LEMMA UnreachableInv ==
  ASSUME IInv, Unreachable
  PROVE  IInv'
<1>1. /\ Depth > 0 /\ control' = EndControl(control) /\ UNCHANGED <<code, bound, entries>>
  BY DEF Unreachable, Compiling
<1>2. control \in Seq(BlockT) /\ Sound(code, control, bound)
  BY <1>1, Compiles
<1>3. SameBlocks(control, control)
  BY <1>2, SameBlocksRefl
<1> QED BY <1>1, <1>2, <1>3, Ends

LEMMA BrInv ==
  ASSUME IInv, NEW k \in 0 .. Depth - 1, Br(k) \/ BrDropped(k)
  PROVE  IInv'
<1>1. /\ Depth > 0 /\ UNCHANGED <<bound, entries>>
      /\ \E c : c \in {control, Reach({k})} /\ control' = EndControl(c)
      /\ code' = code \/ code' = BrOrRet(code, "br", k)
  BY DEF Br, BrDropped, Compiling
<1>2. control \in Seq(BlockT) /\ Sound(code, control, bound)
  BY <1>1, Compiles
<1>3. PICK c : c \in {control, Reach({k})} /\ control' = EndControl(c)
  BY <1>1
<1>4. SameBlocks(control, c)
  BY <1>2, <1>3, SameBlocksRefl, ReachKeeps
<1>5. Sound(code', control, bound)
  BY <1>1, <1>2, BrSound
<1> QED BY <1>1, <1>3, <1>4, <1>5, Ends

LEMMA BrIfInv ==
  ASSUME IInv, NEW k \in 0 .. Depth - 1, BrIf(k)
  PROVE  IInv'
<1>1. /\ Depth > 0 /\ control' = Reach({k}) /\ UNCHANGED <<bound, entries>>
      /\ code' = BrOrRet(Emit(code, "jcc"), "br_if", k)
  BY DEF BrIf, Compiling
<1>2. entries = << >> /\ control # << >> /\ control \in Seq(BlockT) /\ Sound(code, control, bound)
  BY <1>1, Compiles
<1>3. SameBlocks(control, control')
  BY <1>1, <1>2, ReachKeeps
<1>4. Sound(Emit(code, "jcc"), control, bound)
  <2>1. "jcc" \in Tails \ {"none"}
    BY DEF Tails
  <2> QED BY <1>2, <2>1, EmitSound
<1>5. Sound(code', control, bound) /\ (code'.tail = "jmp" => code'.last = "br_if")
  BY <1>1, <1>4, BrSound
<1>6. Sound(code', control', bound')
  BY <1>1, <1>3, <1>5, BlocksKept
<1>7. control' # << >>
  <2>1. Len(control) \in Nat /\ Len(control) # 0
    BY <1>2
  <2> QED BY <1>3, <2>1 DEF SameBlocks
<1>8. NoDeadEnd(code', control')
  BY <1>5 DEF NoDeadEnd
<1> QED BY <1>1, <1>2, <1>6, <1>7, <1>8, CompilesOn

LEMMA BrTableInv ==
  ASSUME IInv, NEW ks \in SUBSET (0 .. Depth - 1), NEW labels \in SetToSeqs(ks), BrTable(labels)
  PROVE  IInv'
<1>1. /\ Depth > 0 /\ control' = EndControl(Reach(Range(labels))) /\ UNCHANGED <<bound, entries>>
      /\ code' = Cases(labels)
  BY DEF BrTable, Compiling
<1>2. control \in Seq(BlockT) /\ Sound(code, control, bound)
  BY <1>1, Compiles
<1>3. SameBlocks(control, Reach(Range(labels)))
  BY <1>2, ReachKeeps
<1>4. Sound(code', control, bound)
  BY <1>1, <1>2, CasesSound
<1> QED BY <1>1, <1>3, <1>4, Ends

-----------------------------------------------------------------------------
(* The end of the function. *)

LEMMA FunctionEnds ==
  ASSUME NEW u, NEW ctl, NEW bnd, Sound(u, ctl, bnd), Len(ctl) = 1, u.tail # "none"
  PROVE  Sound(FunctionEnd(u), << >>, bnd) /\ Closed(FunctionEnd(u))
<1> DEFINE w == FunctionEnd(u)
<1>1. u \in CodeT /\ CodeOK(u) /\ Tiled(u) /\ RefsIn(u) /\ Agreed(u) /\ u.ok
  BY DEF Sound, CodeOK
<1>2. PICK n \in Nat \ {0} : n = Len(u.nodes) /\ n \in 1 .. n
  BY <1>1 DEF Tiled
<1>3. u.nodes \in Seq(NodeT) /\ u.nodes[n] \in NodeT /\ u.size \in Nat /\ LastNode(u) = u.nodes[n]
  BY <1>1, <1>2, CodeParts DEF LastNode
<1>4. u.nodes[n].offset \in Nat /\ u.nodes[n].offset < u.size
  <2>1. u.nodes[n].offset < u.size
    BY <1>1, <1>3 DEF Tiled
  <2> QED BY <1>3, <2>1, NodeParts
<1>5. PICK s \in Nat : s = u.size - u.nodes[n].offset
  BY <1>3, <1>4
<1> DEFINE x  == [u.nodes[n] EXCEPT !.size = s]
           ns == [u.nodes EXCEPT ![n] = x]
<1>6. /\ x \in NodeT /\ x.size = s /\ x.offset = u.nodes[n].offset /\ x.depth = u.nodes[n].depth
      /\ x.type = u.nodes[n].type /\ x.state = u.nodes[n].state /\ x.targets = u.nodes[n].targets
  BY <1>3 DEF NodeT
<1>7. w = [u EXCEPT !.nodes = ns]
  BY <1>2, <1>3, <1>5 DEF FunctionEnd
<1> HIDE DEF x
<1>8. ns \in Seq(NodeT) /\ Len(ns) = n /\ ns[n] = x /\ \A i \in 1 .. n : i # n => ns[i] = u.nodes[i]
  BY <1>2, <1>3, <1>6
<1> HIDE DEF ns, w
<1>9. /\ w \in CodeT /\ w.nodes = ns /\ w.refs = u.refs /\ w.size = u.size
      /\ w.tail = u.tail /\ w.last = u.last /\ w.ok
  BY <1>1, <1>7, <1>8, WithNodes
<1>10. \A i \in 1 .. n : /\ w.nodes[i].offset = u.nodes[i].offset
                         /\ w.nodes[i].targets = u.nodes[i].targets
                         /\ w.nodes[i].depth = u.nodes[i].depth
                         /\ i # n => w.nodes[i] = u.nodes[i]
  BY <1>6, <1>8, <1>9
<1>11. Len(w.nodes) = n /\ LastNode(w) = x /\ DOMAIN w.nodes = 1 .. n /\ DOMAIN u.nodes = 1 .. n
  BY <1>2, <1>3, <1>8, <1>9 DEF LastNode
<1>12. Tiled(w)
  <2>1. n \in 1 .. MaxUnits /\ u.nodes[1].offset = 0 /\ 1 \in 1 .. n
    BY <1>1, <1>2 DEF Tiled
  <2>2. \A i \in 1 .. n - 1 : i \in 1 .. n /\ i + 1 \in 1 .. n /\ i # n
    OBVIOUS
  <2>3. \A i \in 1 .. n - 1 : /\ w.nodes[i].offset < w.nodes[i + 1].offset
                              /\ w.nodes[i].size = w.nodes[i + 1].offset - w.nodes[i].offset
    <3> SUFFICES ASSUME NEW i \in 1 .. n - 1
                 PROVE  /\ w.nodes[i].offset < w.nodes[i + 1].offset
                        /\ w.nodes[i].size = w.nodes[i + 1].offset - w.nodes[i].offset
      OBVIOUS
    <3>1. i \in 1 .. n /\ i + 1 \in 1 .. n /\ i # n
      BY <2>2
    <3>2. /\ u.nodes[i].offset < u.nodes[i + 1].offset
          /\ u.nodes[i].size = u.nodes[i + 1].offset - u.nodes[i].offset
      BY <1>1, <1>2 DEF Tiled
    <3>3. /\ w.nodes[i] = u.nodes[i]
          /\ w.nodes[i + 1].offset = u.nodes[i + 1].offset
      BY <1>10, <3>1
    <3> QED BY <3>2, <3>3
  <2>4. LastNode(w).offset < w.size /\ LastNode(w).offset <= w.size
    BY <1>3, <1>4, <1>6, <1>9, <1>11
  <2> QED BY <1>10, <1>11, <2>1, <2>3, <2>4 DEF Tiled
<1>13. RefsIn(w)
  <2> SUFFICES ASSUME NEW k \in DOMAIN u.refs PROVE RefIn(w, u.refs[k])
    BY <1>9 DEF RefsIn
  <2>1. RefIn(u, u.refs[k])
    BY <1>1 DEF RefsIn
  <2>2. \A i \in 1 .. n : UnitEnd(w, i) = UnitEnd(u, i)
    <3> TAKE i \in 1 .. n
    <3>1. i < n => i + 1 \in 1 .. n
      OBVIOUS
    <3> QED BY <1>2, <1>9, <1>10, <1>11, <3>1 DEF UnitEnd
  <2> QED BY <1>2, <1>9, <1>10, <1>11, <2>1, <2>2 DEF RefIn
<1>14. Agreed(w)
  <2>1. \A k \in DOMAIN u.refs : Lea(u.refs[k]) => u.refs[k].unit \in 1 .. n
    BY <1>1, <1>2 DEF RefsIn, RefIn
  <2>2. \A k \in DOMAIN w.refs : Lea(w.refs[k]) =>
          LET m == w.nodes[w.refs[k].unit]
              i == NthOf(w.refs, k)
          IN  i \in DOMAIN m.targets /\ SameTarget(w.refs[k], m, m.targets[i])
    <3> SUFFICES ASSUME NEW k \in DOMAIN u.refs, Lea(u.refs[k])
                 PROVE  LET m == w.nodes[u.refs[k].unit]
                            i == NthOf(u.refs, k)
                        IN  i \in DOMAIN m.targets /\ SameTarget(u.refs[k], m, m.targets[i])
      BY <1>9
    <3> DEFINE m == u.nodes[u.refs[k].unit]
               m2 == w.nodes[u.refs[k].unit]
               i == NthOf(u.refs, k)
    <3>1. i \in DOMAIN m.targets /\ SameTarget(u.refs[k], m, m.targets[i])
      BY <1>1 DEF Agreed
    <3>2. m2.targets = m.targets /\ m2.depth = m.depth
      BY <1>10, <2>1
    <3> HIDE DEF m, m2, i
    <3>3. i \in DOMAIN m2.targets /\ SameTarget(u.refs[k], m2, m2.targets[i])
      BY <3>1, <3>2 DEF SameTarget
    <3> QED BY <3>3 DEF m2, i
  <2>3. \A i \in DOMAIN w.nodes : \A m \in DOMAIN w.nodes[i].targets :
          /\ w.nodes[i].targets[m].id <= Len(w.nodes)
          /\ m > Count(w, i) => w.nodes[i].targets[m].border # "branch"
    BY <1>1, <1>2, <1>9, <1>10, <1>11 DEF Agreed, Count
  <2>4. /\ Count(w, Len(w.nodes)) = Len(LastNode(w).targets)
        /\ \A m \in DOMAIN LastNode(w).targets : LastNode(w).targets[m].border = "branch"
    <3>1. /\ Count(u, n) = Len(LastNode(u).targets)
          /\ \A m \in DOMAIN LastNode(u).targets : LastNode(u).targets[m].border = "branch"
      BY <1>1, <1>2 DEF Agreed
    <3>2. LastNode(w).targets = LastNode(u).targets
      BY <1>2, <1>6, <1>11 DEF LastNode
    <3>3. Count(w, Len(w.nodes)) = Count(u, n)
      BY <1>9, <1>11 DEF Count
    <3> QED BY <3>1, <3>2, <3>3
  <2> QED BY <2>2, <2>3, <2>4 DEF Agreed
<1>15. Nested(w, << >>)
  BY CodeUnitsAssumption DEF Nested
<1>16. PlacesOK(w, << >>, bnd)
  BY <1>2, <1>11 DEF Sound, PlacesOK
<1>17. AllAimed(w, << >>, bnd)
  <2>1. \A r, types, blocks : ~Waits(r, ctl, bnd, types, blocks)
    BY DEF Waits
  <2> QED BY <1>2, <1>9, <1>11, <2>1 DEF Sound, AllAimed, Aimed
<1>18. Chained(w, bnd)
  BY <1>9 DEF Sound, Chained
<1>19. Closed(w)
  BY <1>3, <1>4, <1>5, <1>6, <1>9, <1>11 DEF Closed
<1> QED BY <1>9, <1>12, <1>13, <1>14, <1>15, <1>16, <1>17, <1>18, <1>19 DEF Sound, CodeOK, w

LEMMA EndFunctionInv ==
  ASSUME IInv, EndFunction
  PROVE  IInv'
<1>1. /\ Depth = 1 /\ control' = << >> /\ code' = FunctionEnd(Emit(code, "ret"))
      /\ UNCHANGED <<bound, entries>>
  BY DEF EndFunction
<1>2. entries = << >> /\ Sound(code, control, bound)
  <2>1. Depth > 0
    BY <1>1
  <2> QED BY <2>1, Compiles
<1>3. Sound(Emit(code, "ret"), control, bound) /\ Emit(code, "ret").tail = "ret"
  <2>1. "ret" \in Tails \ {"none"}
    BY DEF Tails
  <2> QED BY <1>2, <2>1, EmitSound
<1>4. Sound(code', << >>, bound) /\ Closed(code')
  BY <1>1, <1>3, FunctionEnds DEF Depth
<1> QED BY <1>1, <1>2, <1>4 DEF IInv, NoDeadEnd

-----------------------------------------------------------------------------
(* Placing. *)

LEMMA OffsetsRise ==
  ASSUME NEW u \in CodeT, Tiled(u), NEW i \in 1 .. Len(u.nodes), NEW j \in 1 .. Len(u.nodes), i < j
  PROVE  u.nodes[i].offset < u.nodes[j].offset
<1>1. PICK n \in Nat : n = Len(u.nodes) /\ \A k \in 1 .. n : u.nodes[k].offset \in Nat
  <2>1. Len(u.nodes) \in Nat /\ \A k \in 1 .. Len(u.nodes) : u.nodes[k] \in NodeT
    BY CodeParts
  <2> QED BY <2>1, NodeParts
<1> DEFINE T == {d \in Nat : i + d + 1 <= n => u.nodes[i].offset < u.nodes[i + d + 1].offset}
<1>2. 0 \in T
  <2> SUFFICES ASSUME i + 0 + 1 <= n PROVE u.nodes[i].offset < u.nodes[i + 0 + 1].offset
    OBVIOUS
  <2>1. i \in 1 .. n - 1 /\ i + 0 + 1 = i + 1
    BY <1>1
  <2> QED BY <1>1, <2>1 DEF Tiled
<1>3. ASSUME NEW d \in Nat, d \in T PROVE d + 1 \in T
  <2> SUFFICES ASSUME i + (d + 1) + 1 <= n PROVE u.nodes[i].offset < u.nodes[i + (d + 1) + 1].offset
    OBVIOUS
  <2>1. PICK m \in 1 .. n - 1 : m = i + d + 1 /\ m + 1 = i + (d + 1) + 1 /\ m \in 1 .. n /\ m + 1 \in 1 .. n
    BY <1>1
  <2>2. u.nodes[i].offset < u.nodes[m].offset
    BY <1>3, <2>1
  <2>3. u.nodes[m].offset < u.nodes[m + 1].offset
    BY <1>1, <2>1 DEF Tiled
  <2>4. u.nodes[i].offset < u.nodes[m + 1].offset
    <3>1. u.nodes[i].offset \in Nat /\ u.nodes[m].offset \in Nat /\ u.nodes[m + 1].offset \in Nat
      BY <1>1, <2>1
    <3>2. \A a, b, c \in Nat : a < b /\ b < c => a < c
      OBVIOUS
    <3> QED BY <2>2, <2>3, <3>1, <3>2, Zenon
  <2> QED BY <2>1, <2>4
<1> HIDE DEF T
<1>4. Nat \subseteq T
  BY <1>2, <1>3, UpTo
<1>5. j - i - 1 \in Nat /\ i + (j - i - 1) + 1 = j /\ j <= n
  BY <1>1
<1>6. j - i - 1 \in T
  BY <1>4, <1>5
<1> QED BY <1>5, <1>6 DEF T

LEMMA TrackSizeIs ==
  ASSUME CodeOK(code), Closed(code)
  PROVE  TrackSize = code.size
<1>1. code \in CodeT /\ Tiled(code)
  BY DEF CodeOK
<1>2. PICK n \in Nat \ {0} : n = Len(code.nodes) /\ \A i \in 1 .. n : code.nodes[i] \in NodeT
  BY <1>1, CodeParts DEF Tiled
<1>3. \A i \in 1 .. n : code.nodes[i].offset \in Nat /\ code.nodes[i].size \in Nat
  BY <1>2, NodeParts
<1> DEFINE e(i) == IF i = 0 THEN 0 ELSE code.nodes[i].offset + code.nodes[i].size
           Tracks(f) == f = [i \in 0 .. n |-> IF i = 0 THEN 0 ELSE f[i - 1] + code.nodes[i].size]
           track == CHOOSE f : Tracks(f)
<1>4. TrackSize = track[n]
  BY <1>2 DEF TrackSize
<1>5. \A i \in 1 .. n : e(i) = e(i - 1) + code.nodes[i].size
  <2> TAKE i \in 1 .. n
  <2>1. i # 0
    OBVIOUS
  <2>2. CASE i = 1
    <3>1. code.nodes[1].offset = 0 /\ i - 1 = 0
      BY <1>1, <2>2 DEF Tiled
    <3> QED BY <1>3, <2>2, <3>1
  <2>3. CASE i # 1
    <3>1. PICK j \in 1 .. n - 1 : j = i - 1 /\ j + 1 = i /\ j # 0 /\ j \in 1 .. n
      BY <2>3
    <3>2. code.nodes[j].size = code.nodes[i].offset - code.nodes[j].offset
      BY <1>1, <1>2, <3>1 DEF Tiled
    <3>3. code.nodes[j].offset + code.nodes[j].size = code.nodes[i].offset
      BY <1>3, <3>1, <3>2
    <3> QED BY <2>1, <3>1, <3>3
  <2> QED BY <2>2, <2>3
<1>6. e(0) = 0
  OBVIOUS
<1>7. n # 0 /\ e(n) = code.size
  <2>1. code.nodes[n].size = code.size - code.nodes[n].offset /\ code.size \in Nat /\ n \in 1 .. n
    BY <1>1, <1>2, CodeParts DEF Closed, LastNode
  <2> QED BY <1>3, <2>1
<1> HIDE DEF e
<1> DEFINE g == [i \in 0 .. n |-> e(i)]
           h == [i \in 0 .. n |-> IF i = 0 THEN 0 ELSE g[i - 1] + code.nodes[i].size]
<1>8. Tracks(g)
  <2>1. \A i \in 0 .. n : g[i] = h[i]
    <3> TAKE i \in 0 .. n
    <3>1. CASE i = 0
      BY <1>6, <3>1
    <3>2. CASE i # 0
      <4>1. i \in 1 .. n /\ i - 1 \in 0 .. n
        BY <3>2
      <4>2. e(i) = e(i - 1) + code.nodes[i].size
        BY <1>5, <4>1
      <4> QED BY <3>2, <4>1, <4>2
    <3> QED BY <3>1, <3>2
  <2>2. g = h
    BY <2>1
  <2> HIDE DEF g
  <2> QED BY <2>2
<1> HIDE DEF g, h
<1>9. Tracks(track)
  <2> HIDE DEF Tracks
  <2> QED BY <1>8
<1> HIDE DEF track
<1> DEFINE T == {i \in Nat : i <= n => track[i] = e(i)}
<1>10. 0 \in T
  <2>1. 0 \in 0 .. n
    OBVIOUS
  <2> QED BY <1>6, <1>9, <2>1
<1>11. ASSUME NEW i \in Nat, i \in T PROVE i + 1 \in T
  <2> SUFFICES ASSUME i + 1 <= n PROVE track[i + 1] = e(i + 1)
    OBVIOUS
  <2>1. i + 1 \in 0 .. n /\ i + 1 # 0 /\ i + 1 - 1 = i /\ i + 1 \in 1 .. n /\ i <= n
    OBVIOUS
  <2>2. track[i + 1] = track[i] + code.nodes[i + 1].size
    BY <1>9, <2>1
  <2>3. e(i + 1) = e(i) + code.nodes[i + 1].size
    BY <1>5, <2>1
  <2> QED BY <1>11, <2>1, <2>2, <2>3
<1> HIDE DEF T, Tracks
<1>12. n \in T /\ n <= n
  BY <1>10, <1>11, UpTo
<1> QED BY <1>4, <1>7, <1>12 DEF T

LEMMA ClosedUnits ==
  ASSUME CodeOK(code), Closed(code)
  PROVE  /\ \A i \in 1 .. Len(code.nodes) :
              /\ code.nodes[i].offset \in Nat /\ code.nodes[i].size \in Nat /\ code.nodes[i].size > 0
              /\ code.nodes[i].offset + code.nodes[i].size = UnitEnd(code, i)
<1>1. code \in CodeT /\ Tiled(code)
  BY DEF CodeOK
<1>2. PICK n \in Nat \ {0} : n = Len(code.nodes) /\ \A i \in 1 .. n : code.nodes[i] \in NodeT
  BY <1>1, CodeParts DEF Tiled
<1>3. \A i \in 1 .. n : code.nodes[i].offset \in Nat /\ code.nodes[i].size \in Nat
  BY <1>2, NodeParts
<1> SUFFICES ASSUME NEW i \in 1 .. n
             PROVE  /\ code.nodes[i].size > 0
                    /\ code.nodes[i].offset + code.nodes[i].size = UnitEnd(code, i)
  BY <1>2, <1>3
<1>4. CASE i = n
  <2>1. /\ code.nodes[n].size = code.size - code.nodes[n].offset /\ code.nodes[n].offset < code.size
        /\ code.size \in Nat
    BY <1>1, <1>2, CodeParts DEF Closed, LastNode
  <2>2. UnitEnd(code, i) = code.size
    BY <1>2, <1>4 DEF UnitEnd
  <2> QED BY <1>3, <1>4, <2>1, <2>2
<1>5. CASE i # n
  <2>1. i \in 1 .. n - 1 /\ i + 1 \in 1 .. n /\ i < n
    BY <1>5
  <2>2. /\ code.nodes[i].offset < code.nodes[i + 1].offset
        /\ code.nodes[i].size = code.nodes[i + 1].offset - code.nodes[i].offset
    BY <1>1, <1>2, <2>1 DEF Tiled
  <2>3. UnitEnd(code, i) = code.nodes[i + 1].offset
    BY <1>2, <2>1 DEF UnitEnd
  <2>4. \A a, b, c \in Nat : a < b /\ c = b - a => c > 0 /\ a + c = b
    OBVIOUS
  <2>5. PICK a, b, c \in Nat : a = code.nodes[i].offset /\ b = code.nodes[i + 1].offset /\ c = code.nodes[i].size
    BY <1>3, <2>1
  <2> QED BY <2>2, <2>3, <2>4, <2>5
<1> QED BY <1>4, <1>5

LEMMA RelocatesFine ==
  ASSUME CodeOK(code), Closed(code)
  PROVE  RelocatesOK
<1>1. TrackSize = code.size
  BY TrackSizeIs
<1>2. PICK n \in Nat \ {0} : n = Len(code.nodes) /\ code.nodes[n].size > 0
  <2>1. Len(code.nodes) \in Nat \ {0} /\ Len(code.nodes) \in 1 .. Len(code.nodes)
    BY DEF CodeOK, Tiled
  <2> QED BY <2>1, ClosedUnits
<1>3. ASSUME NEW k \in DOMAIN code.refs
      PROVE  \E j \in code.refs[k].id .. Len(code.nodes) : j > 0 /\ code.nodes[j].size > 0
  <2>1. code.refs[k] \in RefT /\ RefIn(code, code.refs[k])
    BY <1>3, CodeParts DEF CodeOK, RefsIn
  <2>2. code.refs[k].id \in Nat /\ code.refs[k].id <= n
    BY <1>2, <2>1 DEF RefT, RefIn
  <2>3. n \in code.refs[k].id .. n /\ n > 0
    BY <2>2
  <2> QED BY <1>2, <2>3
<1> QED BY <1>1, <1>3 DEF RelocatesOK

LEMMA RelocateInv ==
  ASSUME IInv, Relocate
  PROVE  IInv'
<1>1. Depth = 0 /\ UNCHANGED <<control, bound>>
  BY DEF Relocate
<1>2. control = << >> /\ Sound(code, control, bound)
  <2>1. control \in Seq(BlockT)
    BY DEF IInv, Sound, Nested
  <2>2. Len(control) = 0
    BY <1>1 DEF Depth
  <2> QED BY <2>1, <2>2 DEF IInv
<1>3. Closed(code) /\ CodeOK(code) /\ code \in CodeT /\ code.ok
  BY <1>2 DEF IInv, Sound, CodeOK
<1>4. RelocatesOK
  BY <1>3, RelocatesFine
<1>5. code' = code
  <2>1. code' = [code EXCEPT !.ok = TRUE]
    BY <1>4 DEF Relocate
  <2>2. code.ok = TRUE
    BY <1>3 DEF CodeT
  <2> QED BY <1>3, <2>1, <2>2 DEF CodeT
<1>6. entries' = [k \in DOMAIN code.refs |-> Relocated(code.refs[k])]
  BY <1>4 DEF Relocate
<1>7. Sound(code', control', bound') /\ control' = << >> /\ Closed(code')
  BY <1>1, <1>2, <1>3, <1>5
<1>8. NoDeadEnd(code', control')
  BY <1>7 DEF NoDeadEnd
<1>9. entries' = [k \in DOMAIN code.refs |-> Relocated(code.refs[k])]'
  BY <1>5, <1>6 DEF Relocated, UnitAt, Placed
<1> QED BY <1>7, <1>8, <1>9 DEF IInv

-----------------------------------------------------------------------------
(* The invariant. *)

LEMMA InitInv ==
  ASSUME Init
  PROVE  IInv
<1> DEFINE b == Block(1, "block", "reachable")
           nd == NewNode(0, 1, "block", "functionStart")
<1>1. control = <<b>> /\ bound = << >> /\ entries = << >>
  BY DEF Init
<1>2. PICK last \in {"none", "br_if"} :
        code = FunctionStart([nodes |-> << >>, refs |-> << >>, size |-> 0,
                              tail |-> "none", last |-> last, ok |-> TRUE])
  BY DEF Init
<1>3. code = [nodes |-> <<nd>>, refs |-> << >>, size |-> 0, tail |-> "none", last |-> last, ok |-> TRUE]
  BY <1>2 DEF FunctionStart
<1>4. 1 \in 1 .. MaxUnits /\ 1 \in 1 .. MaxDepth
  BY CodeUnitsAssumption
<1>5. /\ b \in BlockT /\ b.id = 1 /\ b.type = "block" /\ ~b.inner
  BY <1>4 DEF Block, BlockT, Types, Reaches
<1>6. /\ nd \in NodeT /\ nd.offset = 0 /\ nd.depth = 1 /\ nd.targets = << >>
  BY <1>4 DEF NewNode, NodeT, Types, States
<1> HIDE DEF b, nd
<1>7. /\ code \in CodeT /\ code.nodes = <<nd>> /\ code.refs = << >> /\ code.size = 0
      /\ code.tail = "none" /\ code.ok
  <2>1. last \in Ops /\ "none" \in Tails
    BY DEF Ops, Tails
  <2> QED BY <1>3, <1>6, <2>1 DEF CodeT
<1>8. Len(code.nodes) = 1 /\ DOMAIN code.nodes = {1} /\ code.nodes[1] = nd /\ DOMAIN code.refs = {}
      /\ LastNode(code) = nd
  BY <1>7 DEF LastNode
<1>9. Tiled(code)
  <2>1. 1 .. 1 - 1 = {} /\ 0 <= 0
    OBVIOUS
  <2> QED BY <1>4, <1>6, <1>7, <1>8, <2>1 DEF Tiled
<1>10. RefsIn(code)
  BY <1>8 DEF RefsIn
<1>11. Agreed(code)
  <2>1. JumpsOf(code.refs, 1) = {}
    BY <1>8 DEF JumpsOf
  <2>2. Count(code, 1) = 0
    BY <2>1, FS_EmptySet DEF Count
  <2>3. Len(nd.targets) = 0 /\ DOMAIN nd.targets = {}
    BY <1>6
  <2> QED BY <1>8, <2>2, <2>3 DEF Agreed
<1>12. control \in Seq(BlockT) /\ Len(control) = 1 /\ DOMAIN control = {1} /\ control[1] = b
  BY <1>1, <1>5
<1>13. Nested(code, control)
  <2>1. Begins(code, b, 1, 1)
    <3>1. 1 + 1 .. 1 = {} /\ 1 \in 1 .. 1
      OBVIOUS
    <3> QED BY <1>5, <1>6, <1>8, <3>1 DEF Begins
  <2>2. 1 <= MaxDepth /\ 1 \in Nat
    BY <1>4
  <2> QED BY <1>6, <1>8, <1>12, <2>1, <2>2 DEF Nested
<1>14. DOMAIN bound = {}
  BY <1>1
<1>15. PlacesOK(code, control, bound)
  BY <1>5, <1>12, <1>14 DEF PlacesOK
<1>16. AllAimed(code, control, bound) /\ Chained(code, bound)
  BY <1>8, <1>14 DEF AllAimed, Chained
<1>17. NoDeadEnd(code, control)
  BY <1>7 DEF NoDeadEnd
<1>18. control # << >>
  BY <1>12
<1> QED BY <1>1, <1>7, <1>9, <1>10, <1>11, <1>13, <1>15, <1>16, <1>17, <1>18 DEF IInv, Sound, CodeOK

LEMMA NextInv ==
  ASSUME IInv, [Next]_vars
  PROVE  IInv'
<1>1. CASE Straight
  BY <1>1, StraightInv
<1>2. CASE OpenBlock
  BY <1>2, OpenBlockInv
<1>3. CASE OpenLoop
  BY <1>3, OpenLoopInv
<1>4. CASE OpenIf
  BY <1>4, OpenIfInv
<1>5. CASE Else
  BY <1>5, ElseInv
<1>6. CASE End
  BY <1>6, EndInv
<1>7. CASE EndOneArmedIf
  BY <1>7, EndOneArmedIfInv
<1>8. CASE Return
  BY <1>8, ReturnInv
<1>9. CASE Unreachable
  BY <1>9, UnreachableInv
<1>10. ASSUME NEW k \in 0 .. Depth - 1, Br(k) \/ BrDropped(k) \/ BrIf(k)
       PROVE  IInv'
  BY <1>10, BrInv, BrIfInv
<1>11. ASSUME NEW ks \in SUBSET (0 .. Depth - 1) \ {{}}, NEW labels \in SetToSeqs(ks), BrTable(labels)
       PROVE  IInv'
  BY <1>11, BrTableInv
<1>12. CASE EndFunction
  BY <1>12, EndFunctionInv
<1>13. CASE Relocate
  BY <1>13, RelocateInv
<1>14. CASE UNCHANGED vars
  <2>1. code' = code /\ control' = control /\ bound' = bound /\ entries' = entries
    BY <1>14 DEF vars
  <2>2. Sound(code', control', bound') /\ NoDeadEnd(code', control') /\ (control' = << >> => Closed(code'))
    BY <2>1 DEF IInv
  <2>3. entries # << >> =>
          /\ control' = << >>
          /\ entries' = [k \in DOMAIN code.refs |-> Relocated(code.refs[k])]'
    <3>1. entries # << >> =>
            control = << >> /\ entries = [k \in DOMAIN code.refs |-> Relocated(code.refs[k])]
      BY DEF IInv
    <3>2. [k \in DOMAIN code.refs |-> Relocated(code.refs[k])]'
            = [k \in DOMAIN code.refs |-> Relocated(code.refs[k])]
      BY <2>1 DEF Relocated, UnitAt, Placed
    <3> QED BY <2>1, <3>1, <3>2
  <2> QED BY <2>1, <2>2, <2>3 DEF IInv
<1> QED BY <1>1, <1>2, <1>3, <1>4, <1>5, <1>6, <1>7, <1>8, <1>9, <1>10, <1>11, <1>12, <1>13, <1>14 DEF Next

-----------------------------------------------------------------------------
(* What follows from it. *)

\* A reference is in the unit that relocation finds for it, and a lea in the
\* unit it was recorded for.
LEMMA UnitAtIs ==
  ASSUME CodeOK(code), Closed(code), NEW r \in RefT, RefIn(code, r)
  PROVE  /\ UnitAt(r) \in 1 .. Len(code.nodes)
         /\ code.nodes[UnitAt(r)].offset <= r.offset /\ r.offset < UnitEnd(code, UnitAt(r))
         /\ Lea(r) => UnitAt(r) = r.unit
<1> DEFINE Before == {j \in 2 .. Len(code.nodes) : code.nodes[j].offset <= r.offset}
<1>1. code \in CodeT /\ Tiled(code)
  BY DEF CodeOK
<1>2. PICK n \in Nat \ {0} : n = Len(code.nodes)
  BY <1>1 DEF Tiled
<1>3. \A i \in 1 .. n : code.nodes[i].offset \in Nat
  BY <1>2, ClosedUnits
<1>4. r.offset \in Nat /\ r.offset < code.size /\ (~Lea(r) => r.unit = 1)
  BY DEF RefT, RefIn, Lea
<1>5. Lea(r) => /\ r.unit \in 1 .. n /\ code.nodes[r.unit].offset <= r.offset
                /\ r.offset < UnitEnd(code, r.unit)
  BY <1>2 DEF RefIn
<1>6. \A i \in 1 .. n : i < n => i + 1 \in 2 .. n /\ UnitEnd(code, i) = code.nodes[i + 1].offset
  BY <1>2 DEF UnitEnd
<1>7. UnitEnd(code, n) = code.size
  BY <1>2 DEF UnitEnd
<1>8. CASE Before = {}
  <2>1. UnitAt(r) = r.unit
    BY <1>8 DEF UnitAt
  <2>2. CASE Lea(r)
    BY <1>2, <1>5, <2>1, <2>2
  <2>3. CASE ~Lea(r)
    <3>1. UnitAt(r) = 1 /\ 1 \in 1 .. n
      BY <1>4, <2>1, <2>3
    <3>2. code.nodes[1].offset = 0
      BY <1>1 DEF Tiled
    <3>3. r.offset < UnitEnd(code, 1)
      <4>1. CASE n = 1
        BY <1>4, <1>7, <4>1
      <4>2. CASE n # 1
        <5>1. 1 < n /\ 2 \in 2 .. n /\ 2 \in 1 .. n
          BY <4>2
        <5>2. UnitEnd(code, 1) = code.nodes[2].offset
          BY <1>6, <5>1
        <5>3. ~(code.nodes[2].offset <= r.offset)
          BY <1>2, <1>8, <5>1
        <5> QED BY <1>3, <1>4, <5>1, <5>2, <5>3
      <4> QED BY <4>1, <4>2
    <3> QED BY <1>2, <1>4, <2>3, <3>1, <3>2, <3>3
  <2> QED BY <2>2, <2>3
<1>9. CASE Before # {}
  <2> DEFINE m == Max(Before)
  <2>1. UnitAt(r) = m
    BY <1>9 DEF UnitAt
  <2>2. Before \in SUBSET (0 .. n)
    BY <1>2
  <2>3. m \in Before /\ \A y \in Before : y <= m
    <3> HIDE DEF Before
    <3> QED BY <1>9, <2>2, MaxIs
  <2> HIDE DEF m
  <2>4. m \in 2 .. n /\ m \in 1 .. n /\ code.nodes[m].offset <= r.offset
    BY <1>2, <2>3
  <2>5. r.offset < UnitEnd(code, m)
    <3>1. CASE m = n
      BY <1>4, <1>7, <3>1
    <3>2. CASE m # n
      <4>1. m < n /\ m + 1 \in 2 .. n /\ m + 1 \in 1 .. n /\ ~(m + 1 <= m)
        BY <2>4, <3>2
      <4>2. ~(code.nodes[m + 1].offset <= r.offset)
        BY <1>2, <2>3, <4>1
      <4>3. UnitEnd(code, m) = code.nodes[m + 1].offset /\ code.nodes[m + 1].offset \in Nat
        BY <1>3, <1>6, <2>4, <4>1
      <4> QED BY <1>4, <4>2, <4>3
    <3> QED BY <3>1, <3>2
  <2>6. ASSUME Lea(r) PROVE m = r.unit
    <3>1. r.unit \in 1 .. n /\ code.nodes[r.unit].offset <= r.offset /\ r.offset < UnitEnd(code, r.unit)
      BY <1>5, <2>6
    <3>2. CASE r.unit > m
      <4>1. r.unit \in Before
        BY <1>2, <2>4, <3>1, <3>2
      <4> QED BY <2>3, <2>4, <3>1, <3>2, <4>1
    <3>3. CASE r.unit < m
      <4>1. r.unit < n /\ r.unit + 1 \in 1 .. n /\ r.unit + 1 <= m
        BY <2>4, <3>1, <3>3
      <4>2. r.offset < code.nodes[r.unit + 1].offset
        BY <1>6, <3>1, <4>1
      <4>3. code.nodes[r.unit + 1].offset <= code.nodes[m].offset
        <5>1. CASE r.unit + 1 = m
          BY <1>3, <2>4, <5>1
        <5>2. CASE r.unit + 1 # m
          <6>1. r.unit + 1 < m
            BY <2>4, <3>1, <4>1, <5>2
          <6>2. code.nodes[r.unit + 1].offset < code.nodes[m].offset
            BY <1>1, <1>2, <2>4, <4>1, <6>1, OffsetsRise
          <6> QED BY <1>3, <2>4, <4>1, <6>2
        <5> QED BY <5>1, <5>2
      <4>4. code.nodes[r.unit + 1].offset \in Nat /\ code.nodes[m].offset \in Nat
        BY <1>3, <2>4, <4>1
      <4>5. \A a, b, c \in Nat : ~(a < b /\ b <= c /\ c <= a)
        OBVIOUS
      <4> QED BY <1>4, <2>4, <4>2, <4>3, <4>4, <4>5, Zenon
    <3> QED BY <2>4, <3>1, <3>2, <3>3
  <2> QED BY <1>2, <2>1, <2>4, <2>5, <2>6
<1> QED BY <1>8, <1>9

\* Every unit has code, so that none gives its place to the next.
LEMMA PlacedIs ==
  ASSUME CodeOK(code), Closed(code), NEW id \in 1 .. Len(code.nodes)
  PROVE  Placed(id) = id
<1> DEFINE S == {j \in id .. Len(code.nodes) : code.nodes[j].size > 0}
<1>1. Len(code.nodes) \in Nat \ {0}
  BY DEF CodeOK, Tiled
<1>2. id \in S /\ S \subseteq Nat /\ \A j \in S : id <= j
  <2>1. code.nodes[id].size > 0
    BY ClosedUnits
  <2> QED BY <1>1, <2>1
<1>3. Placed(id) = Min(S)
  BY DEF Placed
<1> HIDE DEF S
<1>4. Min(S) \in S /\ Min(S) <= id
  BY <1>2, MinIs
<1>5. PICK m \in Nat : m = Min(S)
  BY <1>2, <1>4
<1>6. m <= id /\ id <= m /\ id \in Nat
  BY <1>2, <1>4, <1>5
<1>7. m = id
  BY <1>6
<1> QED BY <1>3, <1>5, <1>7

LEMMA EntriesFollow ==
  ASSUME IInv
  PROVE  EntriesPatchTheirJumps
<1> SUFFICES ASSUME NEW k \in DOMAIN entries
             PROVE  LET e == entries[k]
                        r == code.refs[k]
                    IN  /\ e.offset \in 0 .. code.nodes[e.unit].size - 1
                        /\ Lea(r) => e.unit = r.unit
                        /\ r.goal \in DOMAIN bound => e.target = bound[r.goal]
  BY DEF EntriesPatchTheirJumps
<1>1. entries # << >>
  OBVIOUS
<1>2. /\ control = << >> /\ entries = [i \in DOMAIN code.refs |-> Relocated(code.refs[i])]
      /\ Closed(code) /\ Sound(code, << >>, bound) /\ CodeOK(code) /\ code \in CodeT
  BY <1>1 DEF IInv, Sound, CodeOK
<1> DEFINE e == entries[k]
           r == code.refs[k]
           i == UnitAt(r)
<1>3. /\ k \in DOMAIN code.refs /\ e = Relocated(r)
      /\ r \in RefT /\ RefIn(code, r) /\ Aimed(r, code, << >>, bound)
  BY <1>2, CodeParts DEF Sound, CodeOK, RefsIn, AllAimed
<1> HIDE DEF e, r
<1>4. /\ e.unit = i /\ e.offset = r.offset - code.nodes[i].offset
      /\ Lea(r) => e.target = Placed(r.id)
  BY <1>3 DEF Relocated
<1> HIDE DEF i
<1>5. /\ i \in 1 .. Len(code.nodes) /\ code.nodes[i].offset <= r.offset /\ r.offset < UnitEnd(code, i)
      /\ Lea(r) => i = r.unit
  BY <1>2, <1>3, UnitAtIs DEF i
<1>6. e.offset \in 0 .. code.nodes[i].size - 1
  <2>1. PICK a, b, o \in Nat : a = code.nodes[i].offset /\ b = code.nodes[i].size /\ o = r.offset
    BY <1>2, <1>3, <1>5, ClosedUnits DEF RefT
  <2>2. a + b = UnitEnd(code, i)
    BY <1>2, <1>5, <2>1, ClosedUnits
  <2>3. e.offset = o - a /\ a <= o /\ o < a + b
    BY <1>4, <1>5, <2>1, <2>2
  <2>4. o - a \in 0 .. b - 1
    BY <2>3
  <2> QED BY <2>1, <2>3, <2>4
<1>7. ASSUME r.goal \in DOMAIN bound PROVE e.target = bound[r.goal]
  <2>1. \A types, blocks : ~Waits(r, << >>, bound, types, blocks)
    BY DEF Waits
  <2>2. r.goal.part \notin {"stray", "springboard"} /\ bound[r.goal] \in 1 .. Len(code.nodes)
    BY <1>2, <1>7 DEF Sound, PlacesOK
  <2>3. Lea(r)
    BY <1>3, <2>2 DEF Aimed
  <2>4. r.goal.part \in Parts
    BY <1>3 DEF RefT, Places
  <2>5. r.id = bound[r.goal]
    BY <1>3, <1>7, <2>1, <2>2, <2>3, <2>4 DEF Aimed, Arrived, Parts
  <2> QED BY <1>2, <1>4, <2>2, <2>3, <2>5, PlacedIs
<1> QED BY <1>4, <1>5, <1>6, <1>7 DEF e, r

LEMMA JumpsFollow ==
  ASSUME IInv
  PROVE  JumpsArrive
<1> SUFFICES ASSUME NEW k \in DOMAIN code.refs,
                    code.refs[k].goal.part \in {"start", "else", "end", "next"}
             PROVE  LET r == code.refs[k]
                    IN  /\ (r.type \in Unknown) = (r.goal \notin DOMAIN bound)
                        /\ r.type \notin Unknown => r.id = bound[r.goal]
  BY DEF JumpsArrive
<1> DEFINE r == code.refs[k]
<1>1. Aimed(r, code, control, bound) /\ r.goal.part \in {"start", "else", "end", "next"}
  BY DEF IInv, Sound, AllAimed
<1> HIDE DEF r
<1>2. "known" \notin Unknown /\ "loopKnown" \notin Unknown
  BY DEF Unknown
<1>3. \/ r.type \in {"known", "loopKnown"} /\ Arrived(r, bound)
      \/ r.type \in Unknown /\ r.goal \notin DOMAIN bound
  BY <1>1 DEF Aimed, Waits, Unknown, Arrived
<1>4. /\ (r.type \in Unknown) = (r.goal \notin DOMAIN bound)
      /\ r.type \notin Unknown => r.id = bound[r.goal]
  BY <1>2, <1>3 DEF Arrived
<1> QED BY <1>4 DEF r

LEMMA GraphFollows ==
  ASSUME IInv
  PROVE  GraphAgrees
<1>1. Agreed(code)
  BY DEF IInv, Sound, CodeOK
<1>2. (\A i : Jumps(i) = JumpsOf(code.refs, i)) /\ (\A k : Nth(k) = NthOf(code.refs, k))
      /\ (\A i : Cardinality(Jumps(i)) = Count(code, i))
  BY DEF Jumps, JumpsOf, Nth, NthOf, Count
<1>3. \A k \in DOMAIN code.refs : Lea(code.refs[k]) =>
        LET targets == code.nodes[code.refs[k].unit].targets
        IN  Nth(k) \in DOMAIN targets /\ Known(code.refs[k]) = Known(targets[Nth(k)])
  BY <1>1, <1>2 DEF Agreed, SameTarget, Known
<1>4. \A i \in DOMAIN code.nodes : \A n \in DOMAIN code.nodes[i].targets :
        n > Cardinality(Jumps(i)) => code.nodes[i].targets[n].border # "branch"
  BY <1>1, <1>2 DEF Agreed
<1> QED BY <1>3, <1>4 DEF GraphAgrees

LEMMA TilesFollow ==
  ASSUME IInv
  PROVE  UnitsTile /\ UnitsOccupied
<1>1. CodeOK(code) /\ Tiled(code) /\ code \in CodeT
  BY DEF IInv, Sound, CodeOK
<1>2. PICK n \in Nat \ {0} : n = Len(code.nodes) /\ \A i \in 1 .. n : code.nodes[i] \in NodeT
  BY <1>1, CodeParts DEF Tiled
<1>3. \A i \in 1 .. n : code.nodes[i].offset \in Nat /\ code.nodes[i].size \in Nat
  BY <1>2, NodeParts
<1>4. ASSUME NEW i \in 1 .. n - 1
      PROVE  /\ code.nodes[i + 1].offset = code.nodes[i].offset + code.nodes[i].size
             /\ code.nodes[i].size > 0
  <2>1. i \in 1 .. n /\ i + 1 \in 1 .. n
    OBVIOUS
  <2>2. /\ code.nodes[i].offset < code.nodes[i + 1].offset
        /\ code.nodes[i].size = code.nodes[i + 1].offset - code.nodes[i].offset
    BY <1>1, <1>2 DEF Tiled
  <2>3. PICK a, b, c \in Nat : a = code.nodes[i].offset /\ b = code.nodes[i + 1].offset /\ c = code.nodes[i].size
    BY <1>3, <2>1
  <2> QED BY <2>2, <2>3
<1>5. UnitsTile
  <2> SUFFICES ASSUME NEW i \in 2 .. n
               PROVE  code.nodes[i].offset = code.nodes[i - 1].offset + code.nodes[i - 1].size
    BY <1>2 DEF UnitsTile
  <2>1. i - 1 \in 1 .. n - 1 /\ i - 1 + 1 = i
    OBVIOUS
  <2> QED BY <1>4, <2>1
<1>6. UnitsOccupied
  <2> SUFFICES ASSUME NEW i \in 1 .. n, i < n \/ Depth = 0
               PROVE  code.nodes[i].size > 0
    <3>1. DOMAIN code.nodes = 1 .. n
      BY <1>1, <1>2, CodeParts
    <3> QED BY <1>2, <3>1 DEF UnitsOccupied
  <2>1. CASE i < n
    <3>1. i \in 1 .. n - 1
      BY <2>1
    <3> QED BY <1>4, <3>1
  <2>2. CASE Depth = 0
    <3>1. control = << >>
      BY <2>2 DEF Depth, IInv, Sound, Nested
    <3>2. Closed(code)
      BY <3>1 DEF IInv
    <3> QED BY <1>1, <1>2, <3>2, ClosedUnits
  <2> QED BY <2>1, <2>2
<1> QED BY <1>5, <1>6

LEMMA TypesFollow ==
  ASSUME IInv
  PROVE  TypeOK
<1>1. /\ code \in CodeT /\ Tiled(code) /\ Agreed(code) /\ control \in Seq(BlockT)
      /\ DOMAIN bound \subseteq Places
  BY DEF IInv, Sound, CodeOK, Nested, PlacesOK
<1>2. PICK n \in Nat : /\ n = Len(code.nodes) /\ DOMAIN code.nodes = 1 .. n /\ n <= MaxUnits
                       /\ \A i \in 1 .. n : code.nodes[i] \in NodeT
  BY <1>1, CodeUnitsAssumption, CodeParts DEF Tiled
<1>3. \A i \in DOMAIN control :
        control[i] \in [id : 1 .. MaxUnits, type : Types, reach : Reaches,
                        endReached : BOOLEAN, inner : BOOLEAN]
  <2>1. \A i \in DOMAIN control : control[i] \in BlockT
    BY <1>1
  <2> QED BY <2>1 DEF BlockT
<1>4. ASSUME NEW i \in DOMAIN code.nodes
      PROVE  LET m == code.nodes[i]
             IN  /\ m.type \in Types /\ m.state \in States /\ m.depth \in 1 .. MaxDepth
                 /\ \A k \in DOMAIN m.targets :
                      m.targets[k].type \in TargetTypes /\ m.targets[k].id \in 0 .. MaxUnits
  <2> DEFINE m == code.nodes[i]
  <2>1. m \in NodeT
    BY <1>2
  <2>2. \A k \in DOMAIN m.targets : m.targets[k].id <= n
    BY <1>1, <1>2 DEF Agreed
  <2> HIDE DEF m
  <2>3. ASSUME NEW k \in DOMAIN m.targets
        PROVE  m.targets[k].type \in TargetTypes /\ m.targets[k].id \in 0 .. MaxUnits
    <3>1. m.targets[k] \in TargetT
      BY <2>1, NodeParts
    <3>2. m.targets[k].id \in Nat /\ m.targets[k].type \in TargetTypes /\ m.targets[k].id <= n
      BY <2>2, <3>1 DEF TargetT
    <3> QED BY <1>2, <3>2, CodeUnitsAssumption
  <2>4. /\ m.type \in Types /\ m.state \in States /\ m.depth \in 1 .. MaxDepth
    BY <2>1, NodeParts
  <2> QED BY <2>3, <2>4 DEF m
<1>5. \A k \in DOMAIN code.refs : code.refs[k].goal \in Places
  BY <1>1, CodeParts DEF RefT
<1>6. code.tail \in Tails
  BY <1>1, CodeParts
<1> QED BY <1>1, <1>3, <1>4, <1>5, <1>6 DEF TypeOK

\* A function that is compiled has no jump left that waits for its place.
LEMMA ResolvedFollows ==
  ASSUME IInv
  PROVE  Resolved
<1> SUFFICES ASSUME control = << >>, NEW k \in DOMAIN code.refs,
                    code.refs[k].goal.part \in {"start", "else", "end", "next"}
             PROVE  code.refs[k].goal \in DOMAIN bound /\ code.refs[k].id = bound[code.refs[k].goal]
  BY DEF Resolved
<1> DEFINE r == code.refs[k]
<1>1. Aimed(r, code, << >>, bound) /\ r.goal.part \in {"start", "else", "end", "next"}
  BY DEF IInv, Sound, AllAimed
<1> HIDE DEF r
<1>2. \A types, blocks : ~Waits(r, << >>, bound, types, blocks)
  BY DEF Waits
<1>3. Arrived(r, bound)
  BY <1>1, <1>2 DEF Aimed, Arrived
<1> QED BY <1>3 DEF Arrived, r

-----------------------------------------------------------------------------
(* Theorems. *)

\* The strengthening is kept by every opcode and by relocation.
THEOREM Inductive == Spec => []IInv
<1>1. Init => IInv
  BY InitInv
<1>2. IInv /\ [Next]_vars => IInv'
  BY NextInv
<1> QED BY <1>1, <1>2, PTL DEF Spec

\* The control stack, the nodes of pass_cfg.c and the places stay well formed.
THEOREM TypeCorrect == Spec => []TypeOK
<1>1. IInv => TypeOK
  BY TypesFollow
<1> QED BY <1>1, Inductive, PTL

\* No assert of the two passes, of relocate.c or of add_code_unit fails.
THEOREM NoAssertFails == Spec => []AssertsHold
<1>1. IInv => AssertsHold
  BY DEF IInv, Sound, AssertsHold
<1> QED BY <1>1, Inductive, PTL

\* A branch is patched when its place is bound, not before and not later, and
\* to the unit that begins there.
THEOREM JumpsDoArrive == Spec => []JumpsArrive
<1>1. IInv => JumpsArrive
  BY JumpsFollow
<1> QED BY <1>1, Inductive, PTL

\* After FunctionEnd, no target is unknown any more (but for branches back to
\* loops past an inner block).
THEOREM JumpsAreResolved == Spec => []Resolved
<1>1. IInv => Resolved
  BY ResolvedFollows
<1> QED BY <1>1, Inductive, PTL

\* insert_jump gives every unit whose end is reached a jump to the next one.
THEOREM UnitsAreChained == Spec => []UnitsChained
<1>1. IInv => UnitsChained
  BY DEF IInv, Sound, Chained, UnitsChained
<1> QED BY <1>1, Inductive, PTL

\* The targets of pass_cfg.c and the references of pass_tsgx.c say the same.
THEOREM GraphsDoAgree == Spec => []GraphAgrees
<1>1. IInv => GraphAgrees
  BY GraphFollows
<1> QED BY <1>1, Inductive, PTL

\* Units lie end to end: the offset the control-flow pass notes is where the one
\* before it ends, in spite of what the T-SGX pass appends there.
THEOREM UnitsDoTile == Spec => []UnitsTile
<1>1. IInv => UnitsTile
  BY TilesFollow
<1> QED BY <1>1, Inductive, PTL

\* Every unit that is closed has code, so that randomize_layout places it.
THEOREM UnitsAreOccupied == Spec => []UnitsOccupied
<1>1. IInv => UnitsOccupied
  BY TilesFollow
<1> QED BY <1>1, Inductive, PTL

\* relocate patches every jump in the unit that holds it, with the unit it is for.
THEOREM EntriesDoPatch == Spec => []EntriesPatchTheirJumps
<1>1. IInv => EntriesPatchTheirJumps
  BY EntriesFollow
<1> QED BY <1>1, Inductive, PTL

=============================================================================
