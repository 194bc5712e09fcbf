--------------------------- MODULE ScriptsProofs ----------------------------
(***************************************************************************)
(* Theorems about hooks.lua, AutoReboot.lua, SNET's byte streams,          *)
(* rkeys.lua and FileSystemOperations.cpp, in this order.                  *)
(* Hooks: for any places, hooks and depth of calls, what stands at a place *)
(* between calls, which hooks a call passes, and what is left when the     *)
(* script ends.                                                            *)
(***************************************************************************)
EXTENDS Hooks, AutoReboot, ByteStream, Rkeys, FileSystemOperations, SequenceTheorems,
        WellFoundedInduction, TLAPS

\* No hook with a trampoline is put on another one, and hooks that share a place stay on.
UsedAsMeant == HooksAssumption /\ ~ TrampolineOnTop /\ ~ (Shared /\ MayStop)

HookRecords == [place : Places, kind : HookKinds, org : Nat, status : BOOLEAN]
Frames == [run : Nat, restart : Nat, by : {"game", "hook"}]

HooksTyped ==
  /\ mem \in [Places -> Nat]
  /\ hooks \in Seq(HookRecords) /\ asked \in Seq(BOOLEAN) /\ Len(asked) = Len(hooks)
  /\ stack \in Seq(Frames)
  /\ loaded \in BOOLEAN

\* x is the newest of the hooks S, or the game's own content if there is none.
IsNewest(x, S) == (x = Original /\ S = {}) \/ (x \in S /\ \A j \in S : j <= x)

Active(p) == {i \in On(p) : asked[i]}

\* The hooks that the first n calls under way, or all, have taken out.
Suspended(n) == {stack[k].restart : k \in 1 .. n} \ {0}
Out == {stack[k].restart : k \in DOMAIN stack} \ {0}

\* A hook remembers the one before it at its place; a place has one hook or hooks that stay on.
Remembers ==
  \A p \in Places : \A i \in On(p) :
    /\ IsNewest(hooks[i].org, {j \in On(p) : j < i})
    /\ hooks[i].kind \in Kinds[p]
    /\ hooks[i].kind = "tramp" => hooks[i].org = Original
    /\ MayStop \/ asked[i]
    /\ Shared \/ On(p) = {i}

\* A place holds the newest of its hooks that are on and not taken out.
Held ==
  /\ \A p \in Places : IsNewest(mem[p], Active(p) \ Out)
  /\ \A i \in DOMAIN hooks : hooks[i].status <=> asked[i] /\ i \notin Out

\* A callback without a trampoline runs with all newer hooks of its place taken out, itself not.
FrameInv(n) ==
  /\ stack[n].run \in 0 .. Len(hooks)
  /\ stack[n].restart # 0 =>
       /\ n > 1 /\ stack[n].restart = stack[n - 1].run
       /\ hooks[stack[n].restart].kind = "jmp"
  /\ \A p \in Places :
       (stack[n].run \in On(p) /\ hooks[stack[n].run].kind = "jmp") =>
         /\ stack[n].run \in Active(p) /\ stack[n].run \notin Suspended(n)
         /\ \A j \in Active(p) : j > stack[n].run => j \in Suspended(n)

\* A call of the game that went down by way of callbacks has passed all the hooks from the newest
\* one to the one it is in.
Passed(n) ==
  \A p \in Places :
    (stack[1].run \in On(p) /\ \A k \in 2 .. n : stack[k].by = "hook") =>
      /\ \A k \in 1 .. n - 1 : stack[k].run \in On(p)
      /\ stack[n].run \in On(p) \cup {Original}
      /\ \A k \in 2 .. n : stack[k].run < stack[k - 1].run
      /\ \A j \in On(p) : j >= stack[n].run => \E k \in 1 .. n : stack[k].run = j

HooksInv ==
  /\ HooksTyped /\ Remembers /\ HooksDeleted
  /\ loaded => (Held /\ \A n \in DOMAIN stack : FrameInv(n) /\ Passed(n))
  /\ \A p \in Places : mem[p] <= Len(hooks)
  /\ loaded \/ stack = <<>>

(* ------------------------------- the hooks -------------------------------- *)

LEMMA Records ==
  ASSUME HooksTyped
  PROVE  /\ Len(hooks) \in Nat /\ DOMAIN hooks = 1 .. Len(hooks) /\ DOMAIN asked = 1 .. Len(hooks)
         /\ \A i \in DOMAIN hooks :
              /\ i \in Nat /\ i # 0 /\ hooks[i] \in HookRecords /\ hooks[i].place \in Places
              /\ hooks[i].org \in Nat /\ asked[i] \in BOOLEAN /\ i \in On(hooks[i].place)
         /\ \A p : /\ On(p) \subseteq DOMAIN hooks /\ On(p) \subseteq Nat \ {0}
                   /\ Active(p) \subseteq On(p)
                   /\ \A i \in On(p) : hooks[i].place = p
<1>1. Len(hooks) \in Nat /\ DOMAIN hooks = 1 .. Len(hooks) /\ DOMAIN asked = 1 .. Len(hooks)
  BY DEF HooksTyped
<1>2. \A i \in DOMAIN hooks : hooks[i] \in HookRecords /\ asked[i] \in BOOLEAN
  BY <1>1 DEF HooksTyped
<1>3. \A i \in DOMAIN hooks : hooks[i].place \in Places /\ hooks[i].org \in Nat
  BY <1>2 DEF HookRecords
<1>4. \A p : On(p) \subseteq DOMAIN hooks /\ Active(p) \subseteq On(p)
             /\ \A i \in On(p) : hooks[i].place = p
  BY DEF On, Active
<1>5. \A i \in DOMAIN hooks : i \in Nat /\ i # 0 /\ i \in On(hooks[i].place)
  BY <1>1 DEF On
<1> QED
  BY <1>1, <1>2, <1>3, <1>4, <1>5

\* What a hook remembers is an older hook of its place, the one before it.
LEMMA RememberedIs ==
  ASSUME HooksTyped, Remembers, NEW p \in Places, NEW i \in On(p)
  PROVE  /\ hooks[i].org \in 0 .. i - 1 /\ hooks[i].org \in 0 .. Len(hooks)
         /\ hooks[i].org # 0 => hooks[i].org \in On(p)
         /\ hooks[i].org < i
         /\ \A j \in On(p) : j < i => j <= hooks[i].org
<1>1. /\ Len(hooks) \in Nat /\ i \in 1 .. Len(hooks) /\ On(p) \subseteq 1 .. Len(hooks)
  BY Records
<1>2. IsNewest(hooks[i].org, {j \in On(p) : j < i})
  BY DEF Remembers
<1>3. CASE hooks[i].org = 0 /\ {j \in On(p) : j < i} = {}
  BY <1>1, <1>3
<1>4. CASE /\ hooks[i].org \in {j \in On(p) : j < i}
           /\ \A k \in {j \in On(p) : j < i} : k <= hooks[i].org
  <2>1. hooks[i].org \in On(p) /\ hooks[i].org < i
    BY <1>4
  <2>2. \A j \in On(p) : j < i => j <= hooks[i].org
    BY <1>4
  <2> QED
    BY <1>1, <2>1, <2>2
<1> QED
  BY <1>2, <1>3, <1>4 DEF IsNewest, Original

LEMMA KindsGo ==
  ASSUME UsedAsMeant, HooksTyped, Remembers, NEW p \in Places, NEW i \in On(p), NEW j \in On(p),
         hooks[i].kind \in {"call", "vmt"}
  PROVE  hooks[j].kind # "jmp"
BY DEF UsedAsMeant, HooksAssumption, OneSort, Remembers, Places

\* Where one hook is on all are.
LEMMA AllOn ==
  ASSUME UsedAsMeant, HooksTyped, Remembers, NEW p \in Places, NEW i \in Active(p)
  PROVE  Active(p) = On(p)
<1>1. i \in On(p) /\ asked[i] /\ Active(p) \subseteq On(p)
  BY DEF Active
<1>2. ASSUME NEW j \in On(p) PROVE asked[j]
  BY <1>1, <1>2 DEF Remembers, UsedAsMeant
<1> QED
  BY <1>1, <1>2 DEF Active

\* With a hook all newer ones of its place are taken out.
LEMMA NewerOut ==
  ASSUME HooksTyped, NEW n \in DOMAIN stack, \A k \in 1 .. n : FrameInv(k),
         NEW s \in Suspended(n), NEW p \in Places, s \in On(p)
  PROVE  s \in Active(p) /\ \A j \in Active(p) : j > s => j \in Suspended(n)
<1>1. n \in Nat /\ n >= 1
  BY DEF HooksTyped
<1>2. PICK k \in 1 .. n : s = stack[k].restart /\ s # 0
  BY DEF Suspended
<1>3. FrameInv(k) /\ k > 1 /\ s = stack[k - 1].run /\ hooks[s].kind = "jmp"
  BY <1>2 DEF FrameInv
<1>4. k - 1 \in 1 .. n /\ \A l \in 1 .. k - 1 : l \in 1 .. n
  BY <1>1, <1>2, <1>3
<1>5. s \in Active(p) /\ \A j \in Active(p) : j > s => j \in Suspended(k - 1)
  BY <1>3, <1>4 DEF FrameInv
<1>6. Suspended(k - 1) \subseteq Suspended(n)
  BY <1>4 DEF Suspended
<1> QED
  BY <1>5, <1>6

LEMMA OutIs ==
  ASSUME HooksTyped
  PROVE  /\ Len(stack) \in Nat /\ DOMAIN stack = 1 .. Len(stack)
         /\ Out = Suspended(Len(stack))
         /\ stack = <<>> => Out = {}
BY DEF HooksTyped, Out, Suspended

(* ------------------------ what a change leaves alone ---------------------- *)

\* Hooks change their status at most.
SameHooks ==
  /\ asked' = asked /\ Len(hooks') = Len(hooks) /\ DOMAIN hooks' = DOMAIN hooks
  /\ \A i \in DOMAIN hooks : /\ hooks'[i].place = hooks[i].place
                             /\ hooks'[i].kind = hooks[i].kind
                             /\ hooks'[i].org = hooks[i].org

LEMMA SameOn ==
  ASSUME HooksTyped, SameHooks
  PROVE  \A p : On(p)' = On(p) /\ Active(p)' = Active(p)
BY DEF SameHooks, On, Active

LEMMA SameRemembers ==
  ASSUME HooksTyped, SameHooks, Remembers PROVE Remembers'
<1>1. \A p : On(p)' = On(p) /\ On(p) \subseteq DOMAIN hooks
  BY SameOn, Records
<1>2. \A i \in DOMAIN hooks : hooks'[i].kind = hooks[i].kind /\ hooks'[i].org = hooks[i].org
  BY DEF SameHooks
<1>3. ASSUME NEW p \in Places, NEW i \in On(p)
      PROVE  /\ IsNewest(hooks'[i].org, {j \in On(p) : j < i})
             /\ hooks'[i].kind \in Kinds[p]
             /\ hooks'[i].kind = "tramp" => hooks'[i].org = Original
             /\ MayStop \/ asked'[i]
             /\ Shared \/ On(p) = {i}
  BY <1>1, <1>2 DEF Remembers, SameHooks
<1> QED
  BY <1>1, <1>3 DEF Remembers

\* What a call under way keeps while the calls above it change.
LEMMA PrefixKeeps ==
  ASSUME HooksTyped, SameHooks, NEW n \in DOMAIN stack,
         \A k \in 1 .. n : stack'[k] = stack[k] /\ FrameInv(k), Passed(n)
  PROVE  FrameInv(n)' /\ Passed(n)' /\ Suspended(n)' = Suspended(n)
<1>1. n \in Nat /\ n >= 1 /\ stack'[n] = stack[n] /\ stack'[1] = stack[1]
  BY OutIs
<1>2. \A p : On(p)' = On(p) /\ Active(p)' = Active(p) /\ On(p) \subseteq DOMAIN hooks
  BY SameOn, Records
<1>3. Suspended(n)' = Suspended(n)
  BY DEF Suspended
<1>4. n > 1 => stack'[n - 1] = stack[n - 1]
  BY <1>1
<1>5. \A i \in 0 .. Len(hooks) : i # 0 => hooks'[i].kind = hooks[i].kind
  BY Records DEF SameHooks
<1>6. ASSUME stack[n].restart # 0 PROVE hooks'[stack[n].restart].kind = "jmp"
  <2>1. n - 1 \in 1 .. n /\ stack[n].restart = stack[n - 1].run /\ hooks[stack[n].restart].kind = "jmp"
    BY <1>1, <1>6 DEF FrameInv
  <2>2. stack[n].restart \in 0 .. Len(hooks)
    BY <2>1 DEF FrameInv
  <2> QED
    BY <1>5, <1>6, <2>1, <2>2
<1>7. FrameInv(n)'
  BY <1>1, <1>2, <1>3, <1>4, <1>5, <1>6 DEF FrameInv, SameHooks
<1>8. Passed(n)'
  BY <1>1, <1>2 DEF Passed
<1> QED
  BY <1>3, <1>7, <1>8


\* A hook is switched on or off, and the place holds the hook or what it replaced.
LEMMA StatusIs ==
  ASSUME HooksTyped, Remembers, NEW p \in Places, NEW i \in On(p), NEW on \in BOOLEAN, set_status(i, on)
  PROVE  /\ mem' \in [Places -> Nat] /\ hooks' \in Seq(HookRecords)
         /\ mem'[p] = (IF on THEN i ELSE hooks[i].org)
         /\ \A q \in Places : q # p => mem'[q] = mem[q]
         /\ \A q \in Places : mem[q] <= Len(hooks) => mem'[q] <= Len(hooks)
         /\ Len(hooks') = Len(hooks) /\ DOMAIN hooks' = DOMAIN hooks
         /\ \A j \in DOMAIN hooks : /\ hooks'[j].place = hooks[j].place
                                    /\ hooks'[j].kind = hooks[j].kind
                                    /\ hooks'[j].org = hooks[j].org
         /\ hooks'[i].status = on
         /\ \A j \in DOMAIN hooks : j # i => hooks'[j].status = hooks[j].status
<1>1. /\ i \in DOMAIN hooks /\ i \in 1 .. Len(hooks) /\ hooks[i].place = p /\ DOMAIN hooks = 1 .. Len(hooks)
      /\ Len(hooks) \in Nat /\ hooks[i].org \in 0 .. Len(hooks)
  BY Records, RememberedIs
<1>2. hooks' = [hooks EXCEPT ![i].status = on] /\ hooks \in Seq(HookRecords)
  BY DEF set_status, HooksTyped
<1>3. \A j \in DOMAIN hooks : hooks[j] \in HookRecords
  BY <1>1, <1>2
<1>4. /\ DOMAIN hooks' = DOMAIN hooks
      /\ hooks'[i] = [hooks[i] EXCEPT !.status = on]
      /\ \A j \in DOMAIN hooks : j # i => hooks'[j] = hooks[j]
  BY <1>1, <1>2
<1>5. /\ hooks'[i] \in HookRecords /\ hooks'[i].status = on /\ hooks'[i].place = hooks[i].place
      /\ hooks'[i].kind = hooks[i].kind /\ hooks'[i].org = hooks[i].org
  BY <1>1, <1>3, <1>4 DEF HookRecords
<1>6. hooks' \in Seq(HookRecords) /\ Len(hooks') = Len(hooks)
  BY <1>1, <1>2, <1>3, <1>4, <1>5
<1>7. mem' = [mem EXCEPT ![p] = IF on THEN i ELSE hooks[i].org] /\ mem \in [Places -> Nat]
  BY <1>1 DEF set_status, HooksTyped
<1>8. /\ mem' \in [Places -> Nat] /\ mem'[p] = (IF on THEN i ELSE hooks[i].org)
      /\ \A q \in Places : q # p => mem'[q] = mem[q]
  BY <1>1, <1>7
<1>9. \A q \in Places : mem[q] <= Len(hooks) => mem'[q] <= Len(hooks)
  BY <1>1, <1>8
<1> QED
  BY <1>4, <1>5, <1>6, <1>8, <1>9

(* --------------------------------- calls ---------------------------------- *)

LEMMA EnterIs ==
  ASSUME HooksTyped, NEW r \in Nat, NEW s \in Nat, NEW b \in {"game", "hook"}, Enter(r, s, b), NEW m, m = Len(stack)
  PROVE  /\ m \in Nat /\ m + 1 \in DOMAIN stack' /\ DOMAIN stack' = 1 .. m + 1
         /\ stack' \in Seq(Frames) /\ Len(stack') = m + 1
         /\ \A k \in 1 .. m : stack'[k] = stack[k]
         /\ stack'[m + 1].run = r /\ stack'[m + 1].restart = s /\ stack'[m + 1].by = b
         /\ (s = 0 => Out' = Out) /\ (s # 0 => Out' = Out \cup {s})
         /\ Suspended(m + 1)' = Out'
<1> DEFINE frame == [run |-> r, restart |-> s, by |-> b]
<1>1. frame \in Frames /\ frame.run = r /\ frame.restart = s /\ frame.by = b
  BY DEF Frames
<1>2. stack' = Append(stack, frame)
  BY DEF Enter
<1> HIDE DEF frame
<1>3. /\ m \in Nat /\ stack' \in Seq(Frames) /\ Len(stack') = m + 1 /\ DOMAIN stack' = 1 .. m + 1
      /\ DOMAIN stack = 1 .. m
      /\ stack'[m + 1] = frame /\ \A k \in 1 .. m : stack'[k] = stack[k]
  BY <1>1, <1>2 DEF HooksTyped
<1>4. Suspended(m + 1)' = Out'
  BY <1>3 DEF Suspended, Out
<1>5. \A x : (\E k \in 1 .. m + 1 : stack'[k].restart = x) <=> ((\E k \in 1 .. m : stack[k].restart = x) \/ x = s)
  BY <1>1, <1>3
<1>6. \A x : (x \in Out' <=> \E k \in 1 .. m + 1 : stack'[k].restart = x /\ x # 0)
             /\ (x \in Out <=> \E k \in 1 .. m : stack[k].restart = x /\ x # 0)
  BY <1>3 DEF Out
<1>7. (s = 0 => Out' = Out) /\ (s # 0 => Out' = Out \cup {s})
  <2>1. \A x : x \in Out' <=> (x \in Out \/ (x = s /\ x # 0))
    BY <1>5, <1>6
  <2>2. s = 0 => \A x : x \in Out' <=> x \in Out
    BY <2>1
  <2>3. s # 0 => \A x : x \in Out' <=> (x \in Out \/ x = s)
    BY <2>1
  <2> QED
    BY <2>2, <2>3
<1> QED
  BY <1>1, <1>3, <1>4, <1>7

\* A callback that calls on passes its hook, and reaches the one before it.
LEMMA PassOn ==
  ASSUME HooksTyped, Remembers, SameHooks, NEW m \in DOMAIN stack, Passed(m), FrameInv(m), stack[m].run # 0,
         \A k \in 1 .. m : stack'[k] = stack[k],
         stack'[m + 1].run = hooks[stack[m].run].org
  PROVE  Passed(m + 1)'
<1>1. m \in Nat /\ m >= 1 /\ Len(hooks) \in Nat /\ stack[m].run \in 1 .. Len(hooks)
  BY OutIs, Records DEF FrameInv
<1>2. SUFFICES ASSUME NEW p \in Places, stack'[1].run \in On(p)', \A k \in 2 .. m + 1 : stack'[k].by = "hook"
               PROVE  /\ \A k \in 1 .. m : stack'[k].run \in On(p)'
                      /\ stack'[m + 1].run \in On(p)' \cup {Original}
                      /\ \A k \in 2 .. m + 1 : stack'[k].run < stack'[k - 1].run
                      /\ \A j \in On(p)' : j >= stack'[m + 1].run => \E k \in 1 .. m + 1 : stack'[k].run = j
  <2>1. (m + 1) - 1 = m
    BY <1>1
  <2> QED
    BY <1>2, <2>1 DEF Passed
<1>3. On(p)' = On(p) /\ On(p) \subseteq Nat \ {0}
  BY SameOn, Records
<1>4. stack[1].run \in On(p) /\ \A k \in 2 .. m : stack[k].by = "hook"
  BY <1>1, <1>2, <1>3
<1>5. /\ \A k \in 1 .. m - 1 : stack[k].run \in On(p)
      /\ stack[m].run \in On(p)
      /\ \A k \in 2 .. m : stack[k].run < stack[k - 1].run
      /\ \A j \in On(p) : j >= stack[m].run => \E k \in 1 .. m : stack[k].run = j
  BY <1>4 DEF Passed, Original
<1> DEFINE t == stack[m].run  r == hooks[t].org
<1>6. /\ r \in Nat
      /\ r # 0 => r \in On(p)
      /\ r < t /\ \A j \in On(p) : j < t => j <= r
  BY <1>5, RememberedIs
<1>7. stack'[m + 1].run = r /\ stack'[m].run = t /\ t \in Nat
  BY <1>1
<1> HIDE DEF t, r
<1>8. \A k \in 1 .. m : stack'[k].run \in On(p)
  BY <1>1, <1>5
<1>9. ASSUME NEW k \in 2 .. m + 1 PROVE stack'[k].run < stack'[k - 1].run
  <2>1. CASE k = m + 1
    BY <1>1, <1>6, <1>7, <2>1
  <2>2. CASE k # m + 1
    BY <1>1, <1>5, <2>2
  <2> QED
    BY <2>1, <2>2
<1>10. ASSUME NEW j \in On(p), j >= r PROVE \E k \in 1 .. m + 1 : stack'[k].run = j
  <2>1. CASE j = r
    BY <1>1, <1>7, <2>1
  <2>2. CASE j # r
    <3>1. j >= t
      BY <1>3, <1>6, <1>7, <1>10, <2>2
    <3>2. PICK k \in 1 .. m : stack[k].run = j
      BY <1>5, <3>1 DEF t
    <3> QED
      BY <1>1, <3>2
  <2> QED
    BY <2>1, <2>2
<1> QED
  BY <1>3, <1>6, <1>7, <1>8, <1>9, <1>10 DEF Original


\* What mem and hooks are once more after a step.
MemTyped == mem \in [Places -> Nat] /\ \A p \in Places : mem[p] <= Len(hooks)
ListTyped == hooks \in Seq(HookRecords)

\* The calls below a new one keep what they know.
LEMMA CallInv ==
  ASSUME HooksInv, loaded, loaded' = loaded, SameHooks, MemTyped', ListTyped',
         NEW r \in Nat, NEW s \in Nat, NEW b \in {"game", "hook"}, Enter(r, s, b), NEW m, m = Len(stack),
         Held', FrameInv(m + 1)', Passed(m + 1)'
  PROVE  HooksInv'
<1>1. HooksTyped /\ Remembers
  BY DEF HooksInv
<1>2. /\ m \in Nat /\ DOMAIN stack' = 1 .. m + 1 /\ DOMAIN stack = 1 .. m
      /\ stack' \in Seq(Frames) /\ \A k \in 1 .. m : stack'[k] = stack[k]
  BY <1>1, EnterIs, OutIs
<1>3. HooksTyped'
  BY <1>1, <1>2 DEF HooksTyped, MemTyped, ListTyped, SameHooks
<1>4. Remembers'
  BY <1>1, SameRemembers
<1>5. ASSUME NEW n \in DOMAIN stack' PROVE FrameInv(n)' /\ Passed(n)'
  <2>1. CASE n = m + 1
    BY <2>1
  <2>2. CASE n # m + 1
    <3>1. n \in 1 .. m
      BY <1>2, <2>2
    <3>2. n \in DOMAIN stack /\ \A k \in 1 .. n : k \in 1 .. m
      BY <1>2, <3>1
    <3>3. /\ \A k \in 1 .. n : stack'[k] = stack[k] /\ FrameInv(k)
          /\ Passed(n)
      BY <1>2, <3>2 DEF HooksInv
    <3> QED
      BY <1>1, <3>2, <3>3, PrefixKeeps
  <2> QED
    BY <2>1, <2>2
<1> QED
  BY <1>3, <1>4, <1>5 DEF HooksInv, HooksDeleted, MemTyped

LEMMA GameCallsInv ==
  ASSUME UsedAsMeant, HooksInv, NEW p \in Places, GameCalls(p), NEW m, m = Len(stack)
  PROVE  HooksInv'
<1>1. /\ HooksTyped /\ Remembers /\ Held /\ loaded /\ loaded' = loaded
      /\ mem' = mem /\ hooks' = hooks /\ asked' = asked /\ Enter(mem[p], 0, "game")
  BY DEF HooksInv, GameCalls
<1>2. /\ mem[p] \in Nat /\ mem[p] <= Len(hooks) /\ Len(hooks) \in Nat
      /\ MemTyped' /\ ListTyped' /\ SameHooks
  BY <1>1, Records DEF HooksInv, HooksTyped, MemTyped, ListTyped, SameHooks
<1>3. /\ m \in Nat /\ m + 1 \in DOMAIN stack'
      /\ stack'[m + 1].run = mem[p] /\ stack'[m + 1].restart = 0 /\ stack'[m + 1].by = "game"
      /\ Out' = Out /\ Suspended(m + 1)' = Out
  <2> DEFINE r == mem[p]
  <2>1. HooksTyped /\ r \in Nat /\ Enter(r, 0, "game") /\ 0 \in Nat /\ "game" \in {"game", "hook"}
    BY <1>1, <1>2
  <2> HIDE DEF r
  <2>2. /\ m \in Nat /\ m + 1 \in DOMAIN stack'
        /\ stack'[m + 1].run = r /\ stack'[m + 1].restart = 0 /\ stack'[m + 1].by = "game"
        /\ Out' = Out /\ Suspended(m + 1)' = Out
    <3>1. ASSUME NEW x \in Nat, NEW y \in Nat, Enter(x, y, "game")
          PROVE  /\ m \in Nat /\ m + 1 \in DOMAIN stack'
                 /\ stack'[m + 1].run = x /\ stack'[m + 1].restart = y
                 /\ stack'[m + 1].by = "game"
                 /\ (y = 0 => Out' = Out) /\ Suspended(m + 1)' = Out'
      BY <2>1, <3>1, EnterIs
    <3> QED
      BY ONLY <2>1, <3>1
  <2> QED
    BY <2>2 DEF r
<1>4. \A q : On(q)' = On(q) /\ Active(q)' = Active(q)
  BY <1>1, <1>2, SameOn
<1>5. Held'
  BY <1>1, <1>3, <1>4 DEF Held
<1>6. IsNewest(mem[p], Active(p) \ Out)
  BY <1>1 DEF Held
<1>7. FrameInv(m + 1)'
  <2>1. ASSUME NEW q \in Places, mem[p] \in On(q)
        PROVE  /\ mem[p] \in Active(q) /\ mem[p] \notin Out
               /\ \A j \in Active(q) : j > mem[p] => j \in Out
    <3>1. mem[p] # 0 /\ Active(q) \subseteq Nat
      BY <1>1, <2>1, Records
    <3>2. mem[p] \in Active(p) \ Out /\ \A j \in Active(p) \ Out : j <= mem[p]
      BY <1>6, <3>1 DEF IsNewest, Original
    <3>3. p = q
      BY <1>1, <2>1, <3>2, Records
    <3> QED
      BY <1>2, <3>1, <3>2, <3>3
  <2>2. mem[p] \in 0 .. Len(hooks)
    BY <1>2
  <2> QED
    BY <1>1, <1>3, <1>4, <2>1, <2>2 DEF FrameInv
<1>8. Passed(m + 1)'
  <2>1. CASE m # 0
    <3>1. m + 1 \in 2 .. m + 1 /\ stack'[m + 1].by # "hook"
      BY <1>3, <2>1
    <3> QED
      BY <3>1 DEF Passed
  <2>2. CASE m = 0
    <3>1. Out = {} /\ stack'[1].run = mem[p]
      BY <1>1, <1>3, <2>2, OutIs DEF Suspended
    <3>2. ASSUME NEW q \in Places, mem[p] \in On(q)
          PROVE  \A j \in On(q) : j >= mem[p] => j = mem[p]
      <4>1. mem[p] # 0 /\ On(q) \subseteq Nat
        BY <1>1, <3>2, Records
      <4>2. mem[p] \in Active(p) /\ \A j \in Active(p) : j <= mem[p]
        BY <1>6, <3>1, <4>1 DEF IsNewest, Original
      <4>3. p = q /\ Active(p) = On(p)
        BY <1>1, <3>2, <4>2, Records, AllOn
      <4> QED
        BY <1>2, <4>1, <4>2, <4>3
    <3>3. 1 \in 1 .. 1 /\ 1 .. 1 - 1 = {} /\ 2 .. 1 = {} /\ m + 1 = 1
      BY <2>2
    <3> QED
      BY <1>4, <3>1, <3>2, <3>3 DEF Passed
  <2> QED
    BY <2>1, <2>2
<1> QED
  BY <1>1, <1>2, <1>5, <1>7, <1>8, CallInv


\* The callback on top of the calls is that of a hook.
LEMMA RunningIs ==
  ASSUME HooksInv, NEW kinds, Running(kinds), NEW m, m = Len(stack)
  PROVE  /\ loaded /\ HooksTyped /\ Remembers /\ Held
         /\ m \in DOMAIN stack /\ DOMAIN stack = 1 .. m /\ m \in Nat /\ m >= 1 /\ Top = stack[m]
         /\ stack[m].run \in DOMAIN hooks /\ stack[m].run # 0 /\ hooks[stack[m].run].kind \in kinds
         /\ stack[m].run \in On(hooks[stack[m].run].place) /\ hooks[stack[m].run].place \in Places
         /\ hooks[stack[m].run].org \in Nat
         /\ (\A k \in 1 .. m : FrameInv(k)) /\ Passed(m)
<1>1. HooksTyped /\ Remembers /\ stack # <<>> /\ loaded /\ Held
  BY DEF HooksInv, Running
<1>2. m \in Nat /\ DOMAIN stack = 1 .. m /\ m >= 1 /\ stack \in Seq(Frames)
  BY <1>1 DEF HooksTyped
<1>3. m \in DOMAIN stack /\ (\A k \in 1 .. m : FrameInv(k)) /\ Passed(m)
  BY <1>1, <1>2 DEF HooksInv
<1>4. Top = stack[m] /\ stack[m].run > 0 /\ hooks[stack[m].run].kind \in kinds
  BY DEF Top, Running
<1>5. stack[m].run \in 0 .. Len(hooks)
  BY <1>2, <1>3 DEF FrameInv
<1>6. stack[m].run \in DOMAIN hooks
  BY <1>1, <1>4, <1>5, Records
<1> QED
  BY <1>1, <1>2, <1>3, <1>4, <1>6, Records

\* A call past a hook that stays where it is, to what the hook remembers.
LEMMA CallPastInv ==
  ASSUME UsedAsMeant, HooksInv, NEW m, m = Len(stack), NEW t, t = stack[m].run,
         Running({"call", "vmt", "tramp"}), Enter(hooks[t].org, 0, "hook"),
         UNCHANGED <<mem, hooks, asked, loaded>>
  PROVE  HooksInv'
<1>1. /\ loaded /\ HooksTyped /\ Remembers /\ Held
      /\ m \in DOMAIN stack /\ m \in Nat /\ DOMAIN stack = 1 .. m /\ m >= 1
      /\ t \in DOMAIN hooks /\ t # 0 /\ hooks[t].kind \in {"call", "vmt", "tramp"}
      /\ t \in On(hooks[t].place) /\ hooks[t].place \in Places /\ hooks[t].org \in Nat
      /\ (\A k \in 1 .. m : FrameInv(k)) /\ Passed(m)
  BY RunningIs
<1>2. SameHooks /\ MemTyped' /\ ListTyped'
  BY <1>1 DEF HooksInv, HooksTyped, MemTyped, ListTyped, SameHooks
<1>3. /\ \A k \in 1 .. m : stack'[k] = stack[k]
      /\ stack'[m + 1].run = hooks[t].org /\ stack'[m + 1].restart = 0 /\ Out' = Out
  <2> DEFINE r == hooks[t].org
  <2>1. HooksTyped /\ r \in Nat /\ Enter(r, 0, "hook") /\ 0 \in Nat /\ "hook" \in {"game", "hook"}
    BY <1>1
  <2> HIDE DEF r
  <2>2. /\ \A k \in 1 .. m : stack'[k] = stack[k]
        /\ stack'[m + 1].run = r /\ stack'[m + 1].restart = 0 /\ Out' = Out
    <3>1. ASSUME NEW x \in Nat, NEW y \in Nat, Enter(x, y, "hook")
          PROVE  /\ \A k \in 1 .. m : stack'[k] = stack[k]
                 /\ stack'[m + 1].run = x /\ stack'[m + 1].restart = y
                 /\ (y = 0 => Out' = Out)
      BY <2>1, <3>1, EnterIs
    <3> QED
      BY ONLY <2>1, <3>1
  <2> QED
    BY <2>2 DEF r
<1>4. \A q : On(q)' = On(q) /\ Active(q)' = Active(q)
  BY <1>1, <1>2, SameOn
<1>5. Held'
  BY <1>1, <1>3, <1>4 DEF Held
<1>6. FrameInv(m + 1)'
  <2>1. ASSUME NEW q \in Places, hooks[t].org \in On(q) PROVE hooks[hooks[t].org].kind # "jmp"
    <3>1. hooks[t].org # 0
      BY <1>1, <2>1, Records
    <3>2. hooks[t].kind # "tramp" /\ hooks[t].org \in On(hooks[t].place)
      BY <1>1, <3>1, RememberedIs DEF Remembers, Original
    <3>3. hooks[t].kind \in {"call", "vmt"}
      BY <1>1, <3>2
    <3> QED
      BY <1>1, <3>2, <3>3, KindsGo
  <2>2. hooks[t].org \in 0 .. Len(hooks)
    BY <1>1, RememberedIs
  <2>3. \A q : On(q) \subseteq DOMAIN hooks
    BY <1>1, Records
  <2> QED
    BY <1>1, <1>3, <1>4, <2>1, <2>2, <2>3 DEF FrameInv
<1>7. Passed(m + 1)'
  BY <1>1, <1>2, <1>3, PassOn
<1> QED
  <2>1. 0 \in Nat /\ "hook" \in {"game", "hook"}
    OBVIOUS
  <2> QED
    BY <1>1, <1>2, <1>5, <1>6, <1>7, <2>1, CallInv

LEMMA CallTargetInv ==
  ASSUME UsedAsMeant, HooksInv, CallTarget PROVE HooksInv'
<1>1. /\ Running({"call", "vmt"}) /\ Top = stack[Len(stack)]
      /\ Running({"call", "vmt", "tramp"})
      /\ Enter(hooks[Top.run].org, 0, "hook") /\ UNCHANGED <<mem, hooks, asked, loaded>>
  BY DEF CallTarget, Running, Top
<1> QED
  BY <1>1, CallPastInv

LEMMA CallTrampolineInv ==
  ASSUME UsedAsMeant, HooksInv, CallTrampoline PROVE HooksInv'
<1>1. /\ Running({"tramp"}) /\ Top = stack[Len(stack)]
      /\ Running({"call", "vmt", "tramp"})
      /\ Enter(IF hooks[Top.run].org = Original THEN Original ELSE Lost, 0, "hook")
      /\ UNCHANGED <<mem, hooks, asked, loaded>>
  BY DEF CallTrampoline, Running, Top
<1>2. hooks[Top.run].org = Original
  <2>1. /\ Remembers /\ hooks[Top.run].kind = "tramp"
        /\ Top.run \in On(hooks[Top.run].place) /\ hooks[Top.run].place \in Places
    BY <1>1, RunningIs
  <2> QED
    BY <2>1 DEF Remembers
<1>3. Enter(hooks[Top.run].org, 0, "hook")
  BY <1>1, <1>2
<1> QED
  BY <1>1, <1>3, CallPastInv


\* The newest of the hooks older than i, when all newer ones and i are taken out.
LEMMA NewestBelow ==
  ASSUME HooksTyped, Remembers, NEW p \in Places, NEW i \in On(p), NEW out,
         hooks[i].org \notin out, i \in out, \A j \in On(p) : j > i => j \in out
  PROVE  IsNewest(hooks[i].org, On(p) \ out)
<1>1. /\ hooks[i].org \in 0 .. i - 1 /\ hooks[i].org < i
      /\ hooks[i].org # 0 => hooks[i].org \in On(p)
      /\ \A j \in On(p) : j < i => j <= hooks[i].org
      /\ On(p) \subseteq Nat \ {0} /\ i \in Nat
  BY RememberedIs, Records
<1>2. \A j \in On(p) \ out : j <= hooks[i].org
  BY <1>1
<1>3. CASE hooks[i].org # 0
  BY <1>1, <1>2, <1>3 DEF IsNewest
<1>4. CASE hooks[i].org = 0
  <2>1. \A j \in On(p) \ out : j <= 0 /\ j \in Nat \ {0}
    BY <1>1, <1>2, <1>4
  <2>2. On(p) \ out = {}
    BY <2>1
  <2> QED
    BY <1>4, <2>2 DEF IsNewest, Original
<1> QED
  BY <1>3, <1>4

LEMMA CallUnhookedInv ==
  ASSUME UsedAsMeant, HooksInv, CallUnhooked, NEW m, m = Len(stack), NEW t, t = stack[m].run,
         NEW p, p = hooks[t].place
  PROVE  HooksInv'
<1>1. /\ Running({"jmp"}) /\ Top = stack[m] /\ set_status(t, FALSE)
      /\ Enter(mem'[p], t, "hook") /\ asked' = asked /\ loaded' = loaded
  BY DEF CallUnhooked, Top
<1>2. /\ loaded /\ HooksTyped /\ Remembers /\ Held
      /\ m \in DOMAIN stack /\ m \in Nat /\ DOMAIN stack = 1 .. m /\ m >= 1
      /\ t \in DOMAIN hooks /\ t # 0 /\ t \in Nat /\ hooks[t].kind = "jmp"
      /\ t \in On(p) /\ p \in Places /\ hooks[t].org \in Nat
      /\ (\A k \in 1 .. m : FrameInv(k)) /\ Passed(m)
  BY <1>1, RunningIs, Records
<1>3. /\ mem' \in [Places -> Nat] /\ hooks' \in Seq(HookRecords)
      /\ mem'[p] = hooks[t].org
      /\ \A q \in Places : q # p => mem'[q] = mem[q]
      /\ \A q \in Places : mem[q] <= Len(hooks) => mem'[q] <= Len(hooks)
      /\ SameHooks
      /\ hooks'[t].status = FALSE
      /\ \A j \in DOMAIN hooks : j # t => hooks'[j].status = hooks[j].status
  <2>1. HooksTyped /\ Remembers /\ p \in Places /\ t \in On(p) /\ FALSE \in BOOLEAN /\ set_status(t, FALSE)
    BY <1>1, <1>2
  <2>2. /\ mem' \in [Places -> Nat] /\ hooks' \in Seq(HookRecords)
        /\ mem'[p] = (IF FALSE THEN t ELSE hooks[t].org)
        /\ \A q \in Places : q # p => mem'[q] = mem[q]
        /\ \A q \in Places : mem[q] <= Len(hooks) => mem'[q] <= Len(hooks)
        /\ Len(hooks') = Len(hooks) /\ DOMAIN hooks' = DOMAIN hooks
        /\ \A j \in DOMAIN hooks : /\ hooks'[j].place = hooks[j].place
                                   /\ hooks'[j].kind = hooks[j].kind
                                   /\ hooks'[j].org = hooks[j].org
        /\ hooks'[t].status = FALSE
        /\ \A j \in DOMAIN hooks : j # t => hooks'[j].status = hooks[j].status
    BY <2>1, StatusIs
  <2> QED
    BY <1>1, <2>2 DEF SameHooks
<1>4. MemTyped' /\ ListTyped'
  BY <1>3 DEF MemTyped, ListTyped, SameHooks, HooksInv
<1> DEFINE r == hooks[t].org
<1>5. r \in Nat /\ Enter(r, t, "hook") /\ "hook" \in {"game", "hook"}
  BY <1>1, <1>2, <1>3
<1>6. /\ \A k \in 1 .. m : stack'[k] = stack[k]
      /\ stack'[m + 1].run = r /\ stack'[m + 1].restart = t
      /\ Out' = Out \cup {t} /\ Suspended(m + 1)' = Out'
  <2>1. r \in Nat /\ t \in Nat /\ HooksTyped /\ Enter(r, t, "hook") /\ "hook" \in {"game", "hook"}
    BY <1>2, <1>5
  <2> HIDE DEF r
  <2>2. /\ \A k \in 1 .. m : stack'[k] = stack[k]
        /\ stack'[m + 1].run = r /\ stack'[m + 1].restart = t
        /\ (t # 0 => Out' = Out \cup {t}) /\ Suspended(m + 1)' = Out'
    <3>1. ASSUME NEW x \in Nat, NEW y \in Nat, Enter(x, y, "hook")
          PROVE  /\ \A k \in 1 .. m : stack'[k] = stack[k]
                 /\ stack'[m + 1].run = x /\ stack'[m + 1].restart = y
                 /\ (y # 0 => Out' = Out \cup {y}) /\ Suspended(m + 1)' = Out'
      BY <2>1, <3>1, EnterIs
    <3> QED
      BY ONLY <2>1, <3>1
  <2> QED
    BY <1>2, <2>2
<1>7. \A q : On(q)' = On(q) /\ Active(q)' = Active(q)
  BY <1>2, <1>3, SameOn
<1>8. /\ t \in Active(p) /\ t \notin Out /\ Active(p) = On(p)
      /\ \A j \in On(p) : j > t => j \in Out
  <2>1. t \in Active(p) /\ t \notin Suspended(m) /\ \A j \in Active(p) : j > t => j \in Suspended(m)
    BY <1>2 DEF FrameInv
  <2> QED
    BY <1>2, <2>1, OutIs, AllOn
<1>9. r \in 0 .. Len(hooks) /\ (r # 0 => r \in On(p)) /\ r < t /\ \A j \in On(p) : j < t => j <= r
  BY <1>2, RememberedIs
<1>10. r \notin Out'
  <2>1. SUFFICES ASSUME r \in Out PROVE FALSE
    BY <1>2, <1>6, <1>9
  <2>2. r \in Suspended(m) /\ r # 0
    BY <1>2, <2>1, OutIs DEF Suspended
  <2>3. t \in Suspended(m)
    BY <1>2, <1>8, <1>9, <2>2, NewerOut
  <2> QED
    BY <1>2, <1>8, <2>3, OutIs
<1>11. Held'
  <2>1. IsNewest(r, On(p) \ Out')
    <3>1. t \in Out' /\ \A j \in On(p) : j > t => j \in Out'
      BY <1>6, <1>8
    <3>2. \A out : (r \notin out /\ t \in out /\ \A j \in On(p) : j > t => j \in out) => IsNewest(r, On(p) \ out)
      BY <1>2, NewestBelow
    <3> QED
      BY <1>10, <3>1, <3>2
  <2>2. ASSUME NEW q \in Places, q # p PROVE IsNewest(mem'[q], Active(q) \ Out')
    <3>1. t \notin Active(q)
      BY <1>2, <2>2, Records
    <3>2. Active(q) \ Out' = Active(q) \ Out
      BY <1>6, <3>1
    <3> QED
      BY <1>2, <1>3, <2>2, <3>2 DEF Held
  <2>3. \A q \in Places : IsNewest(mem'[q], Active(q)' \ Out')
    BY <1>3, <1>7, <1>8, <2>1, <2>2
  <2>4. ASSUME NEW i \in DOMAIN hooks PROVE hooks'[i].status <=> asked[i] /\ i \notin Out'
    <3>1. hooks[i].status <=> asked[i] /\ i \notin Out
      BY <1>2 DEF Held
    <3>2. CASE i = t
      BY <1>3, <1>6, <3>2
    <3>3. CASE i # t
      BY <1>3, <1>6, <3>1, <3>3
    <3> QED
      BY <3>2, <3>3
  <2> QED
    BY <1>1, <1>3, <2>3, <2>4 DEF Held, SameHooks
<1>12. FrameInv(m + 1)'
  <2>1. m + 1 > 1 /\ (m + 1) - 1 = m /\ stack'[m].run = t /\ m \in 1 .. m
    BY <1>2, <1>6
  <2>2. hooks'[t].kind = "jmp"
    BY <1>2, <1>3 DEF SameHooks
  <2>3. ASSUME NEW q \in Places, r \in On(q)
        PROVE  /\ r \in Active(q) /\ r \notin Out'
               /\ \A j \in Active(q) : j > r => j \in Out'
    <3>1. r # 0 /\ On(p) \subseteq Nat
      BY <1>2, <2>3, Records
    <3>2. q = p
      BY <1>2, <1>9, <2>3, <3>1, Records
    <3>3. ASSUME NEW j \in On(p), j > r PROVE j \in Out'
      <4>1. j = t \/ j > t
        BY <1>2, <1>9, <3>1, <3>3
      <4> QED
        BY <1>6, <1>8, <4>1
    <3> QED
      BY <1>8, <1>10, <2>3, <3>2, <3>3
  <2>4. /\ stack'[m + 1].run \in 0 .. Len(hooks')
        /\ stack'[m + 1].restart = stack'[(m + 1) - 1].run /\ hooks'[stack'[m + 1].restart].kind = "jmp"
    BY <1>3, <1>6, <1>9, <2>1, <2>2 DEF SameHooks
  <2>5. ASSUME NEW q \in Places, stack'[m + 1].run \in On(q)'
        PROVE  /\ stack'[m + 1].run \in Active(q)' /\ stack'[m + 1].run \notin Suspended(m + 1)'
               /\ \A j \in Active(q)' : j > stack'[m + 1].run => j \in Suspended(m + 1)'
    <3> HIDE DEF r
    <3> QED
      BY <1>6, <1>7, <2>3, <2>5
  <2> QED
    BY <2>1, <2>4, <2>5 DEF FrameInv
<1>13. Passed(m + 1)'
  BY <1>2, <1>3, <1>6, PassOn
<1> QED
  <2> HIDE DEF r
  <2> QED
    BY <1>1, <1>2, <1>3, <1>4, <1>5, <1>11, <1>12, <1>13, CallInv


\* The calls below one that returns keep what they know.
LEMMA ReturnKeeps ==
  ASSUME HooksInv, loaded, loaded' = loaded, SameHooks, MemTyped', ListTyped',
         NEW m, m = Len(stack), stack # <<>>, stack' = SubSeq(stack, 1, m - 1), Held'
  PROVE  HooksInv'
<1>1. HooksTyped /\ Remembers /\ stack \in Seq(Frames) /\ m \in Nat /\ m >= 1 /\ DOMAIN stack = 1 .. m
  BY DEF HooksInv, HooksTyped
<1>2. /\ stack' \in Seq(Frames) /\ DOMAIN stack' = 1 .. m - 1
      /\ \A k \in 1 .. m - 1 : stack'[k] = stack[k] /\ k \in DOMAIN stack
  BY <1>1
<1>3. HooksTyped'
  BY <1>1, <1>2 DEF HooksTyped, MemTyped, ListTyped, SameHooks
<1>4. Remembers'
  BY <1>1, SameRemembers
<1>5. ASSUME NEW n \in DOMAIN stack' PROVE FrameInv(n)' /\ Passed(n)'
  <2>1. n \in DOMAIN stack /\ \A k \in 1 .. n : k \in 1 .. m - 1
    BY <1>1, <1>2
  <2>2. /\ \A k \in 1 .. n : stack'[k] = stack[k] /\ FrameInv(k)
        /\ Passed(n)
    BY <1>2, <2>1 DEF HooksInv
  <2> QED
    BY <1>1, <2>1, <2>2, PrefixKeeps
<1> QED
  BY <1>3, <1>4, <1>5 DEF HooksInv, HooksDeleted, MemTyped

LEMMA ReturnInv ==
  ASSUME UsedAsMeant, HooksInv, Return, NEW m, m = Len(stack), NEW i, i = stack[m].restart
  PROVE  HooksInv'
<1>1. /\ stack # <<>> /\ stack' = SubSeq(stack, 1, m - 1) /\ asked' = asked /\ loaded' = loaded
      /\ IF i = 0 THEN mem' = mem /\ hooks' = hooks ELSE set_status(i, TRUE)
  BY DEF Return, Top
<1>2. /\ loaded /\ HooksTyped /\ Remembers /\ Held
      /\ m \in Nat /\ m >= 1 /\ DOMAIN stack = 1 .. m /\ stack \in Seq(Frames)
      /\ \A k \in 1 .. m : FrameInv(k)
  <2>1. loaded /\ HooksTyped /\ Remembers /\ Held /\ \A k \in DOMAIN stack : FrameInv(k)
    BY <1>1 DEF HooksInv
  <2>2. stack \in Seq(Frames)
    BY <2>1 DEF HooksTyped
  <2>3. m \in Nat /\ m >= 1 /\ DOMAIN stack = 1 .. m
    BY <1>1, <2>2
  <2> QED
    BY <2>1, <2>2, <2>3
<1>3. /\ DOMAIN stack' = 1 .. m - 1
      /\ \A k \in 1 .. m - 1 : stack'[k] = stack[k]
  BY <1>1, <1>2
<1>4. \A x : /\ x \in Out <=> x # 0 /\ \E k \in 1 .. m : stack[k].restart = x
             /\ x \in Out' <=> x # 0 /\ \E k \in 1 .. m - 1 : stack[k].restart = x
  BY <1>2, <1>3 DEF Out
<1>5. \A x : x \in Out <=> (x \in Out' \/ (x = i /\ x # 0))
  <2>1. \A k \in 1 .. m : k = m \/ k \in 1 .. m - 1
    BY <1>2
  <2>2. m \in 1 .. m /\ \A k \in 1 .. m - 1 : k \in 1 .. m
    BY <1>2
  <2> QED
    BY <1>4, <2>1, <2>2
<1>6. CASE i = 0
  <2>1. SameHooks /\ MemTyped' /\ ListTyped'
    BY <1>1, <1>2, <1>6 DEF SameHooks, MemTyped, ListTyped, HooksInv, HooksTyped
  <2>2. \A q : On(q)' = On(q) /\ Active(q)' = Active(q)
    BY <1>2, <2>1, SameOn
  <2>3. Out' = Out
    BY <1>5, <1>6
  <2>4. Held'
    BY <1>1, <1>2, <1>6, <2>2, <2>3 DEF Held
  <2> QED
    BY <1>1, <1>2, <2>1, <2>4, ReturnKeeps
<1>7. CASE i # 0
  <2> DEFINE p == hooks[i].place
  <2>1. m > 1 /\ i = stack[m - 1].run /\ hooks[i].kind = "jmp" /\ m \in 1 .. m /\ m - 1 \in 1 .. m
    BY <1>2, <1>7 DEF FrameInv
  <2>2. i \in 0 .. Len(hooks)
    BY <1>2, <2>1 DEF FrameInv
  <2>3. i \in DOMAIN hooks /\ p \in Places /\ i \in On(p) /\ i \in Nat
    BY <1>2, <1>7, <2>2, Records
  <2> HIDE DEF p
  <2>4. i \in Active(p) /\ i \notin Suspended(m - 1) /\ \A j \in Active(p) : j > i => j \in Suspended(m - 1)
    BY <1>2, <2>1, <2>3 DEF FrameInv
  <2>5. Suspended(m - 1) = Out'
    BY <1>4 DEF Suspended
  <2>6. set_status(i, TRUE)
    BY <1>1, <1>7
  <2>7. /\ mem' \in [Places -> Nat] /\ hooks' \in Seq(HookRecords)
        /\ mem'[p] = i
        /\ \A q \in Places : q # p => mem'[q] = mem[q]
        /\ \A q \in Places : mem[q] <= Len(hooks) => mem'[q] <= Len(hooks)
        /\ SameHooks
        /\ hooks'[i].status = TRUE
        /\ \A j \in DOMAIN hooks : j # i => hooks'[j].status = hooks[j].status
    <3>1. HooksTyped /\ Remembers /\ TRUE \in BOOLEAN
      BY <1>2
    <3>2. /\ mem' \in [Places -> Nat] /\ hooks' \in Seq(HookRecords)
          /\ mem'[p] = (IF TRUE THEN i ELSE hooks[i].org)
          /\ \A q \in Places : q # p => mem'[q] = mem[q]
          /\ \A q \in Places : mem[q] <= Len(hooks) => mem'[q] <= Len(hooks)
          /\ Len(hooks') = Len(hooks) /\ DOMAIN hooks' = DOMAIN hooks
          /\ \A j \in DOMAIN hooks : /\ hooks'[j].place = hooks[j].place
                                     /\ hooks'[j].kind = hooks[j].kind
                                     /\ hooks'[j].org = hooks[j].org
          /\ hooks'[i].status = TRUE
          /\ \A j \in DOMAIN hooks : j # i => hooks'[j].status = hooks[j].status
      BY <2>3, <2>6, <3>1, StatusIs
    <3> QED
      BY <1>1, <3>2 DEF SameHooks
  <2>8. MemTyped' /\ ListTyped'
    BY <2>7 DEF MemTyped, ListTyped, SameHooks, HooksInv
  <2>9. \A q : On(q)' = On(q) /\ Active(q)' = Active(q)
    BY <1>2, <2>7, SameOn
  <2>10. Held'
    <3>1. IsNewest(i, Active(p) \ Out')
      <4>1. \A j \in Active(p) \ Out' : j <= i
        BY <1>2, <2>3, <2>4, <2>5, Records
      <4> QED
        BY <2>4, <2>5, <4>1 DEF IsNewest
    <3>2. ASSUME NEW q \in Places, q # p PROVE IsNewest(mem'[q], Active(q) \ Out')
      <4>1. i \notin Active(q)
        BY <1>2, <2>3, <3>2, Records DEF p
      <4>2. Active(q) \ Out' = Active(q) \ Out
        BY <1>5, <4>1
      <4> QED
        BY <1>2, <2>7, <3>2, <4>2 DEF Held
    <3>3. \A q \in Places : IsNewest(mem'[q], Active(q)' \ Out')
      BY <2>7, <2>9, <3>1, <3>2
    <3>4. ASSUME NEW j \in DOMAIN hooks PROVE hooks'[j].status <=> asked[j] /\ j \notin Out'
      <4>1. hooks[j].status <=> asked[j] /\ j \notin Out
        BY <1>2 DEF Held
      <4>2. CASE j = i
        <5>1. asked[i] /\ i \notin Out'
          BY <2>4, <2>5 DEF Active
        <5> QED
          BY <2>7, <4>2, <5>1
      <4>3. CASE j # i
        BY <1>5, <2>7, <4>1, <4>3
      <4> QED
        BY <4>2, <4>3
    <3> QED
      BY <1>1, <2>7, <3>3, <3>4 DEF Held, SameHooks
  <2> QED
    BY <1>1, <1>2, <2>7, <2>8, <2>10, ReturnKeeps
<1> QED
  BY <1>6, <1>7


(* ------------------------------ between calls ----------------------------- *)

LEMMA BetweenCalls ==
  ASSUME HooksTyped', Remembers', HooksDeleted', loaded' => Held', MemTyped', stack' = <<>>
  PROVE  HooksInv'
<1>1. DOMAIN stack' = {}
  OBVIOUS
<1> QED
  BY <1>1 DEF HooksInv, MemTyped

\* Between calls no hook is taken out.
LEMMA NoneOut ==
  ASSUME HooksInv, loaded, stack = <<>>
  PROVE  /\ HooksTyped /\ Remembers /\ Out = {} /\ MemTyped
         /\ \A p \in Places : IsNewest(mem[p], Active(p))
         /\ \A i \in DOMAIN hooks : hooks[i].status <=> asked[i]
<1>1. HooksTyped /\ Remembers /\ Held /\ Out = {}
  BY OutIs DEF HooksInv
<1>2. MemTyped
  BY DEF HooksInv, HooksTyped, MemTyped
<1>3. \A p : Active(p) \ Out = Active(p)
  BY <1>1
<1> QED
  BY <1>1, <1>2, <1>3 DEF Held

LEMMA AppendIs ==
  ASSUME NEW S, NEW s \in Seq(S), NEW e \in S
  PROVE  /\ Append(s, e) \in Seq(S) /\ Len(Append(s, e)) = Len(s) + 1
         /\ Append(s, e)[Len(s) + 1] = e
         /\ \A i \in 1 .. Len(s) : Append(s, e)[i] = s[i]
OBVIOUS

LEMMA NewInv ==
  ASSUME UsedAsMeant, HooksInv, NEW p \in Places, NEW kind \in HookKinds, New(p, kind),
         NEW n, n = Len(hooks) + 1
  PROVE  HooksInv'
<1> DEFINE hook == [place |-> p, kind |-> kind, org |-> mem[p], status |-> TRUE]
<1>1. /\ loaded /\ loaded' = loaded /\ stack = <<>> /\ stack' = stack
      /\ kind \in Kinds[p] /\ (Shared \/ On(p) = {})
      /\ kind = "tramp" => mem[p] = Original
      /\ hooks' = Append(hooks, hook) /\ mem' = [mem EXCEPT ![p] = Len(hooks')]
      /\ asked' = Append(asked, TRUE)
  BY DEF New, MayHook, UsedAsMeant
<1>2. /\ HooksTyped /\ Remembers /\ Out = {} /\ MemTyped
      /\ \A q \in Places : IsNewest(mem[q], Active(q))
      /\ \A i \in DOMAIN hooks : hooks[i].status <=> asked[i]
  BY <1>1, NoneOut
<1>3. /\ hook \in HookRecords /\ hook.place = p /\ hook.kind = kind /\ hook.org = mem[p] /\ hook.status = TRUE
  BY <1>2 DEF HookRecords, MemTyped
<1> HIDE DEF hook
<1>4. /\ Len(hooks) \in Nat /\ n \in Nat /\ n # 0 /\ DOMAIN hooks = 1 .. Len(hooks)
      /\ hooks' \in Seq(HookRecords) /\ Len(hooks') = n /\ DOMAIN hooks' = 1 .. n
      /\ hooks'[n] = hook /\ \A i \in DOMAIN hooks : hooks'[i] = hooks[i] /\ i \in DOMAIN hooks' /\ i < n
      /\ \A i \in DOMAIN hooks' : i = n \/ i \in DOMAIN hooks
  BY <1>1, <1>2, <1>3 DEF HooksTyped
<1>5. /\ asked' \in Seq(BOOLEAN) /\ Len(asked') = n /\ asked'[n] = TRUE
      /\ \A i \in DOMAIN hooks : asked'[i] = asked[i]
  <2>1. asked \in Seq(BOOLEAN) /\ Len(asked) = Len(hooks) /\ asked' = Append(asked, TRUE)
    BY <1>1, <1>2 DEF HooksTyped
  <2>2. /\ asked' \in Seq(BOOLEAN) /\ Len(asked') = Len(asked) + 1
        /\ asked'[Len(asked) + 1] = TRUE
        /\ \A i \in 1 .. Len(asked) : asked'[i] = asked[i]
    <3>1. TRUE \in BOOLEAN
      OBVIOUS
    <3> QED
      BY ONLY <2>1, <3>1, AppendIs, ZenonT(30)
  <2> QED
    BY ONLY <1>4, <2>1, <2>2, n = Len(hooks) + 1
<1>6. mem' \in [Places -> Nat] /\ mem'[p] = n /\ \A q \in Places : q # p => mem'[q] = mem[q]
  BY <1>1, <1>2, <1>4 DEF HooksTyped
<1>7. HooksTyped'
  BY <1>1, <1>2, <1>4, <1>5, <1>6 DEF HooksTyped
<1>8. MemTyped'
  <2>1. ASSUME NEW q \in Places PROVE mem'[q] <= n
    <3>1. mem[q] \in Nat /\ mem[q] <= Len(hooks)
      BY <1>2 DEF MemTyped
    <3>2. CASE q = p
      BY <1>4, <1>6, <3>2
    <3>3. CASE q # p
      BY <1>4, <1>6, <3>1, <3>3
    <3> QED
      BY <3>2, <3>3
  <2> QED
    BY <1>4, <1>6, <2>1 DEF MemTyped
<1>9. n \notin DOMAIN hooks
  BY <1>4
<1>10. \A q : \A i : /\ i \in On(q)' <=> (i \in On(q) \/ (i = n /\ q = p))
                     /\ i \in Active(q)' <=> (i \in Active(q) \/ (i = n /\ q = p))
  BY <1>3, <1>4, <1>5 DEF On, Active
<1>11. Active(p) = On(p)
  <2>1. CASE On(p) = {}
    BY <1>2, <2>1, Records
  <2>2. CASE On(p) # {}
    <3>1. ~ MayStop
      BY <1>1, <2>2 DEF UsedAsMeant
    <3> QED
      BY <1>2, <3>1, Records DEF Remembers, Active
  <2> QED
    BY <2>1, <2>2
<1>12. \A q : On(q) \subseteq DOMAIN hooks /\ Active(q) \subseteq DOMAIN hooks
  BY <1>2, Records
<1>13. Held'
  <2>1. Out' = {}
    BY <1>1 DEF Out
  <2>2. IsNewest(mem'[p], Active(p)')
    <3>1. n \in Active(p)' /\ \A j \in Active(p)' : j <= n
      BY <1>4, <1>10, <1>12
    <3> QED
      BY <1>6, <3>1 DEF IsNewest
  <2>3. ASSUME NEW q \in Places, q # p PROVE IsNewest(mem'[q], Active(q)')
    <3>1. Active(q)' = Active(q)
      <4>1. \A i : i \in Active(q)' <=> i \in Active(q)
        BY <1>10, <2>3
      <4> QED
        BY <4>1
    <3> QED
      BY <1>2, <1>6, <2>3, <3>1
  <2>4. \A q : Active(q)' \ Out' = Active(q)'
    BY <2>1
  <2>5. \A q \in Places : IsNewest(mem'[q], Active(q)' \ Out')
    BY <2>2, <2>3, <2>4
  <2>6. \A i \in DOMAIN hooks' : hooks'[i].status <=> asked'[i] /\ i \notin Out'
    BY <1>2, <1>3, <1>4, <1>5, <2>1
  <2> QED
    BY <2>5, <2>6 DEF Held
<1>14. Remembers'
  <2>1. ASSUME NEW q \in Places, NEW i \in On(q), i # n
        PROVE  /\ IsNewest(hooks'[i].org, {j \in On(q)' : j < i})
               /\ hooks'[i].kind \in Kinds[q]
               /\ hooks'[i].kind = "tramp" => hooks'[i].org = Original
               /\ MayStop \/ asked'[i]
               /\ Shared \/ On(q)' = {i}
    <3>1. i \in DOMAIN hooks /\ hooks'[i] = hooks[i] /\ asked'[i] = asked[i] /\ i < n /\ i \in Nat
      BY <1>4, <1>5, <1>12
    <3>2. {j \in On(q)' : j < i} = {j \in On(q) : j < i}
      <4>1. ~ (n < i)
        BY <1>4, <3>1
      <4> QED
        BY <1>10, <4>1
    <3>3. Shared \/ On(q)' = {i}
      <4>1. SUFFICES ASSUME ~ Shared PROVE On(q)' = {i}
        OBVIOUS
      <4>2. On(p) = {} /\ On(q) = {i}
        BY <1>1, <1>2, <4>1 DEF Remembers
      <4>3. p # q
        BY <4>2
      <4> QED
        BY <1>10, <4>2, <4>3
    <3> QED
      BY <1>2, <3>1, <3>2, <3>3 DEF Remembers
  <2>2. /\ IsNewest(hooks'[n].org, {j \in On(p)' : j < n})
        /\ hooks'[n].kind \in Kinds[p]
        /\ hooks'[n].kind = "tramp" => hooks'[n].org = Original
        /\ MayStop \/ asked'[n]
        /\ Shared \/ On(p)' = {n}
    <3>1. {j \in On(p)' : j < n} = On(p)
      <4>1. ~ (n < n) /\ \A j \in On(p) : j < n
        BY <1>4, <1>12
      <4> QED
        BY <1>10, <4>1
    <3>2. Shared \/ On(p)' = {n}
      BY <1>1, <1>10
    <3>3. hooks'[n].org = mem[p] /\ hooks'[n].kind = kind
      BY <1>3, <1>4
    <3>4. IsNewest(mem[p], On(p))
      BY <1>2, <1>11
    <3>5. IsNewest(hooks'[n].org, {j \in On(p)' : j < n})
      BY <3>1, <3>3, <3>4
    <3> QED
      BY <1>1, <1>5, <3>2, <3>3, <3>5
  <2>3. \A q : \A i \in On(q)' : (i \in On(q) /\ i # n) \/ (i = n /\ q = p)
    BY <1>9, <1>10, <1>12
  <2>4. ASSUME NEW q \in Places, NEW i \in On(q)'
        PROVE  /\ IsNewest(hooks'[i].org, {j \in On(q)' : j < i})
               /\ hooks'[i].kind \in Kinds[q]
               /\ hooks'[i].kind = "tramp" => hooks'[i].org = Original
               /\ MayStop \/ asked'[i]
               /\ Shared \/ On(q)' = {i}
    <3>1. CASE i \in On(q) /\ i # n
      BY <2>1, <3>1
    <3>2. CASE i = n /\ q = p
      BY <2>2, <3>2
    <3> QED
      BY <2>3, <3>1, <3>2
  <2> QED
    BY <2>4 DEF Remembers
<1> QED
  BY <1>1, <1>7, <1>8, <1>13, <1>14, BetweenCalls DEF HooksDeleted


LEMMA ExceptIs ==
  ASSUME NEW S, NEW s \in Seq(S), NEW i \in DOMAIN s, NEW e \in S, NEW t, t = [s EXCEPT ![i] = e]
  PROVE  /\ t \in Seq(S) /\ Len(t) = Len(s)
         /\ t[i] = e /\ \A j \in DOMAIN s : j # i => t[j] = s[j]
OBVIOUS

\* stop() and start() of the one hook of a place.
LEMMA ChangeInv ==
  ASSUME UsedAsMeant, HooksInv, NEW i, MayChange(i), NEW on \in BOOLEAN, set_status(i, on),
         asked' = [asked EXCEPT ![i] = on], UNCHANGED <<stack, loaded>>, NEW p, p = hooks[i].place
  PROVE  HooksInv'
<1>1. loaded /\ stack = <<>> /\ i \in DOMAIN hooks /\ MayStop /\ ~ Shared
  BY DEF MayChange, UsedAsMeant
<1>2. /\ HooksTyped /\ Remembers /\ Out = {} /\ MemTyped
      /\ \A q \in Places : IsNewest(mem[q], Active(q))
      /\ \A j \in DOMAIN hooks : hooks[j].status <=> asked[j]
  BY <1>1, NoneOut
<1>3. i \in On(p) /\ p \in Places /\ i \in Nat /\ DOMAIN asked = DOMAIN hooks
  BY <1>1, <1>2, Records
<1>4. /\ mem' \in [Places -> Nat] /\ hooks' \in Seq(HookRecords)
      /\ mem'[p] = (IF on THEN i ELSE hooks[i].org)
      /\ \A q \in Places : q # p => mem'[q] = mem[q]
      /\ \A q \in Places : mem[q] <= Len(hooks) => mem'[q] <= Len(hooks)
      /\ Len(hooks') = Len(hooks) /\ DOMAIN hooks' = DOMAIN hooks
      /\ \A j \in DOMAIN hooks : /\ hooks'[j].place = hooks[j].place
                                 /\ hooks'[j].kind = hooks[j].kind
                                 /\ hooks'[j].org = hooks[j].org
      /\ hooks'[i].status = on
      /\ \A j \in DOMAIN hooks : j # i => hooks'[j].status = hooks[j].status
  BY <1>2, <1>3, StatusIs
<1>5. /\ asked' \in Seq(BOOLEAN) /\ Len(asked') = Len(asked)
      /\ asked'[i] = on /\ \A j \in DOMAIN hooks : j # i => asked'[j] = asked[j]
  <2>1. asked \in Seq(BOOLEAN)
    BY <1>2 DEF HooksTyped
  <2>2. i \in DOMAIN asked /\ on \in BOOLEAN /\ asked' = [asked EXCEPT ![i] = on]
    BY <1>1, <1>3
  <2>3. /\ asked' \in Seq(BOOLEAN) /\ Len(asked') = Len(asked)
        /\ asked'[i] = on /\ \A j \in DOMAIN asked : j # i => asked'[j] = asked[j]
    BY <2>1, <2>2, ExceptIs
  <2> QED
    BY <1>3, <2>3
<1>6. HooksTyped' /\ MemTyped'
  BY <1>2, <1>4, <1>5 DEF HooksTyped, MemTyped
<1>7. \A q : On(q)' = On(q)
  BY <1>4 DEF On
<1>8. Remembers'
  <2>1. \A q : On(q) \subseteq DOMAIN hooks
    BY <1>2, Records
  <2>2. \A j \in DOMAIN hooks : hooks'[j].kind = hooks[j].kind /\ hooks'[j].org = hooks[j].org
    BY <1>4
  <2>3. ASSUME NEW q \in Places, NEW j \in On(q)
        PROVE  /\ IsNewest(hooks'[j].org, {k \in On(q) : k < j})
               /\ hooks'[j].kind \in Kinds[q]
               /\ hooks'[j].kind = "tramp" => hooks'[j].org = Original
               /\ MayStop \/ asked'[j]
               /\ Shared \/ On(q) = {j}
    <3>1. Remembers /\ MayStop /\ j \in DOMAIN hooks
      BY <1>1, <1>2, <2>1
    <3> QED
      BY <2>2, <3>1 DEF Remembers
  <2> QED
    BY <1>7, <2>3 DEF Remembers
<1>9. On(p) = {i} /\ hooks[i].org = 0
  <2>1. On(p) = {i}
    BY <1>1, <1>2, <1>3 DEF Remembers
  <2>2. hooks[i].org \in 0 .. i - 1 /\ (hooks[i].org # 0 => hooks[i].org \in On(p)) /\ hooks[i].org < i
    BY <1>2, <1>3, RememberedIs
  <2> QED
    BY <1>3, <2>1, <2>2
<1>10. Held'
  <2>1. Out' = {}
    BY <1>1 DEF Out
  <2>2. IsNewest(mem'[p], Active(p)')
    <3>1. \A j : j \in Active(p)' <=> (j = i /\ on)
      BY <1>5, <1>7, <1>9 DEF Active
    <3>2. CASE on
      <4>1. mem'[p] = i
        BY <1>4, <3>2
      <4>2. i \in Active(p)' /\ \A j \in Active(p)' : j <= i
        BY <1>3, <3>1, <3>2
      <4> QED
        BY <4>1, <4>2 DEF IsNewest
    <3>3. CASE ~ on
      BY <1>4, <1>9, <3>1, <3>3 DEF IsNewest, Original
    <3> QED
      BY <3>2, <3>3
  <2>3. ASSUME NEW q \in Places, q # p PROVE IsNewest(mem'[q], Active(q)')
    <3>1. \A j \in On(q) : j # i /\ j \in DOMAIN hooks
      BY <1>2, <1>3, <2>3, Records
    <3>2. \A j : j \in Active(q)' <=> j \in Active(q)
      BY <1>5, <1>7, <3>1 DEF Active
    <3>3. Active(q)' = Active(q)
      BY <3>2
    <3> QED
      BY <1>2, <1>4, <2>3, <3>3
  <2>4. \A q : Active(q)' \ Out' = Active(q)'
    BY <2>1
  <2>5. \A q \in Places : IsNewest(mem'[q], Active(q)' \ Out')
    BY <2>2, <2>3, <2>4
  <2>6. ASSUME NEW j \in DOMAIN hooks PROVE hooks'[j].status <=> asked'[j] /\ j \notin Out'
    <3>1. CASE j = i
      BY <1>4, <1>5, <2>1, <3>1
    <3>2. CASE j # i
      BY <1>2, <1>4, <1>5, <2>1, <3>2
    <3> QED
      BY <3>1, <3>2
  <2> QED
    BY <1>4, <2>5, <2>6 DEF Held
<1> QED
  BY <1>1, <1>6, <1>8, <1>10, BetweenCalls DEF HooksDeleted

LEMMA TerminateInv ==
  ASSUME UsedAsMeant, HooksInv, onScriptTerminate
  PROVE  HooksInv'
<1> DEFINE off(p) == {i \in On(p) : Stopped(i)}
           last(p) == CHOOSE i \in off(p) : \A j \in off(p) : j <= i
<1>1. /\ loaded /\ loaded' = FALSE /\ stack = <<>> /\ stack' = stack /\ asked' = asked
      /\ mem' = [p \in Places |-> IF off(p) = {} THEN mem[p] ELSE hooks[last(p)].org]
      /\ hooks' = [i \in DOMAIN hooks |-> [hooks[i] EXCEPT !.status = FALSE]]
  BY DEF onScriptTerminate
<1>2. /\ HooksTyped /\ Remembers /\ MemTyped
      /\ \A q \in Places : IsNewest(mem[q], Active(q))
      /\ \A j \in DOMAIN hooks : hooks[j].status <=> asked[j]
  BY <1>1, NoneOut
<1>3. /\ SameHooks /\ hooks' \in Seq(HookRecords)
  <2>1. hooks \in Seq(HookRecords) /\ Len(hooks) \in Nat /\ DOMAIN hooks = 1 .. Len(hooks)
    BY <1>2 DEF HooksTyped
  <2>2. ASSUME NEW i \in DOMAIN hooks
        PROVE  /\ hooks'[i] \in HookRecords /\ hooks'[i].place = hooks[i].place
               /\ hooks'[i].kind = hooks[i].kind /\ hooks'[i].org = hooks[i].org
    <3>1. hooks[i] \in HookRecords /\ hooks'[i] = [hooks[i] EXCEPT !.status = FALSE]
      BY <1>1, <2>1
    <3> QED
      BY <3>1 DEF HookRecords
  <2>3. DOMAIN hooks' = 1 .. Len(hooks)
    BY <1>1, <2>1
  <2>4. hooks' \in Seq(HookRecords) /\ Len(hooks') = Len(hooks)
    BY <1>1, <2>1, <2>2, <2>3
  <2> QED
    BY <1>1, <2>1, <2>2, <2>3, <2>4 DEF SameHooks
<1>4. ASSUME NEW p \in Places, off(p) # {}
      PROVE  last(p) \in off(p)
  <2>1. off(p) = Active(p)
    BY <1>2, Records DEF Active, Stopped
  <2>2. mem[p] \in off(p) /\ \A j \in off(p) : j <= mem[p]
    BY <1>2, <1>4, <2>1 DEF IsNewest
  <2> HIDE DEF off
  <2>3. \E i \in off(p) : \A j \in off(p) : j <= i
    BY <2>2
  <2> QED
    BY <2>3
<1>5. ASSUME NEW p \in Places
      PROVE  /\ mem'[p] = (IF off(p) = {} THEN mem[p] ELSE hooks[last(p)].org)
             /\ mem'[p] \in Nat /\ mem'[p] <= Len(hooks)
  <2>1. mem'[p] = (IF off(p) = {} THEN mem[p] ELSE hooks[last(p)].org)
    BY <1>1
  <2>2. CASE off(p) = {}
    BY <1>2, <2>1, <2>2 DEF MemTyped
  <2>3. CASE off(p) # {}
    <3>1. last(p) \in On(p)
      BY <1>4, <2>3
    <3> HIDE DEF last
    <3>2. hooks[last(p)].org \in 0 .. Len(hooks)
      BY <1>2, <3>1, RememberedIs
    <3>3. Len(hooks) \in Nat
      BY <1>2, Records
    <3> QED
      BY <2>1, <2>3, <3>2, <3>3
  <2> QED
    BY <2>1, <2>2, <2>3
<1>6. MemTyped' /\ HooksTyped'
  <2>1. mem' \in [Places -> Nat]
    BY <1>1, <1>5
  <2>2. MemTyped'
    BY <1>3, <1>5, <2>1 DEF MemTyped, SameHooks
  <2> QED
    BY <1>1, <1>2, <1>3, <2>1, <2>2 DEF HooksTyped, SameHooks
<1>7. Remembers' /\ \A p : On(p)' = On(p)
  BY <1>2, <1>3, SameRemembers, SameOn
<1>8. HooksDeleted'
  <2>1. SUFFICES ASSUME NEW p \in Places, \A i, j \in On(p) : i = j PROVE mem'[p] = 0
    BY <1>7 DEF HooksDeleted, Original
  <2>2. CASE off(p) = {}
    <3>1. Active(p) = {}
      BY <1>2, <2>2, Records DEF Active, Stopped
    <3> QED
      BY <1>2, <1>5, <2>2, <3>1 DEF IsNewest, Original
  <2>3. CASE off(p) # {}
    <3>1. last(p) \in On(p)
      BY <1>4, <2>3
    <3>2. mem'[p] = hooks[last(p)].org
      BY <1>5, <2>3
    <3> HIDE DEF last
    <3>3. /\ hooks[last(p)].org < last(p)
          /\ hooks[last(p)].org # 0 => hooks[last(p)].org \in On(p)
      BY <1>2, <3>1, RememberedIs
    <3>4. last(p) \in Nat
      BY <1>2, <3>1, Records
    <3>5. hooks[last(p)].org # last(p)
      BY <3>3, <3>4
    <3> QED
      BY <2>1, <3>1, <3>2, <3>3, <3>5
  <2> QED
    BY <2>2, <2>3
<1> QED
  BY <1>1, <1>6, <1>7, <1>8, BetweenCalls


(* ------------------------------- the theorem ------------------------------ *)

LEMMA HooksInvInit ==
  ASSUME HooksInit PROVE HooksInv
<1>1. /\ mem = [p \in Places |-> 0] /\ hooks = <<>> /\ stack = <<>> /\ asked = <<>> /\ loaded = TRUE
  BY DEF HooksInit, Original
<1>2. /\ DOMAIN hooks = {} /\ DOMAIN stack = {} /\ Len(hooks) = 0
      /\ \A p : On(p) = {} /\ Active(p) = {}
  BY <1>1 DEF On, Active
<1>3. HooksTyped
  BY <1>1 DEF HooksTyped
<1>4. Remembers /\ HooksDeleted
  BY <1>1, <1>2 DEF Remembers, HooksDeleted
<1>5. Held
  BY <1>1, <1>2 DEF Held, IsNewest, Original
<1>6. \A p \in Places : mem[p] <= Len(hooks)
  BY <1>1, <1>2
<1> QED
  BY <1>1, <1>2, <1>3, <1>4, <1>5, <1>6 DEF HooksInv

LEMMA HooksInvNext ==
  ASSUME UsedAsMeant, HooksInv, [HooksNext]_hooksVars
  PROVE  HooksInv'
<1>1. CASE \E p \in Places : \E kind \in HookKinds : New(p, kind)
  BY <1>1, NewInv
<1>2. CASE \E p \in Places : GameCalls(p)
  BY <1>2, GameCallsInv
<1>3. ASSUME NEW i \in 1 .. MaxHooks, stop(i) \/ start(i) PROVE HooksInv'
  <2>1. TRUE \in BOOLEAN /\ FALSE \in BOOLEAN
    OBVIOUS
  <2>2. CASE stop(i)
    BY <2>1, <2>2, ChangeInv DEF stop
  <2>3. CASE start(i)
    BY <2>1, <2>3, ChangeInv DEF start
  <2> QED
    BY <1>3, <2>2, <2>3
<1>4. CASE CallUnhooked
  BY <1>4, CallUnhookedInv
<1>5. CASE CallTarget
  BY <1>5, CallTargetInv
<1>6. CASE CallTrampoline
  BY <1>6, CallTrampolineInv
<1>7. CASE Return
  BY <1>7, ReturnInv
<1>8. CASE onScriptTerminate
  BY <1>8, TerminateInv
<1>9. CASE UNCHANGED hooksVars
  <2>1. mem' = mem /\ hooks' = hooks /\ stack' = stack /\ asked' = asked /\ loaded' = loaded
    BY <1>9 DEF hooksVars
  <2>2. /\ Out' = Out
        /\ \A p : On(p)' = On(p) /\ Active(p)' = Active(p)
        /\ \A n : Suspended(n)' = Suspended(n)
    BY <2>1 DEF Out, On, Active, Suspended
  <2>3. HooksTyped' /\ Remembers' /\ HooksDeleted' /\ (Held => Held')
    BY <2>1, <2>2 DEF HooksInv, HooksTyped, Remembers, HooksDeleted, Held
  <2>4. ASSUME NEW n \in DOMAIN stack PROVE (FrameInv(n) => FrameInv(n)') /\ (Passed(n) => Passed(n)')
    BY <2>1, <2>2 DEF FrameInv, Passed
  <2> QED
    BY <2>1, <2>3, <2>4 DEF HooksInv
<1> QED
  BY <1>1, <1>2, <1>3, <1>4, <1>5, <1>6, <1>7, <1>8, <1>9 DEF HooksNext

\* The newest of some hooks is the one that CHOOSE finds.
LEMMA NewestIs ==
  ASSUME NEW S \in SUBSET Nat, NEW x \in Nat, IsNewest(x, S)
  PROVE  x = IF S = {} THEN Original ELSE CHOOSE i \in S : \A j \in S : j <= i
<1>1. CASE S = {}
  BY <1>1 DEF IsNewest
<1>2. CASE S # {}
  <2>1. x \in S /\ \A j \in S : j <= x
    BY <1>2 DEF IsNewest
  <2> DEFINE y == CHOOSE i \in S : \A j \in S : j <= i
  <2>2. y \in S /\ \A j \in S : j <= y
    BY <2>1
  <2> HIDE DEF y
  <2>3. x \in Nat /\ y \in Nat /\ x <= y /\ y <= x
    BY <2>1, <2>2
  <2>4. x = y
    BY <2>3
  <2> QED
    BY <1>2, <2>4 DEF y
<1> QED
  BY <1>1, <1>2

LEMMA HooksInvMeans ==
  ASSUME UsedAsMeant, HooksInv
  PROVE  HooksExact
<1>1. /\ HooksTyped /\ Remembers /\ HooksDeleted
      /\ loaded => (Held /\ \A n \in DOMAIN stack : FrameInv(n) /\ Passed(n))
      /\ \A p \in Places : mem[p] <= Len(hooks)
      /\ stack # <<>> => loaded
  BY DEF HooksInv
<1>2. Len(hooks) \in Nat /\ DOMAIN hooks = 1 .. Len(hooks) /\ Len(stack) \in Nat /\ DOMAIN stack = 1 .. Len(stack)
  BY <1>1, Records, OutIs
<1>3. ASSUME NEW n \in DOMAIN stack
      PROVE  /\ n \in Nat /\ n >= 1 /\ stack[n].run \in 0 .. Len(hooks) /\ stack[n].restart \in 0 .. Len(hooks)
             /\ Passed(n)
  <2>1. loaded
    BY <1>1, <1>2
  <2>2. \A k \in DOMAIN stack : FrameInv(k) /\ Passed(k)
    BY <1>1, <2>1
  <2>3. n \in Nat /\ n >= 1 /\ stack[n].run \in 0 .. Len(hooks)
    BY <1>2, <2>2 DEF FrameInv
  <2>4. stack[n].restart = 0 => stack[n].restart \in 0 .. Len(hooks)
    BY <1>2
  <2>5. ASSUME stack[n].restart # 0 PROVE stack[n].restart \in 0 .. Len(hooks)
    <3>1. n > 1 /\ stack[n].restart = stack[n - 1].run
      BY <2>2, <2>5 DEF FrameInv
    <3>2. n - 1 \in DOMAIN stack
      BY <1>2, <2>3, <3>1
    <3>3. stack[n - 1].run \in 0 .. Len(hooks)
      BY <2>2, <3>2 DEF FrameInv
    <3> QED
      BY <3>1, <3>3
  <2> QED
    BY <2>2, <2>3, <2>4, <2>5
<1>4. HooksTypeOK
  <2>1. mem \in [Places -> 0 .. Len(hooks)]
    BY <1>1, <1>2 DEF HooksTyped
  <2>2. \A i \in DOMAIN hooks : hooks[i].org \in 0 .. i - 1
    BY <1>1, Records, RememberedIs
  <2>3. \A n \in DOMAIN stack : stack[n].run \in Lost .. Len(hooks) /\ stack[n].restart \in 0 .. Len(hooks)
    BY <1>2, <1>3 DEF Lost
  <2> QED
    BY <2>1, <2>2, <2>3 DEF HooksTypeOK
<1>5. AtRest
  <2>1. SUFFICES ASSUME loaded, stack = <<>>, NEW p \in Places
                 PROVE  mem[p] = IF Active(p) = {} THEN Original
                                 ELSE CHOOSE i \in Active(p) : \A j \in Active(p) : j <= i
    BY DEF AtRest, Active
  <2>2. IsNewest(mem[p], Active(p))
    BY <2>1, NoneOut
  <2>3. Active(p) \subseteq Nat /\ mem[p] \in Nat
    BY <1>1, Records DEF HooksTyped
  <2> QED
    BY <2>2, <2>3, NewestIs
<1>6. ChainExact
  <2>1. SUFFICES ASSUME NEW n \in DOMAIN stack, stack[n].run = 0, stack[1].run > 0,
                        \A k \in 2 .. n : stack[k].by = "hook",
                        NEW p, p = hooks[stack[1].run].place
                 PROVE  /\ {stack[k].run : k \in 1 .. n - 1} = On(p)
                        /\ \A k \in 2 .. n : stack[k].run < stack[k - 1].run
    BY DEF ChainExact, Original
  <2>2. 1 \in DOMAIN stack /\ n \in Nat /\ n >= 1 /\ Passed(n)
    BY <1>2, <1>3
  <2>3. stack[1].run \in DOMAIN hooks
    BY <1>2, <1>3, <2>1, <2>2
  <2>4. p \in Places /\ stack[1].run \in On(p) /\ On(p) \subseteq Nat \ {0}
    BY <1>1, <2>1, <2>3, Records
  <2>5. /\ \A k \in 1 .. n - 1 : stack[k].run \in On(p)
        /\ \A k \in 2 .. n : stack[k].run < stack[k - 1].run
        /\ \A j \in On(p) : j >= stack[n].run => \E k \in 1 .. n : stack[k].run = j
    BY <2>1, <2>2, <2>4 DEF Passed
  <2>6. ASSUME NEW j \in On(p) PROVE \E k \in 1 .. n - 1 : stack[k].run = j
    <3>1. j >= 0 /\ j # 0
      BY <2>4
    <3>2. PICK k \in 1 .. n : stack[k].run = j
      BY <2>1, <2>5, <3>1
    <3>3. k # n
      BY <2>1, <3>1, <3>2
    <3> QED
      BY <2>2, <3>2, <3>3
  <2> QED
    BY <2>5, <2>6
<1>7. NeverLost
  BY <1>3 DEF NeverLost, Lost
<1> QED
  BY <1>1, <1>4, <1>5, <1>6, <1>7 DEF HooksExact

\* hooks.lua: for any places, any number of hooks and any depth of calls: between calls a place
\* holds the newest of its hooks that are on, a call of the game that reaches the original
\* passes each hook of the place once, the newest first, nothing runs at an address that was
\* never meant, and a place with one hook holds the game's content when the script ends.
THEOREM HooksStayExact ==
  ASSUME HooksAssumption, ~ TrampolineOnTop, ~ (Shared /\ MayStop)
  PROVE  HooksSpec => []HooksExact
<1>1. UsedAsMeant
  BY DEF UsedAsMeant
<1>2. HooksInit => HooksInv
  BY HooksInvInit
<1>3. HooksInv /\ [HooksNext]_hooksVars => HooksInv'
  BY <1>1, HooksInvNext
<1>4. HooksInv => HooksExact
  BY <1>1, HooksInvMeans
<1> QED
  BY <1>2, <1>3, <1>4, PTL DEF HooksSpec

(***************************************************************************)
(* AutoReboot.  For every set of files and every length of its history:    *)
(* whatever the editor writes while a script is looked at, loaded and      *)
(* stored, a file whose time is stored was loaded as it is.                *)
(***************************************************************************)

\* Every time is one the clock has shown; the time 0 is that of the first loading.
Times ==
    /\ clock \in Nat
    /\ disk \in [Paths -> Int] /\ content \in [Paths -> Int]
    /\ \A p \in Paths : disk[p] \in None .. clock /\ content[p] \in None .. clock
    /\ running \subseteq Paths /\ DOMAIN files \subseteq Paths /\ todo \subseteq DOMAIN files
    /\ \A p \in DOMAIN files : files[p] \in 0 .. clock

\* The file that is being loaded is a stored one and was there when it was looked at.
SeenSound ==
    IF phase \in {"loading", "storing"}
    THEN seen.path \in DOMAIN files /\ seen.time \in 0 .. clock
    ELSE seen = Nothing

\* Before init() nothing has been written, and no pass is under way.
StartLoaded == phase = "start" => disk = content /\ todo = {}

\* What is about to be stored was loaded, unless the file has changed again.
SeenLoaded ==
    phase = "storing" /\ disk[seen.path] = seen.time => content[seen.path] = disk[seen.path]

RebootInv == Times /\ SeenSound /\ StartLoaded /\ SeenLoaded /\ StoredIsLoaded

LEMMA RebootStart == RebootInit => RebootInv
<1>1. SUFFICES ASSUME RebootInit PROVE RebootInv
  OBVIOUS
<1>2. DOMAIN files = {}
  BY <1>1 DEF RebootInit
<1>3. Times
  BY <1>1, <1>2 DEF RebootInit, Times, None
<1>4. SeenSound /\ StartLoaded /\ SeenLoaded
  BY <1>1 DEF RebootInit, SeenSound, StartLoaded, SeenLoaded
<1>5. StoredIsLoaded
  BY <1>2 DEF StoredIsLoaded
<1>. QED BY <1>3, <1>4, <1>5 DEF RebootInv

LEMMA WriteKeeps == ASSUME RebootInv, NEW p \in Paths, Write(p) PROVE RebootInv'
<1>. USE DEF RebootInv, Write
<1>1. /\ clock' = clock + 1 /\ clock \in Nat /\ disk'[p] = clock + 1
      /\ \A q \in Paths \ {p} : disk'[q] = disk[q]
  BY DEF Times
<1>2. Times'
  BY <1>1 DEF Times, None
<1>3. SeenSound'
  BY <1>1 DEF SeenSound, Times
<1>4. StartLoaded'
  BY DEF StartLoaded
<1>5. SeenLoaded'
  BY <1>1 DEF SeenLoaded, SeenSound, Times
<1>6. StoredIsLoaded'
  BY <1>1 DEF StoredIsLoaded, Times
<1>. QED BY <1>2, <1>3, <1>4, <1>5, <1>6

LEMMA DeleteKeeps == ASSUME RebootInv, NEW p \in Paths, Delete(p) PROVE RebootInv'
<1>. USE DEF RebootInv, Delete
<1>1. disk'[p] = None /\ \A q \in Paths \ {p} : disk'[q] = disk[q]
  BY DEF Times
<1>2. Times'
  BY <1>1 DEF Times, None
<1>3. SeenSound' /\ StartLoaded'
  BY DEF SeenSound, StartLoaded
<1>4. SeenLoaded'
  BY <1>1 DEF SeenLoaded, SeenSound, Times, None
<1>5. StoredIsLoaded'
  BY <1>1 DEF StoredIsLoaded, Times, None
<1>. QED BY <1>2, <1>3, <1>4, <1>5

LEMMA LoadElsewhereKeeps ==
    ASSUME RebootInv, NEW p \in Paths, LoadElsewhere(p) PROVE RebootInv'
<1>. USE DEF RebootInv, LoadElsewhere
<1>1. content'[p] = disk[p] /\ \A q \in Paths \ {p} : content'[q] = content[q]
  BY DEF Times
<1>2. Times'
  BY <1>1 DEF Times
<1>3. SeenSound' /\ StartLoaded'
  BY DEF SeenSound, StartLoaded
<1>4. SeenLoaded'
  BY <1>1 DEF SeenLoaded, SeenSound, Times
<1>5. StoredIsLoaded'
  BY <1>1 DEF StoredIsLoaded, Times
<1>. QED BY <1>2, <1>3, <1>4, <1>5

LEMMA InitKeeps == ASSUME RebootInv, init PROVE RebootInv'
<1>. USE DEF RebootInv, init
<1>1. /\ DOMAIN files' \subseteq running
      /\ \A p \in DOMAIN files' : files'[p] = disk[p] /\ disk[p] # None
  OBVIOUS
<1>2. disk = content /\ todo = {}
  BY DEF StartLoaded
<1>3. Times'
  BY <1>1, <1>2 DEF Times, None
<1>4. SeenSound' /\ StartLoaded' /\ SeenLoaded'
  BY DEF SeenSound, StartLoaded, SeenLoaded
<1>5. StoredIsLoaded'
  BY <1>1, <1>2 DEF StoredIsLoaded
<1>. QED BY <1>3, <1>4, <1>5

LEMMA LookKeeps == ASSUME RebootInv, NEW p \in Paths, Look(p) PROVE RebootInv'
<1>. USE DEF RebootInv, Look
<1>1. Times' /\ StartLoaded' /\ SeenLoaded' /\ StoredIsLoaded'
  BY DEF Times, StartLoaded, SeenLoaded, StoredIsLoaded
<1>2. SeenSound'
  <2>1. p \in DOMAIN files /\ disk[p] \in None .. clock /\ clock \in Nat
    BY DEF Times
  <2>2. CASE disk[p] = None \/ disk[p] = files[p]
    BY <2>2 DEF SeenSound
  <2>3. CASE ~(disk[p] = None \/ disk[p] = files[p])
    BY <2>1, <2>3 DEF SeenSound, None
  <2>. QED BY <2>2, <2>3
<1>. QED BY <1>1, <1>2

LEMMA LoadKeeps == ASSUME RebootInv, Load PROVE RebootInv'
<1>. DEFINE p == seen.path
<1>. USE DEF RebootInv, Load
<1>1. p \in DOMAIN files /\ p \in Paths /\ seen.time \in 0 .. clock /\ clock \in Nat
  BY DEF SeenSound, Times
<1>2. SeenSound' /\ StartLoaded'
  BY DEF SeenSound, StartLoaded
<1>3. CASE disk[p] = None
  <2>1. content' = content /\ disk[p] # seen.time
    BY <1>1, <1>3 DEF None
  <2>. QED BY <1>1, <1>2, <1>3, <2>1 DEF Times, SeenLoaded, StoredIsLoaded
<1>4. CASE disk[p] # None
  <2>1. content'[p] = disk[p] /\ \A q \in Paths \ {p} : content'[q] = content[q]
    BY <1>1, <1>4 DEF Times
  <2>2. Times'
    BY <1>1, <1>4, <2>1 DEF Times
  <2>3. SeenLoaded' /\ StoredIsLoaded'
    BY <1>1, <2>1 DEF SeenLoaded, StoredIsLoaded, Times
  <2>. QED BY <1>2, <2>2, <2>3
<1>. QED BY <1>3, <1>4

LEMMA StoreKeeps == ASSUME RebootInv, Store PROVE RebootInv'
<1>. USE DEF RebootInv, Store, TimeStored
<1>1. seen.path \in DOMAIN files /\ seen.time \in 0 .. clock
  BY DEF SeenSound
<1>2. /\ DOMAIN files' = DOMAIN files /\ files'[seen.path] = seen.time
      /\ \A q \in DOMAIN files \ {seen.path} : files'[q] = files[q]
  BY <1>1
<1>3. Times'
  BY <1>1, <1>2 DEF Times
<1>4. SeenSound' /\ StartLoaded' /\ SeenLoaded'
  BY DEF SeenSound, StartLoaded, SeenLoaded
<1>5. StoredIsLoaded'
  BY <1>2 DEF StoredIsLoaded, SeenLoaded
<1>. QED BY <1>3, <1>4, <1>5

LEMMA RebootInvNext == RebootInv /\ [RebootNext]_rebootVars => RebootInv'
<1>1. SUFFICES ASSUME RebootInv, [RebootNext]_rebootVars PROVE RebootInv'
  OBVIOUS
<1>2. CASE init
  BY <1>1, <1>2, InitKeeps
<1>3. ASSUME NEW p \in Paths, Look(p) PROVE RebootInv'
  BY <1>1, <1>3, LookKeeps
<1>4. CASE Load
  BY <1>1, <1>4, LoadKeeps
<1>5. CASE Store
  BY <1>1, <1>5, StoreKeeps
<1>6. ASSUME NEW p \in Paths, Write(p) PROVE RebootInv'
  BY <1>1, <1>6, WriteKeeps
<1>7. ASSUME NEW p \in Paths, Delete(p) PROVE RebootInv'
  BY <1>1, <1>7, DeleteKeeps
<1>8. ASSUME NEW p \in Paths, LoadElsewhere(p) PROVE RebootInv'
  BY <1>1, <1>8, LoadElsewhereKeeps
<1>9. ASSUME NEW p \in Paths, End(p) PROVE RebootInv'
  BY <1>1, <1>9 DEF End, RebootInv, Times, SeenSound, StartLoaded, SeenLoaded, StoredIsLoaded
<1>10. CASE BeginPass
  BY <1>1, <1>10
  DEF BeginPass, RebootInv, Times, SeenSound, StartLoaded, SeenLoaded, StoredIsLoaded
<1>11. CASE EndPass
  BY <1>1, <1>11
  DEF EndPass, RebootInv, Times, SeenSound, StartLoaded, SeenLoaded, StoredIsLoaded
<1>12. CASE UNCHANGED rebootVars
  BY <1>1, <1>12
  DEF rebootVars, RebootInv, Times, SeenSound, StartLoaded, SeenLoaded, StoredIsLoaded
<1>. QED
  BY <1>1, <1>2, <1>3, <1>4, <1>5, <1>6, <1>7, <1>8, <1>9, <1>10, <1>11, <1>12 DEF RebootNext, RebootStep

\* AutoReboot.lua stores the time it read before it reloaded: whatever is written or deleted
\* in between, and however scripts end and are loaded elsewhere, a file whose time is the
\* stored one runs as it is.
THEOREM RebootStoredIsLoaded == RebootSpec => []StoredIsLoaded
<1>1. RebootInv => StoredIsLoaded
  BY DEF RebootInv
<1>. QED BY <1>1, RebootStart, RebootInvNext, PTL DEF RebootSpec

(***************************************************************************)
(* bstream.lua: for any sizes of types, bytes of any number of values and  *)
(* strings of any length, what is read is what was written.                *)
(***************************************************************************)
LEMMA NatInd ==
  ASSUME NEW S, 0 \in S, \A i \in Nat : i \in S => i + 1 \in S
  PROVE  Nat \subseteq S
<1>1. SUFFICES ASSUME {i \in Nat : i \notin S} # {} PROVE FALSE
  OBVIOUS
<1>2. PICK x \in {i \in Nat : i \notin S} :
        \A y \in {i \in Nat : i \notin S} : ~ (<<y, x>> \in OpToRel(<, Nat))
  BY <1>1, WFMin, NatLessThanWellFounded, Zenon
<1>3. \A y \in {i \in Nat : i \notin S} : ~ (y < x)
  BY <1>2, Zenon DEF OpToRel
<1> QED
  BY <1>3

LEMMA ByteConstants ==
  /\ Base \in Nat /\ Base > 1 /\ MaxItems \in Nat /\ MaxLength \in Nat
  /\ Sizes \in [Types -> Nat \ {0}] /\ "string" \notin Types
  /\ "bool" \in Types => Sizes["bool"] = 1
  /\ Signed \subseteq Types \ {"bool"}
BY ByteStreamAssumed DEF ByteStreamAssumption

\* The weights of n bytes and of the next one.
Weights(t, n) ==
  /\ t \in [0 .. n -> Nat \ {0}] /\ t[0] = 1
  /\ \A k \in 1 .. n : t[k] = Base * t[k - 1]

LEMMA WeightIs ==
  ASSUME NEW n \in Nat, NEW t, Weights(t, n)
  PROVE  Weight(n) = t[n]
<1> DEFINE Made(f) == f = [k \in 0 .. n |-> IF k = 0 THEN 1 ELSE Base * f[k - 1]]
           f == CHOOSE x : Made(x)
<1>1. Made(t)
  <2>1. \A k \in 0 .. n : k # 0 => k \in 1 .. n
    OBVIOUS
  <2> QED
    BY <2>1 DEF Weights
<1>2. Made(f)
  <2> HIDE DEF Made
  <2> QED
    BY <1>1, Zenon
<1>3. Weight(n) = f[n]
  BY Zenon DEF Weight
<1> HIDE DEF f
<1>4. f[0] = 1 /\ \A k \in 1 .. n : f[k] = Base * f[k - 1]
  <2>1. 0 \in 0 .. n /\ \A k \in 1 .. n : k \in 0 .. n /\ k # 0
    OBVIOUS
  <2> QED
    BY <1>2, <2>1, Zenon
<1> DEFINE S == {k \in Nat : k <= n => f[k] = t[k]}
<1>5. 0 \in S
  BY <1>4 DEF Weights
<1>6. ASSUME NEW k \in Nat, k \in S PROVE k + 1 \in S
  <2> SUFFICES ASSUME k + 1 <= n PROVE f[k + 1] = t[k + 1]
    OBVIOUS
  <2>1. k + 1 \in 1 .. n /\ (k + 1) - 1 = k /\ k <= n
    OBVIOUS
  <2>2. f[k + 1] = Base * f[k] /\ t[k + 1] = Base * t[k]
    BY <1>4, <2>1 DEF Weights
  <2> QED
    BY <1>6, <2>1, <2>2
<1>7. n \in S
  <2> HIDE DEF S
  <2> QED
    BY <1>5, <1>6, NatInd
<1> QED
  BY <1>3, <1>7

LEMMA WeightsExist == ASSUME NEW n \in Nat PROVE \E t : Weights(t, n)
<1> DEFINE S == {k \in Nat : \E t : Weights(t, k)}
<1>1. 0 \in S
  <2>1. Weights([k \in 0 .. 0 |-> 1], 0)
    BY DEF Weights
  <2> QED
    BY <2>1
<1>2. ASSUME NEW k \in Nat, k \in S PROVE k + 1 \in S
  <2>1. PICK t : Weights(t, k)
    BY <1>2
  <2> DEFINE u == [i \in 0 .. k + 1 |-> IF i = k + 1 THEN Base * t[k] ELSE t[i]]
  <2>2. t[k] \in Nat \ {0} /\ Base * t[k] \in Nat \ {0}
    BY <2>1, ByteConstants DEF Weights
  <2>3. u \in [0 .. k + 1 -> Nat \ {0}] /\ u[0] = 1
    BY <2>1, <2>2 DEF Weights
  <2>4. ASSUME NEW i \in 1 .. k + 1 PROVE u[i] = Base * u[i - 1]
    <3>1. i - 1 \in 0 .. k /\ u[i - 1] = t[i - 1]
      OBVIOUS
    <3>2. CASE i = k + 1
      BY <3>1, <3>2
    <3>3. CASE i \in 1 .. k
      BY <2>1, <3>1, <3>3 DEF Weights
    <3> QED
      BY <3>2, <3>3
  <2>5. Weights(u, k + 1)
    BY <2>3, <2>4 DEF Weights
  <2> QED
    BY <2>5
<1> HIDE DEF S
<1>3. n \in S
  BY <1>1, <1>2, NatInd
<1> QED
  BY <1>3 DEF S

LEMMA WeightNext ==
  ASSUME NEW n \in Nat
  PROVE  /\ Weight(n) \in Nat \ {0}
         /\ Weight(n + 1) = Base * Weight(n)
         /\ Weight(0) = 1
<1>1. PICK t : Weights(t, n + 1)
  BY WeightsExist
<1> DEFINE u == [i \in 0 .. n |-> t[i]]
           v == [i \in 0 .. 0 |-> t[i]]
<1>2. Weights(u, n)
  <2>1. \A i \in 1 .. n : i \in 1 .. n + 1 /\ i - 1 \in 0 .. n /\ i \in 0 .. n
    OBVIOUS
  <2> QED
    BY <1>1, <2>1 DEF Weights
<1>3. Weights(v, 0)
  BY <1>1 DEF Weights
<1>4. Weight(n + 1) = t[n + 1]
  BY <1>1, WeightIs
<1>5. Weight(n) = u[n] /\ u[n] = t[n]
  <2>1. Weight(n) = u[n]
    <3> HIDE DEF u
    <3> QED
      BY <1>2, WeightIs
  <2> QED
    BY <2>1
<1>6. Weight(0) = v[0]
  <2> HIDE DEF v
  <2> QED
    BY <1>3, WeightIs
<1>7. t[n + 1] = Base * t[n] /\ t[n] \in Nat \ {0} /\ t[0] = 1
  <2>1. n + 1 \in 1 .. n + 1 /\ (n + 1) - 1 = n
    OBVIOUS
  <2> QED
    BY <1>1, <2>1 DEF Weights
<1> QED
  BY <1>4, <1>5, <1>6, <1>7

(***************************************************************************)
(* Remainders.                                                             *)
(***************************************************************************)
LEMMA DivideIs ==
  ASSUME NEW w \in Nat \ {0}, NEW x \in Int
  PROVE  x \div w \in Int /\ x % w \in 0 .. w - 1 /\ x = w * (x \div w) + (x % w)
<1>1. x % w \in 0 .. w - 1 /\ x \div w \in Int
  OBVIOUS
<1> QED
  BY <1>1

LEMMA Further ==
  ASSUME NEW w \in Nat \ {0}, NEW p \in Int, NEW q \in Int, p < q
  PROVE  w * p + w <= w * q
<1>1. w * (p + 1) <= w * q
  <2>1. q - (p + 1) \in Nat /\ w * (q - (p + 1)) \in Nat
    OBVIOUS
  <2>2. w * (q - (p + 1)) = w * q - w * (p + 1)
    OBVIOUS
  <2> QED
    BY <2>1, <2>2
<1> QED
  BY <1>1

LEMMA RemainderIs ==
  ASSUME NEW w \in Nat \ {0}, NEW x \in Int, NEW q \in Int, NEW a \in 0 .. w - 1,
         x = w * q + a
  PROVE  x % w = a
<1> DEFINE p == x \div w
           r == x % w
<1>1. p \in Int /\ r \in 0 .. w - 1 /\ x = w * p + r
  BY DivideIs
<1> HIDE DEF p, r
<1>2. CASE p < q
  BY <1>1, <1>2, Further
<1>3. CASE q < p
  <2>1. w * q + w <= w * p
    BY <1>1, <1>3, Further
  <2> DEFINE y == w * q
             z == w * p
  <2>2. y \in Int /\ z \in Int /\ y + w <= z /\ x = y + a /\ x = z + r
    BY <1>1, <2>1
  <2>3. a \in Int /\ a < w /\ r \in Int /\ 0 <= r /\ w \in Int /\ x \in Int
    BY <1>1
  <2> HIDE DEF y, z
  <2> QED
    BY ONLY <2>2, <2>3
<1>4. CASE p = q
  <2>1. r = a
    BY <1>1, <1>4
  <2> QED
    BY <2>1 DEF r
<1> QED
  BY <1>1, <1>2, <1>3, <1>4

\* One byte more: what the bytes up to it count, and the byte.
LEMMA RemainderNext ==
  ASSUME NEW w \in Nat \ {0}, NEW b \in Nat \ {0}, NEW v \in Int
  PROVE  v % (b * w) = (v % w) + ((v \div w) % b) * w
<1> DEFINE q == v \div w
           r == v % w
           p == q \div b
           d == q % b
<1>1. q \in Int /\ r \in 0 .. w - 1 /\ v = w * q + r
  BY DivideIs
<1> HIDE DEF q, r
<1>2. p \in Int /\ d \in 0 .. b - 1 /\ q = b * p + d
  BY <1>1, DivideIs
<1> HIDE DEF p, d
<1>3. v = (b * w) * p + (r + d * w)
  <2>1. w * q = w * (b * p) + w * d
    BY <1>1, <1>2
  <2>2. w * (b * p) = (b * w) * p /\ w * d = d * w
    BY <1>2
  <2> QED
    BY <1>1, <1>2, <2>1, <2>2
<1>4. b * w \in Nat \ {0}
  OBVIOUS
<1>5. r + d * w \in 0 .. b * w - 1
  <2>1. w * d + w <= w * b
    BY <1>2, Further
  <2>2. d * w = w * d /\ w * b = b * w /\ d * w \in Nat
    BY <1>2
  <2> QED
    BY <1>1, <2>1, <2>2, <1>4
<1>6. v % (b * w) = r + d * w
  <2> DEFINE m == b * w
             a == r + d * w
  <2>1. m \in Nat \ {0} /\ a \in 0 .. m - 1 /\ v = m * p + a
    BY <1>3, <1>4, <1>5
  <2> HIDE DEF m, a
  <2>2. v % m = a
    BY <1>2, <2>1, RemainderIs
  <2> QED
    BY <2>2 DEF m, a
<1> QED
  BY <1>6 DEF r, d, q

(***************************************************************************)
(* A number and its bytes.                                                 *)
(***************************************************************************)
\* The partial sums of a sequence of bytes.
Sums(t, s) ==
  /\ t \in [0 .. Len(s) -> Nat] /\ t[0] = 0
  /\ \A k \in 1 .. Len(s) : t[k] = t[k - 1] + s[k] * Weight(k - 1)

LEMMA UnsignedIs ==
  ASSUME NEW s \in Seq(Int), NEW t, Sums(t, s)
  PROVE  Unsigned(s) = t[Len(s)]
<1> DEFINE n == Len(s)
           Made(f) == f = [k \in 0 .. n |-> IF k = 0 THEN 0 ELSE f[k - 1] + s[k] * Weight(k - 1)]
           f == CHOOSE x : Made(x)
<1>0. n \in Nat
  OBVIOUS
<1>1. Made(t)
  <2>1. \A k \in 0 .. n : k # 0 => k \in 1 .. n
    BY <1>0
  <2> QED
    BY <2>1 DEF Sums
<1>2. Made(f)
  <2> HIDE DEF Made
  <2> QED
    BY <1>1, Zenon
<1>3. Unsigned(s) = f[n]
  BY Zenon DEF Unsigned
<1> HIDE DEF f
<1>4. f[0] = 0 /\ \A k \in 1 .. n : f[k] = f[k - 1] + s[k] * Weight(k - 1)
  <2>1. 0 \in 0 .. n /\ \A k \in 1 .. n : k \in 0 .. n /\ k # 0
    BY <1>0
  <2> QED
    BY <1>2, <2>1, Zenon
<1> DEFINE S == {k \in Nat : k <= n => f[k] = t[k]}
<1>5. 0 \in S
  BY <1>4 DEF Sums
<1>6. ASSUME NEW k \in Nat, k \in S PROVE k + 1 \in S
  <2> SUFFICES ASSUME k + 1 <= n PROVE f[k + 1] = t[k + 1]
    OBVIOUS
  <2>1. k + 1 \in 1 .. n /\ (k + 1) - 1 = k /\ k <= n
    BY <1>0
  <2>2. f[k + 1] = f[k] + s[k + 1] * Weight(k) /\ t[k + 1] = t[k] + s[k + 1] * Weight(k)
    BY <1>4, <2>1 DEF Sums
  <2> QED
    BY <1>6, <2>1, <2>2
<1>7. n \in S
  <2> HIDE DEF S
  <2> QED
    BY <1>0, <1>5, <1>6, NatInd
<1> QED
  BY <1>3, <1>7, <1>0

\* The bytes of v, n of them, count to v, but for what they cannot hold.
BytesOf(s, v, n) == s = [k \in 1 .. n |-> (v \div Weight(k - 1)) % Base]

LEMMA BytesCount ==
  ASSUME NEW v \in Int, NEW n \in Nat, NEW s, BytesOf(s, v, n)
  PROVE  s \in Seq(Bytes) /\ Len(s) = n /\ Unsigned(s) = v % Weight(n)
<1>1. ASSUME NEW k \in 1 .. n
      PROVE  /\ (v \div Weight(k - 1)) % Base \in Bytes
             /\ v % Weight(k) = (v % Weight(k - 1)) + ((v \div Weight(k - 1)) % Base) * Weight(k - 1)
             /\ v % Weight(k) \in Nat
  <2> DEFINE w == Weight(k - 1)
  <2>1. k - 1 \in Nat /\ (k - 1) + 1 = k
    OBVIOUS
  <2>2. w \in Nat \ {0} /\ Weight(k) = Base * w
    BY <2>1, WeightNext
  <2> HIDE DEF w
  <2>3. Base \in Nat \ {0} /\ Base * w \in Nat \ {0}
    BY <2>2, ByteConstants
  <2>4. v \div w \in Int
    BY <2>2, DivideIs
  <2>5. (v \div w) % Base \in 0 .. Base - 1
    <3> DEFINE q == v \div w
    <3> HIDE DEF q
    <3>1. q \in Int => q % Base \in 0 .. Base - 1
      BY <2>3, DivideIs
    <3> QED
      BY <2>4, <3>1 DEF q
  <2>6. v % (Base * w) = (v % w) + ((v \div w) % Base) * w
    BY <2>2, <2>3, RemainderNext
  <2>7. v % (Base * w) \in Nat
    <3> DEFINE m == Base * w
    <3> HIDE DEF m
    <3>1. m \in Nat \ {0} => v % m \in Nat
      BY DivideIs
    <3> QED
      BY <2>3, <3>1 DEF m
  <2> QED
    BY <2>2, <2>5, <2>6, <2>7 DEF w, Bytes
<1>2. s \in Seq(Bytes) /\ Len(s) = n /\ \A k \in 1 .. n : s[k] = (v \div Weight(k - 1)) % Base
  <2> DEFINE e(k) == (v \div Weight(k - 1)) % Base
  <2>1. s = [k \in 1 .. n |-> e(k)]
    BY DEF BytesOf
  <2>2. \A k \in 1 .. n : e(k) \in Bytes
    BY <1>1
  <2> HIDE DEF e
  <2>3. s \in Seq(Bytes) /\ Len(s) = n /\ \A k \in 1 .. n : s[k] = e(k)
    BY <2>1, <2>2
  <2> QED
    BY <2>3 DEF e
<1> DEFINE t == [k \in 0 .. n |-> v % Weight(k)]
<1>3. t[0] = 0
  <2>1. Weight(0) = 1
    BY WeightNext
  <2>2. v % 1 = 0
    OBVIOUS
  <2> QED
    BY <2>1, <2>2
<1>4. t \in [0 .. n -> Nat]
  <2>1. ASSUME NEW k \in 0 .. n PROVE v % Weight(k) \in Nat
    <3>1. CASE k = 0
      BY <1>3, <3>1
    <3>2. CASE k \in 1 .. n
      BY <1>1, <3>2
    <3> QED
      BY <3>1, <3>2
  <2> QED
    BY <2>1
<1>5. ASSUME NEW k \in 1 .. n PROVE t[k] = t[k - 1] + s[k] * Weight(k - 1)
  <2>1. k \in 0 .. n /\ k - 1 \in 0 .. n
    OBVIOUS
  <2> QED
    BY <1>1, <1>2, <2>1
<1>6. t[n] = v % Weight(n)
  OBVIOUS
<1> HIDE DEF t
<1>7. Sums(t, s)
  BY <1>2, <1>3, <1>4, <1>5 DEF Sums
<1>8. s \in Seq(Int)
  <2>1. \A b \in Bytes : b \in Int
    BY DEF Bytes
  <2> QED
    BY <1>2, <2>1
<1> QED
  BY <1>2, <1>6, <1>7, <1>8, UnsignedIs


LEMMA FilledIs ==
  ASSUME NEW type \in Types, NEW s \in Seq(Bytes), Len(s) = Sizes[type]
  PROVE  Filled(type, s) = s
<1>1. Sizes[type] \in Nat \ {0}
  BY ByteConstants
<1>2. s = [k \in 1 .. Sizes[type] |-> s[k]]
  OBVIOUS
<1>3. CASE Len(s) = 1
  <2>1. [k \in 1 .. Sizes[type] |-> s[1]] = [k \in 1 .. Sizes[type] |-> s[k]]
    BY <1>3
  <2> QED
    BY <1>2, <1>3, <2>1, Zenon DEF Filled
<1>4. CASE Len(s) # 1
  <2>1. [k \in 1 .. Sizes[type] |-> IF k <= Len(s) THEN s[k] ELSE 0] = [k \in 1 .. Sizes[type] |-> s[k]]
    BY <1>1
  <2> QED
    BY <1>2, <1>4, <2>1, Zenon DEF Filled
<1> QED
  BY <1>3, <1>4

\* The values of a type are those its bytes tell apart.
LEMMA SmallRemainder ==
  ASSUME NEW w \in Nat \ {0}, NEW d \in Int
  PROVE  /\ d \in 0 .. w - 1 => d % w = d
         /\ d \in - w .. -1 => d % w = w + d
<1>1. ASSUME d \in 0 .. w - 1 PROVE d % w = d
  <2>1. d = w * 0 + d
    OBVIOUS
  <2> QED
    BY <1>1, <2>1, RemainderIs
<1>2. ASSUME d \in - w .. -1 PROVE d % w = w + d
  <2>1. d = w * (-1) + (w + d) /\ w + d \in 0 .. w - 1
    BY <1>2
  <2> QED
    BY <2>1, RemainderIs
<1> QED
  BY <1>1, <1>2

LEMMA BoolBytes ==
  ASSUME NEW v \in {0, 1}
  PROVE  BytesOf(<<v>>, v, 1) /\ v % 2 = v /\ v % Weight(1) = v
<1>1. Weight(0) = 1 /\ Weight(0 + 1) = Base * Weight(0)
  BY WeightNext
<1>2. Weight(1) = Base /\ Base \in Nat /\ Base > 1
  BY <1>1, ByteConstants
<1>3. (v \div 1) % Base = v /\ v % Base = v
  <2>1. v \in 0 .. Base - 1 /\ v \div 1 = v /\ v \in Int /\ Base \in Nat \ {0}
    BY <1>2
  <2> QED
    BY <2>1, SmallRemainder
<1>4. <<v>> = [k \in 1 .. 1 |-> v]
  OBVIOUS
<1>5. \A k \in 1 .. 1 : (v \div Weight(k - 1)) % Base = v
  BY <1>1, <1>3
<1>6. [k \in 1 .. 1 |-> (v \div Weight(k - 1)) % Base] = [k \in 1 .. 1 |-> v]
  BY <1>5
<1> QED
  BY <1>2, <1>3, <1>4, <1>6 DEF BytesOf

LEMMA RoundTrip ==
  ASSUME NEW type \in Types, NEW v \in Representable(type)
  PROVE  /\ encode(type, v) \in Seq(Bytes)
         /\ Len(encode(type, v)) = Sizes[type]
         /\ decode(type, encode(type, v)) = v
<1> DEFINE n == Sizes[type]
           w == Weight(n)
           s == encode(type, v)
           u == Unsigned(s)
<1>1. n \in Nat \ {0} /\ w \in Nat \ {0}
  BY ByteConstants, WeightNext
<1>2. CASE type = "bool"
  <2>1. n = 1 /\ v \in {0, 1}
    BY <1>2, ByteConstants DEF Representable
  <2>2. BytesOf(<<v>>, v, 1) /\ v % 2 = v /\ v % Weight(1) = v
    BY <2>1, BoolBytes
  <2>3. s = <<v>>
    BY <1>2, <2>2 DEF encode
  <2>4. s \in Seq(Bytes) /\ Len(s) = 1 /\ u = v % Weight(1)
    BY <2>1, <2>2, <2>3, BytesCount
  <2>5. Filled(type, s) = s
    BY <2>1, <2>4, FilledIs
  <2> HIDE DEF s, u
  <2>6. decode(type, s) = IF u = 0 THEN 0 ELSE 1
    BY <1>2, <2>5, ByteConstants DEF decode, u
  <2> QED
    BY <2>1, <2>2, <2>4, <2>6 DEF s
<1>3. CASE type # "bool"
  <2>1. BytesOf(s, v, n)
    BY <1>3, Zenon DEF encode, BytesOf
  <2>2. v \in Int
    <3>1. CASE type \in Signed
      BY <1>1, <1>3, <3>1 DEF Representable
    <3>2. CASE type \notin Signed
      BY <1>1, <1>3, <3>2 DEF Representable
    <3> QED
      BY <3>1, <3>2
  <2> HIDE DEF s
  <2>3. s \in Seq(Bytes) /\ Len(s) = n /\ u = v % w
    BY <1>1, <2>1, <2>2, BytesCount
  <2>4. Filled(type, s) = s
    BY <2>3, FilledIs
  <2> HIDE DEF u, w
  <2>5. CASE type \in Signed
    <3>1. decode(type, s) = IF 2 * u < w THEN u ELSE u - w
      BY <1>3, <2>4, <2>5, Zenon DEF decode, u, w
    <3>2. v \in -(w \div 2) .. (w + 1) \div 2 - 1
      BY <1>3, <2>5, Zenon DEF Representable, w
    <3>3. CASE v >= 0
      <4>1. v \in 0 .. w - 1 /\ 2 * v < w
        BY <1>1, <2>2, <3>2, <3>3
      <4>2. u = v
        BY <1>1, <2>2, <2>3, <4>1, SmallRemainder
      <4> QED
        BY <2>3, <3>1, <4>1, <4>2 DEF s
    <3>4. CASE v < 0
      <4>1. v \in - w .. -1 /\ 2 * (w + v) >= w
        BY <1>1, <2>2, <3>2, <3>4
      <4>2. u = w + v
        BY <1>1, <2>2, <2>3, <4>1, SmallRemainder
      <4>3. decode(type, s) = v
        BY <1>1, <2>2, <3>1, <4>1, <4>2
      <4> QED
        BY <2>3, <4>3 DEF s
    <3> QED
      BY <2>2, <3>3, <3>4
  <2>6. CASE type \notin Signed
    <3>1. decode(type, s) = u
      BY <1>3, <2>4, <2>6, Zenon DEF decode, u
    <3>2. v \in 0 .. w - 1
      BY <1>3, <2>6, Zenon DEF Representable, w
    <3>3. u = v
      BY <1>1, <2>2, <2>3, <3>2, SmallRemainder
    <3> QED
      BY <2>3, <3>1, <3>3 DEF s
  <2> QED
    BY <2>5, <2>6
<1> QED
  BY <1>2, <1>3

\* Nothing reads as zero.
LEMMA NothingIsZero ==
  ASSUME NEW type \in Types
  PROVE  decode(type, <<>>) = 0
<1> DEFINE n == Sizes[type]
           w == Weight(n)
           s == [k \in 1 .. n |-> 0]
           t == [k \in 0 .. n |-> 0]
           u == Unsigned(s)
<1>1. n \in Nat \ {0} /\ w \in Nat \ {0}
  BY ByteConstants, WeightNext
<1>2. Filled(type, <<>>) = s
  <2>1. \A k \in 1 .. n : ~ (k <= 0)
    BY <1>1
  <2> QED
    BY <2>1 DEF Filled
<1>3. s \in Seq(Int) /\ Len(s) = n
  BY <1>1
<1>4. Sums(t, s)
  <2>1. ASSUME NEW k \in 1 .. n PROVE t[k] = t[k - 1] + s[k] * Weight(k - 1)
    <3>1. k - 1 \in Nat /\ k - 1 \in 0 .. n /\ k \in 0 .. n
      BY <1>1
    <3>2. Weight(k - 1) \in Nat
      BY <3>1, WeightNext
    <3>3. s[k] = 0 /\ t[k] = 0 /\ t[k - 1] = 0
      BY <3>1
    <3> QED
      BY <3>2, <3>3
  <2>2. t[0] = 0 /\ t \in [0 .. n -> Nat]
    BY <1>1
  <2> HIDE DEF s, t
  <2> QED
    BY <1>3, <2>1, <2>2 DEF Sums
<1>5. t[n] = 0
  BY <1>1
<1> HIDE DEF s, t
<1>6. u = 0
  BY <1>3, <1>4, <1>5, UnsignedIs
<1> HIDE DEF u, w
<1>7. decode(type, <<>>) = CASE type = "bool" -> IF u = 0 THEN 0 ELSE 1
                             [] type \in Signed -> IF 2 * u < w THEN u ELSE u - w
                             [] OTHER -> u
  BY <1>2, Zenon DEF decode, u, w
<1> QED
  BY <1>1, <1>6, <1>7


(***************************************************************************)
(* What is written, and where it lies.                                     *)
(***************************************************************************)
ItemSet ==
  {[type |-> "string", val |-> s] : s \in Seq(Bytes)}
    \cup UNION {{[type |-> type, val |-> <<v>>] : v \in Representable(type)} : type \in Types}

Code(i) == IF i.type = "string" THEN i.val ELSE encode(i.type, i.val[1])

LEMMA CodeIs ==
  ASSUME NEW i \in ItemSet
  PROVE  /\ Code(i) \in Seq(Bytes) /\ i = [type |-> i.type, val |-> i.val]
         /\ i.type = "string" => Code(i) = i.val
         /\ i.type # "string" => /\ i.type \in Types /\ Len(Code(i)) = Sizes[i.type]
                                 /\ i.val = <<decode(i.type, Code(i))>>
<1>1. CASE \E s \in Seq(Bytes) : i = [type |-> "string", val |-> s]
  <2>1. PICK s \in Seq(Bytes) : i = [type |-> "string", val |-> s]
    BY <1>1
  <2>2. i.type = "string" /\ i.val = s
    BY <2>1
  <2>3. Code(i) = s
    BY <2>2, Zenon DEF Code
  <2>4. i = [type |-> i.type, val |-> i.val]
    BY <2>1, <2>2
  <2>5. s \in Seq(Bytes)
    OBVIOUS
  <2>6. Code(i) \in Seq(Bytes) /\ Code(i) = i.val
    BY <2>2, <2>3, <2>5
  <2> QED
    BY <2>2, <2>4, <2>6, Zenon
<1>2. CASE \E type \in Types : \E v \in Representable(type) : i = [type |-> type, val |-> <<v>>]
  <2>0. PICK type \in Types : \E v \in Representable(type) : i = [type |-> type, val |-> <<v>>]
    BY <1>2
  <2>1. PICK v \in Representable(type) : i = [type |-> type, val |-> <<v>>]
    BY <2>0
  <2>2. type # "string" /\ i.type = type /\ i.val = <<v>> /\ i.val[1] = v
    BY <2>1, ByteConstants
  <2>3. Code(i) = encode(type, v)
    BY <2>2, Zenon DEF Code
  <2>4. /\ encode(type, v) \in Seq(Bytes) /\ Len(encode(type, v)) = Sizes[type]
        /\ decode(type, encode(type, v)) = v
    BY RoundTrip
  <2> QED
    BY <2>1, <2>2, <2>3, <2>4
<1> QED
  BY <1>1, <1>2 DEF ItemSet

\* The bytes c lie from place a up to place b.
LiesAt(a, b, bs, c) ==
  /\ a >= 1 /\ b = a + Len(c) /\ b <= Len(bs) + 1
  /\ SubSeq(bs, a, b - 1) = c

\* Item k of those written lies from place at[k] on.
Laid(at, is, bs) ==
  /\ at \in [1 .. Len(is) + 1 -> Nat] /\ at[1] = 1 /\ at[Len(is) + 1] = Len(bs) + 1
  /\ \A k \in 1 .. Len(is) : LiesAt(at[k], at[k + 1], bs, Code(is[k]))

LEMMA PartIs ==
  ASSUME NEW bs \in Seq(Bytes), NEW a \in Nat, NEW n \in Nat, a >= 1, a + n <= Len(bs) + 1
  PROVE  /\ SubSeq(bs, a, a + n - 1) \in Seq(Bytes) /\ Len(SubSeq(bs, a, a + n - 1)) = n
         /\ \A k \in 1 .. n : SubSeq(bs, a, a + n - 1)[k] = bs[a + k - 1]
<1> DEFINE b == a + n - 1
<1>1. b \in Int /\ b - a + 1 = n /\ a + n - 1 = b /\ (IF a <= b THEN n ELSE 0) = n
  OBVIOUS
<1>2. \A i \in a .. b : bs[i] \in Bytes
  BY <1>1
<1> HIDE DEF b
<1>3. /\ SubSeq(bs, a, b) \in Seq(Bytes)
      /\ Len(SubSeq(bs, a, b)) = IF a <= b THEN b - a + 1 ELSE 0
      /\ \A i \in 1 .. b - a + 1 : SubSeq(bs, a, b)[i] = bs[a + i - 1]
  BY <1>1, <1>2, SubSeqProperties
<1>4. Len(SubSeq(bs, a, b)) = n
  BY <1>1, <1>3
<1>5. \A k \in 1 .. n : SubSeq(bs, a, b)[k] = bs[a + k - 1]
  BY <1>1, <1>3
<1> QED
  BY <1>1, <1>3, <1>4, <1>5

LEMMA Joined ==
  ASSUME NEW bs \in Seq(Bytes), NEW c \in Seq(Bytes)
  PROVE  /\ bs \o c \in Seq(Bytes) /\ Len(bs \o c) = Len(bs) + Len(c)
         /\ \A k \in 1 .. Len(bs) : (bs \o c)[k] = bs[k]
         /\ \A k \in 1 .. Len(c) : (bs \o c)[Len(bs) + k] = c[k]
OBVIOUS


LEMMA SamePart ==
  ASSUME NEW bs \in Seq(Bytes), NEW c \in Seq(Bytes), NEW a \in Nat, NEW n \in Nat,
         a >= 1, a + n <= Len(bs) + 1
  PROVE  SubSeq(bs \o c, a, a + n - 1) = SubSeq(bs, a, a + n - 1)
<1> DEFINE l == SubSeq(bs \o c, a, a + n - 1)
           r == SubSeq(bs, a, a + n - 1)
<1>1. bs \o c \in Seq(Bytes) /\ Len(bs \o c) = Len(bs) + Len(c) /\ Len(c) \in Nat
  BY Joined
<1>2. /\ l \in Seq(Bytes) /\ Len(l) = n
      /\ \A k \in 1 .. n : l[k] = (bs \o c)[a + k - 1]
  <2> DEFINE j == bs \o c
  <2>1. j \in Seq(Bytes) /\ a + n <= Len(j) + 1
    BY <1>1
  <2> HIDE DEF j
  <2>2. /\ SubSeq(j, a, a + n - 1) \in Seq(Bytes) /\ Len(SubSeq(j, a, a + n - 1)) = n
        /\ \A k \in 1 .. n : SubSeq(j, a, a + n - 1)[k] = j[a + k - 1]
    BY <2>1, PartIs
  <2> QED
    BY <2>2 DEF j
<1>3. /\ r \in Seq(Bytes) /\ Len(r) = n
      /\ \A k \in 1 .. n : r[k] = bs[a + k - 1]
  BY PartIs
<1>4. \A k \in 1 .. n : (bs \o c)[a + k - 1] = bs[a + k - 1]
  <2>1. \A k \in 1 .. n : a + k - 1 \in 1 .. Len(bs)
    OBVIOUS
  <2> DEFINE j == bs \o c
  <2>2. \A k \in 1 .. Len(bs) : j[k] = bs[k]
    BY Joined
  <2> HIDE DEF j
  <2>3. \A k \in 1 .. n : j[a + k - 1] = bs[a + k - 1]
    BY <2>1, <2>2
  <2> QED
    BY <2>3 DEF j
<1> HIDE DEF l, r
<1>5. \A k \in 1 .. n : l[k] = r[k]
  BY <1>2, <1>3, <1>4
<1>6. l = r
  BY <1>2, <1>3, <1>5
<1> QED
  BY <1>6 DEF l, r

LEMMA NewPart ==
  ASSUME NEW bs \in Seq(Bytes), NEW c \in Seq(Bytes)
  PROVE  SubSeq(bs \o c, Len(bs) + 1, Len(bs) + 1 + Len(c) - 1) = c
<1> DEFINE j == bs \o c
           a == Len(bs) + 1
           n == Len(c)
           l == SubSeq(j, a, a + n - 1)
<1>1. j \in Seq(Bytes) /\ Len(j) = Len(bs) + n /\ n \in Nat /\ a \in Nat /\ a >= 1
  BY Joined
<1>2. \A k \in 1 .. n : j[Len(bs) + k] = c[k]
  BY Joined
<1> HIDE DEF j
<1>3. /\ l \in Seq(Bytes) /\ Len(l) = n /\ \A k \in 1 .. n : l[k] = j[a + k - 1]
  BY <1>1, PartIs
<1>4. \A k \in 1 .. n : a + k - 1 = Len(bs) + k
  BY <1>1
<1> HIDE DEF l, a
<1>5. \A k \in 1 .. n : l[k] = c[k]
  BY <1>2, <1>3, <1>4
<1>6. l = c
  BY <1>3, <1>5
<1> QED
  BY <1>6 DEF l, a, j

\* The positions with one more item behind the n before, which ends before e.
Extended(u, t, n, e) ==
  /\ u \in [1 .. n + 2 -> Nat] /\ u[n + 2] = e
  /\ \A k \in 1 .. n + 1 : u[k] = t[k]

LEMMA LaidNext ==
  ASSUME NEW is \in Seq(ItemSet), NEW bs \in Seq(Bytes), NEW at, Laid(at, is, bs),
         NEW i \in ItemSet
  PROVE  \E u : Laid(u, Append(is, i), bs \o Code(i))
<1> DEFINE n == Len(is)
           c == Code(i)
           e == Len(bs) + 1 + Len(c)
           u == [k \in 1 .. n + 2 |-> IF k = n + 2 THEN e ELSE at[k]]
           js == Append(is, i)
           cs == bs \o c
<1>1. n \in Nat /\ c \in Seq(Bytes) /\ Len(c) \in Nat /\ e \in Nat /\ Len(bs) \in Nat
  BY CodeIs
<1>2. /\ at \in [1 .. n + 1 -> Nat] /\ at[1] = 1 /\ at[n + 1] = Len(bs) + 1
      /\ \A k \in 1 .. n : LiesAt(at[k], at[k + 1], bs, Code(is[k]))
  BY DEF Laid
<1>3. Extended(u, at, n, e)
  <2>1. ASSUME NEW k \in 1 .. n + 1 PROVE k \in 1 .. n + 2 /\ k # n + 2
    BY <1>1
  <2> QED
    BY <1>1, <1>2, <2>1 DEF Extended
<1>4. /\ js \in Seq(ItemSet) /\ Len(js) = n + 1 /\ js[n + 1] = i
      /\ \A k \in 1 .. n : js[k] = is[k]
  OBVIOUS
<1>5. cs \in Seq(Bytes) /\ Len(cs) = Len(bs) + Len(c)
  BY <1>1, Joined
<1> HIDE DEF u
<1>6. /\ u \in [1 .. n + 2 -> Nat] /\ u[n + 2] = e /\ \A k \in 1 .. n + 1 : u[k] = at[k]
  BY <1>3 DEF Extended
<1>7. ASSUME NEW k \in 1 .. n PROVE LiesAt(u[k], u[k + 1], cs, Code(js[k]))
  <2>1. /\ u[k] = at[k] /\ u[k + 1] = at[k + 1] /\ js[k] = is[k]
        /\ at[k] \in Nat /\ at[k + 1] \in Nat /\ is[k] \in ItemSet
    <3>1. k \in 1 .. n + 1 /\ k + 1 \in 1 .. n + 1
      BY <1>1
    <3>2. u[k] = at[k] /\ u[k + 1] = at[k + 1]
      BY <1>6, <3>1
    <3>3. js[k] = is[k]
      BY <1>4
    <3>4. at[k] \in Nat /\ at[k + 1] \in Nat
      BY <1>2, <3>1
    <3>5. is[k] \in ItemSet
      OBVIOUS
    <3> QED
      BY <3>2, <3>3, <3>4, <3>5
  <2> DEFINE a == at[k]
             b == at[k + 1]
             d == Code(is[k])
  <2>2. LiesAt(a, b, bs, d)
    BY <1>2
  <2>3. a \in Nat /\ d \in Seq(Bytes)
    BY <2>1, CodeIs
  <2> HIDE DEF a, b, d
  <2>4. LiesAt(a, b, cs, d)
    <3> DEFINE l == Len(d)
    <3>1. l \in Nat /\ a >= 1 /\ b = a + l /\ a + l <= Len(bs) + 1 /\ SubSeq(bs, a, b - 1) = d
      BY <2>2, <2>3 DEF LiesAt
    <3> HIDE DEF l
    <3>2. SubSeq(bs \o c, a, a + l - 1) = SubSeq(bs, a, a + l - 1)
      BY <1>1, <2>3, <3>1, SamePart
    <3> QED
      BY <1>1, <1>5, <2>3, <3>1, <3>2 DEF LiesAt, l
  <2> QED
    BY <2>1, <2>4 DEF a, b, d
<1>8. LiesAt(u[n + 1], u[n + 2], cs, c)
  <2>1. SubSeq(bs \o c, Len(bs) + 1, Len(bs) + 1 + Len(c) - 1) = c
    BY <1>1, NewPart
  <2>2. u[n + 1] = Len(bs) + 1 /\ u[n + 2] = Len(bs) + 1 + Len(c)
    <3>1. n + 1 \in 1 .. n + 1
      BY <1>1
    <3>2. u[n + 1] = at[n + 1]
      BY <1>6, <3>1
    <3> QED
      BY <1>2, <1>6, <3>2 DEF e
  <2> QED
    BY <1>1, <1>5, <2>1, <2>2 DEF LiesAt
<1>10. ASSUME NEW k \in 1 .. n + 1 PROVE LiesAt(u[k], u[k + 1], cs, Code(js[k]))
  <2>1. CASE k = n + 1
    <3>1. k + 1 = n + 2 /\ Code(js[k]) = c
      BY <1>1, <1>4, <2>1
    <3> HIDE DEF js, cs, c
    <3> QED
      BY <1>8, <2>1, <3>1
  <2>2. CASE k \in 1 .. n
    <3> HIDE DEF js, cs
    <3> QED
      BY <1>7, <2>2
  <2> QED
    BY <1>1, <2>1, <2>2
<1>11. u[1] = 1
  BY <1>1, <1>2, <1>6
<1> HIDE DEF js, cs, e
<1>12. Laid(u, js, cs)
  <2>1. u[Len(js) + 1] = Len(cs) + 1 /\ Len(js) + 1 = n + 2
    BY <1>1, <1>4, <1>5, <1>6 DEF e
  <2> QED
    BY <1>4, <1>6, <1>10, <1>11, <2>1 DEF Laid
<1> QED
  BY <1>12 DEF js, cs


(***************************************************************************)
(* The invariant: the writer stands at the end, the values lie one behind  *)
(* the other, and the reader stands where the next value begins.           *)
(***************************************************************************)
ReadSet == ItemSet \cup {[type |-> type, val |-> <<0>>] : type \in Types}

ResultsAre(rs, is) ==
  /\ rs \in Seq(ReadSet)
  /\ \A k \in 1 .. Len(rs) : k <= Len(is) => rs[k] = is[k]
  /\ \A k \in 1 .. Len(rs) : k > Len(is) => rs[k].val = <<0>>

\* The reader reads the stream bs, and stands at p with the results rs.
Reads(at, is, bs, p, rs) ==
  /\ ResultsAre(rs, is) /\ p \in Nat
  /\ Len(rs) <= Len(is) => p = at[Len(rs) + 1]
  /\ Len(rs) >= Len(is) => p >= Len(bs) + 1

Unread(p, rs) == rs = <<>> /\ p = 1

Sound(is, bs, rc, p, rs) ==
  \E at : /\ Laid(at, is, bs)
          /\ \/ rc = NotSent /\ Unread(p, rs)
             \/ rc = bs /\ Reads(at, is, bs, p, rs)

BytesInv ==
  /\ bytes \in Seq(Bytes) /\ write_ptr = Len(bytes) + 1 /\ items \in Seq(ItemSet)
  /\ Sound(items, bytes, received, read_ptr, results)

LEMMA NotSentIsNone == NotSent \notin Seq(Bytes)
<1>1. SUFFICES ASSUME NotSent \in Seq(Bytes) PROVE FALSE
  OBVIOUS
<1>2. Len(NotSent) = 1 /\ NotSent[1] = -1
  BY DEF NotSent
<1>3. NotSent[1] \in Bytes
  BY <1>1, <1>2
<1> QED
  BY <1>2, <1>3 DEF Bytes

\* Every value begins and ends in the stream.
LEMMA LaidInside ==
  ASSUME NEW is \in Seq(ItemSet), NEW bs \in Seq(Bytes), NEW at, Laid(at, is, bs),
         NEW k \in 1 .. Len(is) + 1
  PROVE  at[k] \in Nat /\ at[k] >= 1 /\ at[k] <= Len(bs) + 1
<1>1. at \in [1 .. Len(is) + 1 -> Nat] /\ at[Len(is) + 1] = Len(bs) + 1 /\ Len(bs) \in Nat
  BY DEF Laid
<1>2. CASE k = Len(is) + 1
  BY <1>1, <1>2
<1>3. CASE k \in 1 .. Len(is)
  <2>1. LiesAt(at[k], at[k + 1], bs, Code(is[k]))
    BY <1>3 DEF Laid
  <2>2. Len(Code(is[k])) \in Nat /\ at[k] \in Nat
    <3>1. is[k] \in ItemSet
      BY <1>3
    <3> QED
      BY <1>1, <3>1, CodeIs
  <2> QED
    BY <1>1, <2>1, <2>2 DEF LiesAt
<1> QED
  BY <1>2, <1>3

\* The invariant says what the property asks.
LEMMA SoundReadsBack ==
  ASSUME BytesInv
  PROVE  PacketReadsBack
<1>1. bytes \in Seq(Bytes) /\ write_ptr = Len(bytes) + 1 /\ items \in Seq(ItemSet)
  BY DEF BytesInv
<1>2. PICK at : /\ Laid(at, items, bytes)
                /\ \/ received = NotSent /\ Unread(read_ptr, results)
                   \/ received = bytes /\ Reads(at, items, bytes, read_ptr, results)
  BY DEF BytesInv, Sound
<1>3. CASE received = NotSent /\ Unread(read_ptr, results)
  BY <1>1, <1>3 DEF Unread, PacketReadsBack, BytesTypeOK, ItemsReadBack, BehindIsZero
<1>4. CASE received = bytes /\ Reads(at, items, bytes, read_ptr, results)
  <2>1. ResultsAre(results, items) /\ read_ptr \in Nat
    BY <1>4 DEF Reads
  <2>2. DOMAIN results = 1 .. Len(results) /\ Len(results) \in Nat /\ Len(items) \in Nat /\ Len(bytes) \in Nat
    BY <1>1, <2>1 DEF ResultsAre
  <2>3. ItemsReadBack /\ BehindIsZero
    BY <2>1, <2>2 DEF ResultsAre, ItemsReadBack, BehindIsZero
  <2>4. CASE Len(results) <= Len(items)
    <3>1. Len(results) + 1 \in 1 .. Len(items) + 1
      BY <2>2, <2>4
    <3>2. read_ptr = at[Len(results) + 1]
      BY <1>4, <2>4 DEF Reads
    <3>3. read_ptr >= 1 /\ read_ptr <= Len(bytes) + 1
      BY <1>1, <1>2, <3>1, <3>2, LaidInside
    <3> QED
      BY <1>1, <1>4, <2>1, <2>3, <3>3 DEF PacketReadsBack, BytesTypeOK
  <2>5. CASE ~ (Len(results) <= Len(items))
    <3>1. read_ptr >= Len(bytes) + 1
      BY <1>4, <2>2, <2>5 DEF Reads
    <3> QED
      BY <1>1, <1>4, <2>1, <2>2, <2>3, <2>5, <3>1 DEF PacketReadsBack, BytesTypeOK
  <2> QED
    BY <2>4, <2>5
<1> QED
  BY <1>2, <1>3, <1>4

LEMMA BytesInvInit == BytesInit => BytesInv
<1> SUFFICES ASSUME BytesInit PROVE BytesInv
  OBVIOUS
<1>1. bytes = <<>> /\ write_ptr = 1 /\ items = <<>> /\ received = NotSent /\ Unread(read_ptr, results)
  BY DEF BytesInit, Unread
<1>2. Len(<<>>) = 0 /\ 1 .. 0 = {} /\ <<>> \in Seq(Bytes) /\ <<>> \in Seq(ItemSet)
  OBVIOUS
<1>3. Laid([k \in 1 .. 1 |-> 1], <<>>, <<>>)
  <2>1. [k \in 1 .. 1 |-> 1] \in [1 .. 1 -> Nat] /\ [k \in 1 .. 1 |-> 1][1] = 1
    OBVIOUS
  <2> QED
    BY <1>2, <2>1 DEF Laid
<1> QED
  BY <1>1, <1>2, <1>3 DEF BytesInv, Sound

\* What goes in at the end is appended.
LEMMA AtEnd ==
  ASSUME NEW bs \in Seq(Bytes), NEW c \in Seq(Bytes), NEW p, p = Len(bs) + 1
  PROVE  SubSeq(bs, 1, p - 1) \o c \o SubSeq(bs, p, Len(bs)) = bs \o c
<1>1. p - 1 = Len(bs) /\ Len(bs) \in Nat /\ p > Len(bs) /\ p \in Nat
  OBVIOUS
<1> DEFINE l == SubSeq(bs, 1, p - 1)
           r == SubSeq(bs, p, Len(bs))
<1>2. l = bs /\ r = <<>>
  BY <1>1
<1> HIDE DEF l, r
<1>3. l \o c \o r = bs \o c
  BY <1>2
<1> QED
  BY <1>3 DEF l, r

\* What is written goes to the end.
LEMMA WriteStep == ASSUME BytesInv, write PROVE BytesInv'
<1>1. bytes \in Seq(Bytes) /\ write_ptr = Len(bytes) + 1 /\ items \in Seq(ItemSet)
  BY DEF BytesInv
<1>2. received = NotSent /\ received' = received /\ read_ptr' = read_ptr /\ results' = results
  BY DEF write, Written
<1>3. PICK at : Laid(at, items, bytes) /\ Unread(read_ptr, results)
  <2>1. received # bytes
    BY <1>1, <1>2, NotSentIsNone
  <2> QED
    BY <2>1 DEF BytesInv, Sound
<1>4. \E i \in ItemSet : Written(Code(i), i)
  <2>1. CASE \E type \in Types : \E v \in Representable(type) :
                Written(encode(type, v), [type |-> type, val |-> <<v>>])
    <3>1. PICK type \in Types : \E v \in Representable(type) :
                Written(encode(type, v), [type |-> type, val |-> <<v>>])
      BY <2>1
    <3>2. PICK v \in Representable(type) : Written(encode(type, v), [type |-> type, val |-> <<v>>])
      BY <3>1
    <3> DEFINE i == [type |-> type, val |-> <<v>>]
    <3>3. i \in ItemSet
      BY DEF ItemSet
    <3>4. i.type = type /\ type # "string" /\ i.val[1] = v
      BY ByteConstants
    <3>5. Code(i) = encode(type, v)
      BY <3>4, Zenon DEF Code
    <3> QED
      BY <3>2, <3>3, <3>5
  <2>2. CASE \E len \in 0 .. MaxLength : \E v \in [1 .. len -> Bytes] :
                Written(v, [type |-> "string", val |-> v])
    <3>1. PICK len \in 0 .. MaxLength : \E v \in [1 .. len -> Bytes] :
                Written(v, [type |-> "string", val |-> v])
      BY <2>2
    <3>2. PICK v \in [1 .. len -> Bytes] : Written(v, [type |-> "string", val |-> v])
      BY <3>1
    <3> DEFINE i == [type |-> "string", val |-> v]
    <3>3. v \in Seq(Bytes)
      BY ByteConstants
    <3>4. i \in ItemSet
      BY <3>3 DEF ItemSet
    <3>5. i.type = "string" /\ i.val = v
      OBVIOUS
    <3>6. Code(i) = v
      BY <3>5, Zenon DEF Code
    <3> QED
      BY <3>2, <3>4, <3>6
  <2> QED
    BY <2>1, <2>2 DEF write
<1>5. PICK i \in ItemSet : Written(Code(i), i)
  BY <1>4
<1> DEFINE c == Code(i)
<1>6. c \in Seq(Bytes)
  BY CodeIs
<1> HIDE DEF c
<1>7. bytes' = bytes \o c /\ write_ptr' = write_ptr + Len(c) /\ items' = Append(items, i)
  <2>1. bytes' = Inserted(c) /\ write_ptr' = write_ptr + Len(c) /\ items' = Append(items, i)
    BY <1>5 DEF Written, c
  <2>2. Inserted(c) = bytes \o c
    BY <1>1, <1>6, AtEnd DEF Inserted
  <2> QED
    BY <2>1, <2>2, Zenon
<1>8. /\ bytes \o c \in Seq(Bytes) /\ Len(bytes \o c) = Len(bytes) + Len(c)
      /\ Append(items, i) \in Seq(ItemSet)
  BY <1>1, <1>6
<1>9. write_ptr' = Len(bytes') + 1
  BY <1>1, <1>6, <1>7, <1>8
<1>10. PICK u : Laid(u, Append(items, i), bytes \o c)
  BY <1>1, <1>3, LaidNext DEF c
<1>11. Laid(u, items', bytes')
  BY <1>7, <1>10
<1>12. received' = NotSent /\ Unread(read_ptr', results')
  BY <1>2, <1>3
<1>13. Sound(items', bytes', received', read_ptr', results')
  BY <1>11, <1>12 DEF Sound
<1> QED
  BY <1>7, <1>8, <1>9, <1>13 DEF BytesInv

\* The packet comes, and the reader stands at its first value.
LEMMA NewStep == ASSUME BytesInv, new PROVE BytesInv'
<1>1. bytes \in Seq(Bytes) /\ write_ptr = Len(bytes) + 1 /\ items \in Seq(ItemSet)
  BY DEF BytesInv
<1>2. /\ received = NotSent /\ received' = bytes /\ bytes' = bytes /\ write_ptr' = write_ptr
      /\ items' = items /\ read_ptr' = read_ptr /\ results' = results
  BY DEF new
<1>3. PICK at : Laid(at, items, bytes) /\ Unread(read_ptr, results)
  <2>1. received # bytes
    BY <1>1, <1>2, NotSentIsNone
  <2> QED
    BY <2>1 DEF BytesInv, Sound
<1>4. Reads(at, items, bytes, read_ptr, results)
  <2>1. results = <<>> /\ read_ptr = 1 /\ Len(results) = 0 /\ <<>> \in Seq(ReadSet) /\ 1 .. 0 = {}
    BY <1>3 DEF Unread
  <2>2. ResultsAre(results, items)
    BY <2>1 DEF ResultsAre
  <2>3. at[1] = 1 /\ (Len(items) = 0 => at[1] = Len(bytes) + 1) /\ Len(items) \in Nat
    BY <1>1, <1>3 DEF Laid
  <2>4. Len(results) <= Len(items) => read_ptr = at[Len(results) + 1]
    BY <2>1, <2>3
  <2>5. Len(results) >= Len(items) => read_ptr >= Len(bytes) + 1
    BY <1>1, <2>1, <2>3
  <2> QED
    BY <2>1, <2>2, <2>4, <2>5 DEF Reads
<1>5. Sound(items, bytes, bytes, read_ptr, results)
  BY <1>3, <1>4 DEF Sound
<1> QED
  BY <1>1, <1>2, <1>5 DEF BytesInv


\* Each value is read as it was written.
LEMMA ReadStep == ASSUME BytesInv, read PROVE BytesInv'
<1> DEFINE m == Len(results)
           i == items[m + 1]
           c == Code(i)
           len == IF i.type = "string" THEN Len(i.val) ELSE Sizes[i.type]
           value == IF i.type = "string" THEN Part(len) ELSE <<decode(i.type, Part(len))>>
<1>1. bytes \in Seq(Bytes) /\ write_ptr = Len(bytes) + 1 /\ items \in Seq(ItemSet)
  BY DEF BytesInv
<1>2. /\ received # NotSent /\ m < Len(items)
      /\ results' = Append(results, [type |-> i.type, val |-> value]) /\ read_ptr' = read_ptr + len
      /\ bytes' = bytes /\ write_ptr' = write_ptr /\ items' = items /\ received' = received
  BY DEF read, Moved
<1>3. PICK at : /\ Laid(at, items, bytes)
                /\ received = bytes /\ Reads(at, items, bytes, read_ptr, results)
  BY <1>2 DEF BytesInv, Sound
<1>4. results \in Seq(ReadSet) /\ m \in Nat /\ m + 1 \in 1 .. Len(items) /\ Len(items) \in Nat
  BY <1>1, <1>2, <1>3 DEF Reads, ResultsAre
<1>5. i \in ItemSet /\ i \in ReadSet
  BY <1>1, <1>4 DEF ReadSet
<1>6. /\ c \in Seq(Bytes) /\ i = [type |-> i.type, val |-> i.val]
      /\ i.type = "string" => c = i.val
      /\ i.type # "string" => Len(c) = Sizes[i.type] /\ i.val = <<decode(i.type, c)>>
  BY <1>5, CodeIs
<1>7. len = Len(c) /\ Len(c) \in Nat
  BY <1>6
<1>8. read_ptr = at[m + 1] /\ LiesAt(at[m + 1], at[m + 1 + 1], bytes, c) /\ read_ptr \in Nat
  BY <1>2, <1>3, <1>4 DEF Reads, Laid
<1> HIDE DEF c, len, i, m
<1>9. /\ read_ptr >= 1 /\ at[m + 1 + 1] = read_ptr + Len(c) /\ read_ptr + Len(c) <= Len(bytes) + 1
      /\ SubSeq(bytes, read_ptr, read_ptr + Len(c) - 1) = c
  BY <1>8 DEF LiesAt
<1>10. Part(len) = c
  <2>1. (IF read_ptr + len - 1 < Len(received) THEN read_ptr + len - 1 ELSE Len(received))
           = read_ptr + Len(c) - 1
    <3> DEFINE l == Len(received)
               n == Len(c)
    <3>1. l \in Nat /\ n \in Nat /\ len = n /\ read_ptr \in Nat /\ read_ptr + n <= l + 1
      BY <1>1, <1>3, <1>7, <1>8, <1>9
    <3> HIDE DEF l, n
    <3>2. (IF read_ptr + len - 1 < l THEN read_ptr + len - 1 ELSE l) = read_ptr + n - 1
      BY <3>1
    <3> QED
      BY <3>2 DEF l, n
  <2> QED
    BY <1>3, <1>9, <2>1, Zenon DEF Part
<1>11. [type |-> i.type, val |-> value] = i
  BY <1>6, <1>10, Zenon
<1> HIDE DEF value
<1>12. results' = Append(results, i) /\ read_ptr' = at[m + 1 + 1]
  BY <1>2, <1>7, <1>9, <1>11, Zenon
<1>13. ResultsAre(Append(results, i), items)
  <2> DEFINE rs == Append(results, i)
  <2>1. rs \in Seq(ReadSet) /\ Len(rs) = m + 1
    BY <1>4, <1>5 DEF m
  <2>2. rs[m + 1] = i /\ \A k \in 1 .. m : rs[k] = results[k]
    BY <1>4 DEF m
  <2> HIDE DEF rs
  <2>3. ASSUME NEW k \in 1 .. m + 1 PROVE rs[k] = items[k]
    <3>1. CASE k = m + 1
      <4>1. rs[m + 1] = items[m + 1]
        BY <2>2, Zenon DEF i
      <4> QED
        BY <3>1, <4>1, Zenon
    <3>2. CASE k \in 1 .. m
      <4>1. k <= Len(items)
        BY <1>2, <1>4, <3>2
      <4>2. results[k] = items[k]
        BY <1>3, <3>2, <4>1 DEF Reads, ResultsAre, m
      <4> QED
        BY <2>2, <3>2, <4>2
    <3>3. k = m + 1 \/ k \in 1 .. m
      BY <1>4
    <3> QED
      BY <3>1, <3>2, <3>3, Zenon
  <2>4. ASSUME NEW k \in 1 .. m + 1 PROVE k <= Len(items)
    BY <1>4
  <2>5. ResultsAre(rs, items)
    BY <1>4, <2>1, <2>3, <2>4 DEF ResultsAre
  <2> QED
    BY <2>5 DEF rs
<1>14. Reads(at, items, bytes, read_ptr', results')
  <2>1. ResultsAre(results', items) /\ Len(results') = m + 1
    BY <1>4, <1>12, <1>13 DEF m
  <2>2. read_ptr' \in Nat /\ read_ptr' = at[m + 1 + 1]
    BY <1>2, <1>7, <1>8, <1>12
  <2>3. m + 1 >= Len(items) => read_ptr' >= Len(bytes) + 1
    <3>1. SUFFICES ASSUME m + 1 >= Len(items) PROVE read_ptr' >= Len(bytes) + 1
      OBVIOUS
    <3>2. m + 1 = Len(items)
      BY <1>4, <3>1
    <3>3. at[Len(items) + 1] = Len(bytes) + 1
      BY <1>3 DEF Laid
    <3> QED
      BY <1>1, <2>2, <3>2, <3>3
  <2> QED
    BY <2>1, <2>2, <2>3 DEF Reads
<1>15. Sound(items, bytes, received, read_ptr', results')
  BY <1>3, <1>14 DEF Sound
<1> QED
  BY <1>1, <1>2, <1>15 DEF BytesInv

\* Behind the end there is nothing, which reads as zero.
LEMMA ReadBehindStep == ASSUME BytesInv, readBehind PROVE BytesInv'
<1>1. bytes \in Seq(Bytes) /\ write_ptr = Len(bytes) + 1 /\ items \in Seq(ItemSet)
  BY DEF BytesInv
<1>2. /\ received # NotSent /\ Len(results) = Len(items)
      /\ bytes' = bytes /\ write_ptr' = write_ptr /\ items' = items /\ received' = received
  BY DEF readBehind
<1>3. PICK at : /\ Laid(at, items, bytes)
                /\ received = bytes /\ Reads(at, items, bytes, read_ptr, results)
  BY <1>2 DEF BytesInv, Sound
<1>4. PICK type \in Types :
          /\ results' = Append(results, [type |-> type, val |-> <<decode(type, Part(Sizes[type]))>>])
          /\ read_ptr' = read_ptr + Sizes[type]
  BY DEF readBehind, Moved
<1> DEFINE n == Sizes[type]
           m == Len(results)
           i == [type |-> type, val |-> <<0>>]
<1>5. n \in Nat \ {0}
  BY ByteConstants
<1>6. results \in Seq(ReadSet) /\ m \in Nat /\ read_ptr \in Nat /\ read_ptr >= Len(bytes) + 1
  BY <1>1, <1>2, <1>3 DEF Reads, ResultsAre
<1> HIDE DEF n
<1>7. Part(n) = <<>>
  <2>1. (IF read_ptr + n - 1 < Len(received) THEN read_ptr + n - 1 ELSE Len(received)) = Len(bytes)
    BY <1>1, <1>3, <1>5, <1>6
  <2>2. SubSeq(bytes, read_ptr, Len(bytes)) = <<>>
    BY <1>1, <1>6
  <2> QED
    BY <1>3, <2>1, <2>2, Zenon DEF Part
<1>8. decode(type, Part(n)) = 0
  BY <1>7, NothingIsZero
<1>9. results' = Append(results, i)
  BY <1>4, <1>8, Zenon DEF n
<1>10. i \in ReadSet /\ i.val = <<0>>
  BY DEF ReadSet
<1> HIDE DEF i
<1>11. /\ Append(results, i) \in Seq(ReadSet) /\ Len(Append(results, i)) = m + 1
       /\ Append(results, i)[m + 1] = i
       /\ \A k \in 1 .. m : Append(results, i)[k] = results[k]
  BY <1>6, <1>10
<1>12. ResultsAre(Append(results, i), items)
  <2> DEFINE rs == Append(results, i)
  <2> HIDE DEF rs, m
  <2>1. ASSUME NEW k \in 1 .. m + 1, k <= Len(items) PROVE rs[k] = items[k]
    <3>1. k \in 1 .. m
      BY <1>1, <1>2, <1>6, <2>1 DEF m
    <3>2. results[k] = items[k]
      BY <1>3, <2>1, <3>1 DEF Reads, ResultsAre, m
    <3> QED
      BY <1>11, <3>1, <3>2 DEF rs
  <2>2. ASSUME NEW k \in 1 .. m + 1, k > Len(items) PROVE rs[k].val = <<0>>
    <3>1. k = m + 1
      BY <1>1, <1>2, <1>6, <2>2 DEF m
    <3> QED
      BY <1>10, <1>11, <3>1 DEF rs
  <2>3. rs \in Seq(ReadSet) /\ Len(rs) = m + 1
    BY <1>11 DEF rs
  <2>4. ResultsAre(rs, items)
    BY <2>1, <2>2, <2>3 DEF ResultsAre
  <2> QED
    BY <2>4 DEF rs
<1>13. Reads(at, items, bytes, read_ptr', results')
  <2>1. ResultsAre(results', items) /\ Len(results') = Len(items) + 1 /\ Len(items) \in Nat
    BY <1>1, <1>2, <1>9, <1>11, <1>12
  <2>2. read_ptr' \in Nat /\ read_ptr' >= Len(bytes) + 1
    BY <1>1, <1>4, <1>5, <1>6 DEF n
  <2> QED
    BY <2>1, <2>2 DEF Reads
<1>14. Sound(items, bytes, received, read_ptr', results')
  BY <1>3, <1>13 DEF Sound
<1> QED
  BY <1>1, <1>2, <1>14 DEF BytesInv

LEMMA BytesInvStep == BytesInv /\ [BytesNext]_bstreamVars => BytesInv'
<1> SUFFICES ASSUME BytesInv, [BytesNext]_bstreamVars PROVE BytesInv'
  OBVIOUS
<1>1. CASE write
  BY <1>1, WriteStep
<1>2. CASE new
  BY <1>2, NewStep
<1>3. CASE read
  BY <1>3, ReadStep
<1>4. CASE readBehind
  BY <1>4, ReadBehindStep
<1>5. CASE UNCHANGED bstreamVars
  BY <1>5 DEF bstreamVars, BytesInv
<1> QED
  BY <1>1, <1>2, <1>3, <1>4, <1>5 DEF BytesNext

\* What is read of a packet is what was written to it: numbers of every size, negative ones
\* included, truth values and strings come back one after the other, whatever their number
\* and length, and what is read behind the end is zero.
THEOREM BytesReadBack == BytesSpec => []PacketReadsBack
<1>1. BytesInit => BytesInv
  BY BytesInvInit
<1>2. BytesInv /\ [BytesNext]_bstreamVars => BytesInv'
  BY BytesInvStep
<1>3. BytesInv => PacketReadsBack
  BY SoundReadsBack
<1> QED
  BY <1>1, <1>2, <1>3, PTL DEF BytesSpec

(***************************************************************************)
(* Hotkeys, for any keys, combinations and number of hotkeys.              *)
(***************************************************************************)
(* ---------------------------- lists of keys ------------------------------- *)

Keys == Physical \cup {VK_CONTROL}
Once(s) == \A i, j \in DOMAIN s : s[i] = s[j] => i = j

LEMMA InList ==
  ASSUME NEW T, NEW s \in Seq(T), NEW x
  PROVE  /\ x \in ToSet(s) <=> \E i \in 1 .. Len(s) : s[i] = x
         /\ isKeyExist(x, s) <=> x \in ToSet(s)
         /\ Contains(s, x) <=> x \in ToSet(s)
<1>1. DOMAIN s = 1 .. Len(s)
  OBVIOUS
<1>2. x \in ToSet(s) <=> \E i \in 1 .. Len(s) : s[i] = x
  BY <1>1 DEF ToSet
<1> QED
  BY <1>2, Zenon DEF isKeyExist, Contains

LEMMA TakenOut ==
  ASSUME NEW T, NEW s \in Seq(T), NEW k \in 1 .. Len(s)
  PROVE  /\ RemoveAt(s, k) \in Seq(T) /\ Len(RemoveAt(s, k)) = Len(s) - 1
         /\ \A i \in 1 .. Len(s) - 1 : RemoveAt(s, k)[i] = s[IF i < k THEN i ELSE i + 1]
<1> DEFINE n == Len(s)
           a == SubSeq(s, 1, k - 1)
           b == SubSeq(s, k + 1, n)
           c == a \o b
<1>1. n \in Nat /\ k \in Nat /\ k >= 1 /\ k <= n
  OBVIOUS
<1>2. a \in Seq(T) /\ Len(a) = k - 1 /\ \A i \in 1 .. k - 1 : a[i] = s[i]
  BY <1>1
<1>3. b \in Seq(T) /\ Len(b) = n - k /\ \A i \in 1 .. n - k : b[i] = s[k + i]
  BY <1>1
<1> HIDE DEF a, b
<1>4. /\ c \in Seq(T) /\ Len(c) = Len(a) + Len(b)
      /\ \A i \in 1 .. Len(a) + Len(b) : c[i] = IF i <= Len(a) THEN a[i] ELSE b[i - Len(a)]
  BY <1>2, <1>3, ConcatProperties
<1>41. (k - 1) + (n - k) = n - 1
  BY <1>1
<1>5. /\ c \in Seq(T) /\ Len(c) = n - 1
      /\ \A i \in 1 .. n - 1 : c[i] = IF i <= k - 1 THEN a[i] ELSE b[i - (k - 1)]
  <2> HIDE DEF c, n
  <2> QED
    BY <1>2, <1>3, <1>4, <1>41
<1>6. RemoveAt(s, k) = c
  BY DEF RemoveAt, a, b
<1> HIDE DEF c, n
<1>7. ASSUME NEW i \in 1 .. n - 1 PROVE c[i] = s[IF i < k THEN i ELSE i + 1]
  <2>1. CASE i < k
    <3>1. i \in 1 .. k - 1 /\ i <= k - 1
      BY <1>1, <2>1
    <3>2. c[i] = a[i] /\ a[i] = s[i]
      BY <1>2, <1>5, <3>1
    <3> QED
      BY <2>1, <3>2
  <2>2. CASE ~ (i < k)
    <3>1. i - (k - 1) \in 1 .. n - k /\ ~ (i <= k - 1) /\ k + (i - (k - 1)) = i + 1
      BY <1>1, <2>2
    <3>2. c[i] = b[i - (k - 1)]
      BY <1>5, <3>1
    <3>3. b[i - (k - 1)] = s[k + (i - (k - 1))]
      BY <1>3, <3>1
    <3> QED
      BY <2>2, <3>1, <3>2, <3>3
  <2> QED
    BY <2>1, <2>2
<1> QED
  BY <1>5, <1>6, <1>7 DEF n

\* A key in a list of different keys is taken out, and only it.
LEMMA KeyRemoved ==
  ASSUME NEW T, NEW s \in Seq(T), Once(s), NEW x, x \in ToSet(s)
  PROVE  /\ removeKey(s, x) \in Seq(T) /\ Once(removeKey(s, x))
         /\ ToSet(removeKey(s, x)) = ToSet(s) \ {x}
<1> DEFINE n == Len(s)
           Is(k) == s[k] = x /\ \A i \in 1 .. k - 1 : s[i] # x
           k == CHOOSE j \in DOMAIN s : Is(j)
           r == RemoveAt(s, k)
<1>1. n \in Nat /\ DOMAIN s = 1 .. n
  OBVIOUS
<1>2. PICK m \in 1 .. n : s[m] = x
  BY InList
<1>3. Is(m)
  <2>1. ASSUME NEW i \in 1 .. m - 1 PROVE s[i] # x
    <3>1. i \in 1 .. n /\ i # m
      BY <1>1, <1>2
    <3> QED
      BY <1>1, <1>2, <3>1 DEF Once
  <2> QED
    BY <1>2, <2>1
<1>4. k \in 1 .. n /\ Is(k)
  <2> HIDE DEF Is
  <2> QED
    BY <1>1, <1>2, <1>3, Zenon
<1>5. removeKey(s, x) = r
  <2>1. isKeyExist(x, s)
    BY InList
  <2>2. getKeyPosition(x, s) = k
    BY Zenon DEF getKeyPosition
  <2> QED
    BY <2>1, <2>2, Zenon DEF removeKey
<1>6. s[k] = x
  BY <1>4
<1> HIDE DEF k
<1>7. /\ r \in Seq(T) /\ Len(r) = n - 1
      /\ \A i \in 1 .. n - 1 : r[i] = s[IF i < k THEN i ELSE i + 1]
  BY <1>4, TakenOut
<1> HIDE DEF r
<1>8. DOMAIN r = 1 .. n - 1
  BY <1>7
<1>9. ASSUME NEW i \in 1 .. n - 1, NEW j \in 1 .. n - 1, r[i] = r[j] PROVE i = j
  <2> DEFINE p == IF i < k THEN i ELSE i + 1
             q == IF j < k THEN j ELSE j + 1
  <2>1. p \in 1 .. n /\ q \in 1 .. n
    BY <1>1, <1>4
  <2>2. s[p] = s[q]
    BY <1>7, <1>9
  <2>3. p = q
    BY <1>1, <2>1, <2>2 DEF Once
  <2> QED
    BY <1>1, <1>4, <2>3
<1>10. ASSUME NEW y PROVE y \in ToSet(r) <=> y \in ToSet(s) \ {x}
  <2>1. ASSUME y \in ToSet(r) PROVE y \in ToSet(s) \ {x}
    <3>1. PICK i \in 1 .. n - 1 : r[i] = y
      BY <1>7, <2>1, InList
    <3> DEFINE p == IF i < k THEN i ELSE i + 1
    <3>2. p \in 1 .. n /\ p # k
      BY <1>1, <1>4
    <3>3. s[p] = y
      BY <1>7, <3>1
    <3>4. y # x
      BY <1>1, <1>4, <1>6, <3>2, <3>3 DEF Once
    <3>5. y \in ToSet(s)
      BY <3>2, <3>3, InList
    <3> QED
      BY <3>4, <3>5
  <2>2. ASSUME y \in ToSet(s), y # x PROVE y \in ToSet(r)
    <3>1. PICK i \in 1 .. n : s[i] = y
      BY <2>2, InList
    <3>2. i # k
      BY <1>6, <2>2, <3>1
    <3> DEFINE p == IF i < k THEN i ELSE i - 1
    <3>3. p \in 1 .. n - 1 /\ (IF p < k THEN p ELSE p + 1) = i
      BY <1>1, <1>4, <3>2
    <3>4. r[p] = s[i]
      BY <1>7, <3>3
    <3>5. \E j \in 1 .. Len(r) : r[j] = y
      BY <1>7, <3>1, <3>3, <3>4
    <3> QED
      BY <1>7, <3>5, InList
  <2> QED
    BY <2>1, <2>2
<1> QED
  BY <1>5, <1>7, <1>8, <1>9, <1>10 DEF Once

LEMMA KeyAdded ==
  ASSUME NEW T, NEW s \in Seq(T), Once(s), NEW x \in T, x \notin ToSet(s)
  PROVE  /\ s \o <<x>> \in Seq(T) /\ Once(s \o <<x>>)
         /\ ToSet(s \o <<x>>) = ToSet(s) \cup {x}
<1> DEFINE r == s \o <<x>>
           n == Len(s)
<1>1. n \in Nat /\ DOMAIN s = 1 .. n
  OBVIOUS
<1>2. /\ r \in Seq(T) /\ Len(r) = n + 1 /\ DOMAIN r = 1 .. n + 1
      /\ \A i \in 1 .. n : r[i] = s[i] /\ r[n + 1] = x
  BY <1>1
<1>3. r[n + 1] = x
  OBVIOUS
<1> HIDE DEF r
<1>4. \A i \in 1 .. n : s[i] # x
  BY InList
<1>5. Once(r)
  BY <1>1, <1>2, <1>3, <1>4 DEF Once
<1>6. ASSUME NEW y PROVE y \in ToSet(r) <=> y \in ToSet(s) \cup {x}
  <2>1. y \in ToSet(r) <=> \E i \in 1 .. n + 1 : r[i] = y
    BY <1>2, InList
  <2>2. y \in ToSet(s) <=> \E i \in 1 .. n : s[i] = y
    BY InList
  <2>3. ASSUME NEW i \in 1 .. n + 1 PROVE i \in 1 .. n \/ i = n + 1
    BY <1>1
  <2>4. ASSUME NEW i \in 1 .. n PROVE i \in 1 .. n + 1
    BY <1>1
  <2>5. n + 1 \in 1 .. n + 1
    BY <1>1
  <2> QED
    BY <1>2, <1>3, <2>1, <2>2, <2>3, <2>4, <2>5
<1> QED
  BY <1>2, <1>5, <1>6 DEF r


(* --------------------------- recursive functions -------------------------- *)

Steps(f, n, V, v, step) ==
  f \in [0 .. n -> V] /\ f[0] = v /\ \A k \in 1 .. n : f[k] = step[k][f[k - 1]]

\* A function that goes on from its value before exists.
LEMMA StepsExist ==
  ASSUME NEW n \in Nat, NEW V, NEW v \in V, NEW step \in [1 .. n -> [V -> V]]
  PROVE  \E f : Steps(f, n, V, v, step)
<1> DEFINE S == {j \in Nat : j <= n => \E f : Steps(f, j, V, v, step)}
<1>1. 0 \in S
  <2> DEFINE f == [k \in 0 .. 0 |-> v]
  <2>1. f \in [0 .. 0 -> V] /\ f[0] = v /\ 1 .. 0 = {}
    OBVIOUS
  <2> HIDE DEF f
  <2>2. Steps(f, 0, V, v, step)
    BY <2>1 DEF Steps
  <2> QED
    BY <2>2
<1>2. ASSUME NEW j \in Nat, j \in S PROVE j + 1 \in S
  <2> SUFFICES ASSUME j + 1 <= n PROVE \E f : Steps(f, j + 1, V, v, step)
    OBVIOUS
  <2>1. PICK f : Steps(f, j, V, v, step)
    BY <1>2
  <2> DEFINE g == [k \in 0 .. j + 1 |-> IF k = j + 1 THEN step[j + 1][f[j]] ELSE f[k]]
  <2>2. f \in [0 .. j -> V] /\ f[0] = v /\ \A k \in 1 .. j : f[k] = step[k][f[k - 1]]
    BY <2>1 DEF Steps
  <2>3. step[j + 1][f[j]] \in V
    <3>1. j + 1 \in 1 .. n /\ f[j] \in V
      BY <2>2
    <3>2. step[j + 1] \in [V -> V]
      BY <3>1
    <3> QED
      BY <3>1, <3>2
  <2>4. /\ g \in [0 .. j + 1 -> V] /\ g[j + 1] = step[j + 1][f[j]]
        /\ \A k \in 0 .. j : g[k] = f[k]
    BY <2>2, <2>3
  <2> HIDE DEF g
  <2>5. ASSUME NEW k \in 1 .. j + 1 PROVE g[k] = step[k][g[k - 1]]
    <3>1. k - 1 \in 0 .. j
      OBVIOUS
    <3>2. g[k - 1] = f[k - 1]
      BY <2>4, <3>1
    <3>3. CASE k = j + 1
      <4>1. k - 1 = j
        BY <3>3
      <4> QED
        BY <2>4, <3>2, <3>3, <4>1
    <3>4. CASE k \in 1 .. j
      <4>1. g[k] = f[k] /\ f[k] = step[k][f[k - 1]]
        BY <2>2, <2>4, <3>4
      <4> QED
        BY <3>2, <4>1
    <3> QED
      BY <3>3, <3>4
  <2>6. g[0] = v
    BY <2>2, <2>4
  <2>7. Steps(g, j + 1, V, v, step)
    BY <2>4, <2>5, <2>6 DEF Steps
  <2> QED
    BY <2>7
<1> HIDE DEF S
<1>3. n \in S
  BY <1>1, <1>2, NatInd
<1> QED
  BY <1>3 DEF S

\* The last key of a combination that is in the list is in it.
LEMMA LastKeyListed ==
  ASSUME NEW T, NEW combo \in Seq(T), NEW list \in Seq(T), isKeyComboExist(combo, list)
  PROVE  combo # <<>> /\ Last(combo) \in ToSet(list)
<1> DEFINE n == Len(list)
           m == Len(combo)
           Made(f) == f = [k \in 0 .. n |->
                             IF k = 0 THEN 0
                             ELSE IF f[k - 1] < m /\ combo[f[k - 1] + 1] = list[k]
                                  THEN f[k - 1] + 1
                                  ELSE f[k - 1]]
           f == CHOOSE x : Made(x)
<1>1. combo # <<>> /\ f[n] = m
  BY Zenon DEF isKeyComboExist
<1>2. n \in Nat /\ m \in Nat /\ m # 0 /\ Last(combo) = combo[m]
  BY <1>1 DEF Last
<1>3. \E g : Made(g)
  <2> DEFINE next(k, a) == IF a < m /\ combo[a + 1] = list[k] THEN a + 1 ELSE a
             step == [k \in 1 .. n |-> [a \in 0 .. m |-> next(k, a)]]
  <2>1. ASSUME NEW k, NEW a \in 0 .. m PROVE next(k, a) \in 0 .. m
    BY <1>2
  <2> HIDE DEF next
  <2>2. step \in [1 .. n -> [0 .. m -> 0 .. m]]
    BY <2>1
  <2>3. \A k \in 1 .. n, a \in 0 .. m : step[k][a] = next(k, a)
    OBVIOUS
  <2> HIDE DEF step, m, n
  <2>4. 0 \in 0 .. m
    BY <1>2
  <2>5. PICK g : Steps(g, n, 0 .. m, 0, step)
    BY <1>2, <2>2, <2>4, StepsExist
  <2>6. g \in [0 .. n -> 0 .. m] /\ g[0] = 0
    BY <2>5 DEF Steps
  <2>7. ASSUME NEW k \in 0 .. n, k # 0 PROVE g[k] = next(k, g[k - 1])
    <3>1. k \in 1 .. n /\ k - 1 \in 0 .. n
      BY <1>2, <2>7
    <3>2. g[k] = step[k][g[k - 1]]
      BY <2>5, <3>1 DEF Steps
    <3>3. g[k - 1] \in 0 .. m
      BY <2>6, <3>1
    <3> QED
      BY <2>3, <3>1, <3>2, <3>3
  <2>8. g = [k \in 0 .. n |-> IF k = 0 THEN 0 ELSE next(k, g[k - 1])]
    BY <2>6, <2>7
  <2>9. Made(g)
    BY <2>8, Zenon DEF next, m, n
  <2> QED
    BY <2>9
<1>4. Made(f)
  <2> HIDE DEF Made
  <2> QED
    BY <1>3, Zenon
<1> HIDE DEF f
<1>5. /\ f[0] = 0
      /\ \A k \in 1 .. n : f[k] = IF f[k - 1] < m /\ combo[f[k - 1] + 1] = list[k]
                                  THEN f[k - 1] + 1 ELSE f[k - 1]
  <2>1. 0 \in 0 .. n /\ \A k \in 1 .. n : k \in 0 .. n /\ k # 0
    BY <1>2
  <2> QED
    BY <1>4, <2>1, Zenon
<1> HIDE DEF Made
<1> DEFINE S == {k \in Nat : k <= n => /\ f[k] \in 0 .. m
                                       /\ f[k] # 0 => \E i \in 1 .. n : list[i] = combo[f[k]]}
<1>6. 0 \in S
  BY <1>2, <1>5
<1>7. ASSUME NEW k \in Nat, k \in S PROVE k + 1 \in S
  <2> SUFFICES ASSUME k + 1 <= n
               PROVE  /\ f[k + 1] \in 0 .. m
                      /\ f[k + 1] # 0 => \E i \in 1 .. n : list[i] = combo[f[k + 1]]
    OBVIOUS
  <2>1. k + 1 \in 1 .. n /\ (k + 1) - 1 = k /\ k <= n
    BY <1>2
  <2>2. f[k] \in 0 .. m /\ (f[k] # 0 => \E i \in 1 .. n : list[i] = combo[f[k]])
    BY <1>7, <2>1
  <2>3. f[k + 1] = IF f[k] < m /\ combo[f[k] + 1] = list[k + 1] THEN f[k] + 1 ELSE f[k]
    BY <1>5, <2>1
  <2> QED
    BY <1>2, <2>1, <2>2, <2>3
<1>8. n \in S
  <2> HIDE DEF S
  <2> QED
    BY <1>2, <1>6, <1>7, NatInd
<1>9. \E i \in 1 .. n : list[i] = combo[m]
  <2>1. f[n] # 0 => \E i \in 1 .. n : list[i] = combo[f[n]]
    BY <1>2, <1>8
  <2> QED
    BY <1>1, <1>2, <2>1
<1> QED
  BY <1>1, <1>2, <1>9, InList

(* ----------------------- hotkeys that are unregistered -------------------- *)

LEMMA RemovedAre ==
  ASSUME NEW T, NEW list \in Seq(T), NEW positions \in Seq(Nat)
  PROVE  /\ RemovePositions(list, positions) \in Seq(T)
         /\ ToSet(RemovePositions(list, positions)) \subseteq ToSet(list)
<1> DEFINE n == Len(positions)
           Made(f) == f = [k \in 0 .. n |->
                             IF k = 0 THEN list
                             ELSE IF positions[k] \in DOMAIN f[k - 1]
                                  THEN RemoveAt(f[k - 1], positions[k])
                                  ELSE f[k - 1]]
           f == CHOOSE x : Made(x)
           next(k, a) == IF positions[k] \in DOMAIN a THEN RemoveAt(a, positions[k]) ELSE a
           V == {a \in Seq(T) : ToSet(a) \subseteq ToSet(list)}
<1>1. RemovePositions(list, positions) = f[n]
  BY Zenon DEF RemovePositions
<1>2. n \in Nat /\ list \in V
  OBVIOUS
<1>3. ASSUME NEW k, NEW a \in V PROVE next(k, a) \in V
  <2>1. CASE positions[k] \in DOMAIN a
    <3> DEFINE p == positions[k]
               r == RemoveAt(a, p)
    <3>1. a \in Seq(T) /\ p \in 1 .. Len(a) /\ Len(a) \in Nat
      BY <2>1
    <3> HIDE DEF p
    <3>2. /\ r \in Seq(T) /\ Len(r) = Len(a) - 1
          /\ \A i \in 1 .. Len(a) - 1 : r[i] = a[IF i < p THEN i ELSE i + 1]
      BY <3>1, TakenOut
    <3> HIDE DEF r
    <3>3. ASSUME NEW x \in ToSet(r) PROVE x \in ToSet(a)
      <4>1. PICK i \in 1 .. Len(a) - 1 : r[i] = x
        BY <3>2, InList
      <4>2. (IF i < p THEN i ELSE i + 1) \in 1 .. Len(a)
        BY <3>1
      <4>3. a[IF i < p THEN i ELSE i + 1] = x
        BY <3>2, <4>1
      <4> QED
        BY <3>1, <4>2, <4>3, InList
    <3>4. r \in V
      BY <3>2, <3>3
    <3> QED
      BY <2>1, <3>4 DEF r, p
  <2>2. CASE positions[k] \notin DOMAIN a
    BY <2>2
  <2> QED
    BY <2>1, <2>2
<1>4. \E g : Made(g)
  <2> DEFINE step == [k \in 1 .. n |-> [a \in V |-> next(k, a)]]
  <2> HIDE DEF V, next
  <2>2. step \in [1 .. n -> [V -> V]]
    BY <1>3
  <2>3. \A k \in 1 .. n, a \in V : step[k][a] = next(k, a)
    OBVIOUS
  <2> HIDE DEF step, n
  <2>5. PICK g : Steps(g, n, V, list, step)
    BY <1>2, <2>2, StepsExist
  <2>6. g \in [0 .. n -> V] /\ g[0] = list
    BY <2>5 DEF Steps
  <2>7. ASSUME NEW k \in 0 .. n, k # 0 PROVE g[k] = next(k, g[k - 1])
    <3>1. k \in 1 .. n /\ k - 1 \in 0 .. n
      BY <1>2, <2>7
    <3>2. g[k] = step[k][g[k - 1]]
      BY <2>5, <3>1 DEF Steps
    <3>3. g[k - 1] \in V
      BY <2>6, <3>1
    <3> QED
      BY <2>3, <3>1, <3>2, <3>3
  <2>8. g = [k \in 0 .. n |-> IF k = 0 THEN list ELSE next(k, g[k - 1])]
    BY <2>6, <2>7
  <2>9. Made(g)
    BY <2>8, Zenon DEF next, n
  <2> QED
    BY <2>9
<1>5. Made(f)
  <2> HIDE DEF Made
  <2> QED
    BY <1>4, Zenon
<1> HIDE DEF f
<1>6. f[0] = list /\ \A k \in 1 .. n : f[k] = next(k, f[k - 1])
  <2>1. 0 \in 0 .. n /\ \A k \in 1 .. n : k \in 0 .. n /\ k # 0
    BY <1>2
  <2> QED
    BY <1>5, <2>1, Zenon
<1> HIDE DEF Made, next, n
<1> DEFINE S == {k \in Nat : k <= n => f[k] \in V}
<1>7. 0 \in S
  BY <1>2, <1>6
<1>8. ASSUME NEW k \in Nat, k \in S PROVE k + 1 \in S
  <2> SUFFICES ASSUME k + 1 <= n PROVE f[k + 1] \in V
    OBVIOUS
  <2> HIDE DEF V
  <2>1. k + 1 \in 1 .. n /\ (k + 1) - 1 = k /\ k <= n
    BY <1>2
  <2>2. f[k] \in V /\ f[k + 1] = next(k + 1, f[k])
    BY <1>6, <1>8, <2>1
  <2> QED
    BY <1>3, <2>2
<1>9. n \in S
  <2> HIDE DEF S
  <2> QED
    BY <1>2, <1>7, <1>8, NatInd
<1>10. f[n] \in V
  BY <1>2, <1>9
<1> QED
  BY <1>1, <1>10 DEF n


LEMMA PositionsAre ==
  ASSUME NEW T, tHotKeys \in Seq(T), NEW hotkeys
  PROVE  idsToRemove(hotkeys) \in Seq(Nat)
<1> DEFINE n == Len(tHotKeys)
           next(k, a) == IF tHotKeys[k] \in hotkeys THEN Append(a, k) ELSE a
           Made(f) == f = [k \in 0 .. n |->
                             IF k = 0 THEN <<>>
                             ELSE IF tHotKeys[k] \in hotkeys THEN Append(f[k - 1], k) ELSE f[k - 1]]
           f == CHOOSE x : Made(x)
           V == Seq(Nat)
<1>1. idsToRemove(hotkeys) = f[n]
  BY Zenon DEF idsToRemove
<1>2. n \in Nat /\ <<>> \in V
  OBVIOUS
<1>3. ASSUME NEW k \in 1 .. n, NEW a \in V PROVE next(k, a) \in V
  BY <1>2
<1>4. \E g : Made(g)
  <2> DEFINE step == [k \in 1 .. n |-> [a \in V |-> next(k, a)]]
  <2> HIDE DEF V, next
  <2>2. step \in [1 .. n -> [V -> V]]
    BY <1>3
  <2>3. \A k \in 1 .. n, a \in V : step[k][a] = next(k, a)
    OBVIOUS
  <2> HIDE DEF step, n
  <2>5. PICK g : Steps(g, n, V, <<>>, step)
    BY <1>2, <2>2, StepsExist
  <2>6. g \in [0 .. n -> V] /\ g[0] = <<>>
    BY <2>5 DEF Steps
  <2>7. ASSUME NEW k \in 0 .. n, k # 0 PROVE g[k] = next(k, g[k - 1])
    <3>1. k \in 1 .. n /\ k - 1 \in 0 .. n
      BY <1>2, <2>7
    <3>2. g[k] = step[k][g[k - 1]]
      BY <2>5, <3>1 DEF Steps
    <3>3. g[k - 1] \in V
      BY <2>6, <3>1
    <3> QED
      BY <2>3, <3>1, <3>2, <3>3
  <2>8. g = [k \in 0 .. n |-> IF k = 0 THEN <<>> ELSE next(k, g[k - 1])]
    BY <2>6, <2>7
  <2>9. Made(g)
    BY <2>8, Zenon DEF next, n
  <2> QED
    BY <2>9
<1>5. Made(f)
  <2> HIDE DEF Made
  <2> QED
    BY <1>4, Zenon
<1> HIDE DEF f
<1>6. f[0] = <<>> /\ \A k \in 1 .. n : f[k] = next(k, f[k - 1])
  <2>1. 0 \in 0 .. n /\ \A k \in 1 .. n : k \in 0 .. n /\ k # 0
    BY <1>2
  <2> QED
    BY <1>5, <2>1, Zenon
<1> HIDE DEF Made, next, n
<1> DEFINE S == {k \in Nat : k <= n => f[k] \in V}
<1>7. 0 \in S
  BY <1>2, <1>6
<1>8. ASSUME NEW k \in Nat, k \in S PROVE k + 1 \in S
  <2> SUFFICES ASSUME k + 1 <= n PROVE f[k + 1] \in V
    OBVIOUS
  <2> HIDE DEF V
  <2>1. k + 1 \in 1 .. n /\ (k + 1) - 1 = k /\ k <= n
    BY <1>2
  <2>2. f[k] \in V /\ f[k + 1] = next(k + 1, f[k])
    BY <1>6, <1>8, <2>1
  <2> QED
    BY <1>3, <2>1, <2>2
<1>9. n \in S
  <2> HIDE DEF S
  <2> QED
    BY <1>2, <1>7, <1>8, NatInd
<1> QED
  BY <1>1, <1>2, <1>9 DEF n

(* ------------------------------ the invariant ----------------------------- *)

KeysAsMeant == RkeysAssumption /\ OneOfEachModifier

HotKeyRecords == [id : Nat, keys : Combos, aType : ATypes, isBlock : Blocks]

\* Different hotkeys have different ids, up to the last one given.
Registry(hot, id) ==
  /\ hot \in Seq(HotKeyRecords) /\ id \in Nat
  /\ \A v \in ToSet(hot) : v.id \in 1 .. id
  /\ \A v, w \in ToSet(hot) : v.id = w.id => v = w

\* Keys with their modifiers.
Shown(watched) == watched \cup {wparam(key) : key \in watched}

Listing(list, watched) == list \in Seq(Keys) /\ Once(list) /\ ToSet(list) = Shown(watched)

\* Active ids, those of them that fired and are held, and those that are held now.
Acting(hot, id, act, old, hold, list) ==
  /\ act \subseteq 1 .. id /\ hold \subseteq act
  /\ \A v \in ToSet(hot) : v.id \in hold => v.aType = 1
  /\ \A v \in ToSet(hot) : v.id \in act \ old => isKeyComboExist(v.keys, list)

KeysInv ==
  /\ Registry(tHotKeys, hkId)
  /\ down \subseteq Physical /\ unseen \subseteq down /\ focus \in BOOLEAN
  /\ Listing(tCurKeys, down \ unseen)
  /\ ~ focus => tCurKeys = <<>>
  /\ Acting(tHotKeys, hkId, tActKeys, stale, holding, tCurKeys)

LEMMA KeysInvMeans == ASSUME KeysInv PROVE KeysHeld
<1>1. Registry(tHotKeys, hkId) /\ Listing(tCurKeys, down \ unseen)
  BY DEF KeysInv
<1>2. down \subseteq Physical /\ Acting(tHotKeys, hkId, tActKeys, stale, holding, tCurKeys)
  BY DEF KeysInv
<1>3. KeysTypeOK
  <2>1. ASSUME NEW v \in HotKeys PROVE v.id \in 1 .. hkId /\ v.keys \in Combos
    <3>1. tHotKeys \in Seq(HotKeyRecords)
      BY <1>1 DEF Registry
    <3>2. v \in HotKeyRecords
      BY <3>1, InList DEF HotKeys
    <3> QED
      BY <1>1, <3>2 DEF Registry, HotKeys, HotKeyRecords
  <2> QED
    BY <1>2, <2>1 DEF KeysTypeOK, Acting
<1>4. PressedListed
  BY <1>1, Zenon DEF PressedListed, Listing, Once, Shown
<1>5. ActiveHeld
  BY <1>2 DEF ActiveHeld, Acting, HotKeys
<1> QED
  BY <1>3, <1>4, <1>5 DEF KeysHeld

LEMMA KeysInvInit == ASSUME KeysInit PROVE KeysInv
<1>1. /\ tCurKeys = <<>> /\ tHotKeys = <<>> /\ tActKeys = {} /\ hkId = 0 /\ down = {}
      /\ focus = TRUE /\ unseen = {} /\ stale = {} /\ holding = {}
  BY DEF KeysInit
<1>2. ToSet(<<>>) = {}
  BY DEF ToSet
<1>3. <<>> \in Seq(HotKeyRecords) /\ <<>> \in Seq(Keys) /\ DOMAIN <<>> = {}
  OBVIOUS
<1>4. Registry(<<>>, 0)
  BY <1>2, <1>3 DEF Registry
<1>5. Shown({}) = {}
  BY DEF Shown
<1>6. Listing(<<>>, {})
  BY <1>2, <1>3, <1>5 DEF Listing, Once
<1>7. Acting(<<>>, 0, {}, {}, {}, <<>>)
  BY <1>2 DEF Acting
<1>8. {} \ {} = {}
  OBVIOUS
<1> QED
  BY <1>1, <1>4, <1>6, <1>7, <1>8 DEF KeysInv

(* ------------------------------- messages --------------------------------- *)

LEMMA KeyConstants ==
  ASSUME KeysAsMeant
  PROVE  /\ VK_CONTROL \notin Physical /\ CtrlKeys \subseteq Physical /\ none \notin Physical
         /\ \A k \in Physical : /\ k \in CtrlKeys => wparam(k) = VK_CONTROL /\ exKey(k) = <<k>>
                                /\ k \notin CtrlKeys => wparam(k) = k /\ exKey(k) = <<>>
                                /\ wparam(k) \in Keys
<1>1. VK_CONTROL \notin Physical /\ CtrlKeys \subseteq Physical /\ none \notin Physical
  BY DEF KeysAsMeant, RkeysAssumption, Physical, tModKeysList
<1>2. ASSUME NEW k \in Physical
      PROVE  /\ k \in CtrlKeys => wparam(k) = VK_CONTROL /\ exKey(k) = <<k>>
             /\ k \notin CtrlKeys => wparam(k) = k /\ exKey(k) = <<>>
             /\ wparam(k) \in Keys
  BY Zenon DEF wparam, exKey, Keys
<1> QED
  BY <1>1, <1>2

LEMMA ShownIs ==
  ASSUME KeysAsMeant, NEW watched \in SUBSET Physical, NEW k \in Physical
  PROVE  /\ Shown(watched \cup {k}) = Shown(watched) \cup {wparam(k), k}
         /\ Shown(watched \ {k}) = Shown(watched) \ {wparam(k), k}
         /\ wparam(k) \in Shown(watched) <=> k \in watched
         /\ k \in Shown(watched) <=> k \in watched
<1>1. \A l \in Physical : /\ l \in CtrlKeys => wparam(l) = VK_CONTROL
                          /\ l \notin CtrlKeys => wparam(l) = l
  BY KeyConstants
<1>2. VK_CONTROL \notin Physical /\ \A i, l \in CtrlKeys : i = l
  BY KeyConstants DEF KeysAsMeant, OneOfEachModifier
<1>3. ASSUME NEW l \in Physical PROVE wparam(l) = wparam(k) => l = k
  BY <1>1, <1>2
<1>4. ASSUME NEW l \in Physical PROVE wparam(l) = k => l = k
  BY <1>1, <1>2
<1>5. ASSUME NEW l \in Physical PROVE l = wparam(k) => l = k
  BY <1>1, <1>2
<1>6. Shown(watched \cup {k}) = Shown(watched) \cup {wparam(k), k}
  BY DEF Shown
<1>7. Shown(watched \ {k}) = Shown(watched) \ {wparam(k), k}
  BY <1>3, <1>4, <1>5 DEF Shown
<1>8. wparam(k) \in Shown(watched) <=> k \in watched
  BY <1>3, <1>5 DEF Shown
<1>9. k \in Shown(watched) <=> k \in watched
  BY <1>4 DEF Shown
<1> QED
  BY <1>6, <1>7, <1>8, <1>9

LEMMA AfterDownIs ==
  ASSUME KeysAsMeant, NEW watched \in SUBSET Physical, Listing(tCurKeys, watched),
         NEW k \in Physical, k \notin watched
  PROVE  Listing(AfterDown(k, 0), watched \cup {k})
<1>1. tCurKeys \in Seq(Keys) /\ Once(tCurKeys) /\ ToSet(tCurKeys) = Shown(watched)
  BY DEF Listing
<1>2. wparam(k) \notin ToSet(tCurKeys) /\ k \notin ToSet(tCurKeys)
  <2>1. wparam(k) \notin Shown(watched) /\ k \notin Shown(watched)
    BY ShownIs
  <2> QED
    BY <1>1, <2>1
<1>3. ~ isKeyExist(wparam(k), tCurKeys)
  BY <1>1, <1>2, InList
<1>4. AfterDown(k, 0) = (tCurKeys \o <<wparam(k)>>) \o exKey(k)
  <2>1. ~ (0 = 1)
    OBVIOUS
  <2> QED
    BY <1>3, <2>1, Zenon DEF AfterDown
<1> DEFINE s == tCurKeys \o <<wparam(k)>>
           w == wparam(k)
<1>5. w \in Keys /\ k \in Keys
  BY KeyConstants DEF Keys
<1>6. s \in Seq(Keys) /\ Once(s) /\ ToSet(s) = ToSet(tCurKeys) \cup {w}
  BY <1>1, <1>2, <1>5, KeyAdded
<1> HIDE DEF s
<1>7. Shown(watched \cup {k}) = Shown(watched) \cup {w, k}
  BY ShownIs
<1>8. CASE k \in CtrlKeys
  <2>1. w = VK_CONTROL /\ exKey(k) = <<k>> /\ w # k
    BY <1>8, KeyConstants
  <2>2. k \notin ToSet(s)
    BY <1>2, <1>6, <2>1
  <2> DEFINE t == s \o <<k>>
  <2>3. t \in Seq(Keys) /\ Once(t) /\ ToSet(t) = ToSet(s) \cup {k}
    BY <1>5, <1>6, <2>2, KeyAdded
  <2>4. AfterDown(k, 0) = t
    BY <1>4, <2>1 DEF s
  <2> HIDE DEF t
  <2>5. ToSet(t) = Shown(watched \cup {k})
    BY <1>1, <1>6, <1>7, <2>3
  <2> QED
    BY <2>3, <2>4, <2>5 DEF Listing
<1>9. CASE k \notin CtrlKeys
  <2>1. w = k /\ exKey(k) = <<>>
    BY <1>9, KeyConstants
  <2>2. s \o <<>> = s
    BY <1>6
  <2>3. AfterDown(k, 0) = s
    BY <1>4, <2>1, <2>2 DEF s
  <2>4. ToSet(s) = Shown(watched \cup {k})
    BY <1>1, <1>6, <1>7, <2>1
  <2> QED
    BY <1>6, <2>3, <2>4 DEF Listing
<1> QED
  BY <1>8, <1>9

LEMMA AfterUpIs ==
  ASSUME KeysAsMeant, NEW watched \in SUBSET Physical, Listing(tCurKeys, watched), NEW k \in Physical
  PROVE  Listing(AfterUp(k), watched \ {k})
<1> DEFINE w == wparam(k)
<1>1. tCurKeys \in Seq(Keys) /\ Once(tCurKeys) /\ ToSet(tCurKeys) = Shown(watched)
  BY DEF Listing
<1>2. isKeyExist(w, tCurKeys) <=> k \in watched
  <2>1. w \in Shown(watched) <=> k \in watched
    BY ShownIs
  <2>2. isKeyExist(w, tCurKeys) <=> w \in ToSet(tCurKeys)
    BY <1>1, InList
  <2> QED
    BY <1>1, <2>1, <2>2
<1>3. Shown(watched \ {k}) = Shown(watched) \ {w, k}
  BY ShownIs
<1>4. CASE k \notin watched
  <2>1. AfterUp(k) = tCurKeys
    BY <1>2, <1>4, Zenon DEF AfterUp
  <2>2. watched \ {k} = watched
    BY <1>4
  <2> QED
    BY <2>1, <2>2
<1>5. CASE k \in watched
  <2> DEFINE s == removeKey(tCurKeys, w)
  <2>1. w \in ToSet(tCurKeys) /\ k \in ToSet(tCurKeys)
    <3>1. w \in Shown(watched) /\ k \in Shown(watched)
      BY <1>5, ShownIs
    <3> QED
      BY <1>1, <3>1
  <2>2. s \in Seq(Keys) /\ Once(s) /\ ToSet(s) = ToSet(tCurKeys) \ {w}
    BY <1>1, <2>1, KeyRemoved
  <2>3. CASE k \in CtrlKeys
    <3> DEFINE t == removeKey(s, k)
    <3>1. w # k
      BY <2>3, KeyConstants
    <3>2. AfterUp(k) = t
      BY <1>2, <1>5, <2>3, Zenon DEF AfterUp
    <3> HIDE DEF s
    <3>3. k \in ToSet(s)
      BY <2>1, <2>2, <3>1
    <3>4. t \in Seq(Keys) /\ Once(t) /\ ToSet(t) = ToSet(s) \ {k}
      BY <2>2, <3>3, KeyRemoved
    <3> HIDE DEF t
    <3>5. ToSet(t) = Shown(watched \ {k})
      BY <1>1, <1>3, <2>2, <3>4
    <3> QED
      BY <3>2, <3>4, <3>5 DEF Listing
  <2>4. CASE k \notin CtrlKeys
    <3>1. AfterUp(k) = s
      BY <1>2, <1>5, <2>4, Zenon DEF AfterUp
    <3>2. w = k
      BY <2>4, KeyConstants
    <3> HIDE DEF s
    <3>3. ToSet(s) = Shown(watched \ {k})
      BY <1>1, <1>3, <2>2, <3>2
    <3> QED
      BY <2>2, <3>1, <3>3 DEF Listing
  <2> QED
    BY <2>3, <2>4
<1> QED
  BY <1>4, <1>5

\* What is left after a message is held.
LEMMA MessageActs ==
  ASSUME Registry(tHotKeys, hkId), NEW act \in SUBSET (1 .. hkId), NEW h \in SUBSET act,
         \A v \in HotKeys : v.id \in h => v.aType = 1, NEW list
  PROVE  Acting(tHotKeys, hkId, StillActive(act, list), {}, StillHolding(h, list), list)
<1> DEFINE Gone == {v \in HotKeys : v.aType = 2 \/ ~ isKeyComboExist(v.keys, list)}
           Loose == {v \in HotKeys : ~ isKeyComboExist(v.keys, list)}
<1>1. /\ StillActive(act, list) = act \ IdsOf(Gone)
      /\ StillHolding(h, list) = h \ IdsOf(Loose)
  BY DEF StillActive, StillHolding
<1>2. \A i : i \in IdsOf(Gone) <=> \E v \in HotKeys : v.id = i /\ (v.aType = 2 \/ ~ isKeyComboExist(v.keys, list))
  BY DEF IdsOf
<1>3. \A i : i \in IdsOf(Loose) <=> \E v \in HotKeys : v.id = i /\ ~ isKeyComboExist(v.keys, list)
  BY DEF IdsOf
<1> HIDE DEF Gone, Loose
<1>4. ASSUME NEW i \in h \ IdsOf(Loose) PROVE i \in act \ IdsOf(Gone)
  <2>1. ASSUME i \in IdsOf(Gone) PROVE FALSE
    <3>1. PICK v \in HotKeys : v.id = i /\ (v.aType = 2 \/ ~ isKeyComboExist(v.keys, list))
      BY <1>2, <2>1
    <3>2. v.aType = 1
      BY <1>4, <3>1
    <3>3. i \in IdsOf(Loose)
      BY <1>3, <3>1, <3>2
    <3> QED
      BY <1>4, <3>3
  <2> QED
    BY <1>4, <2>1
<1>5. ASSUME NEW v \in HotKeys, v.id \in act \ IdsOf(Gone) PROVE isKeyComboExist(v.keys, list)
  BY <1>2, <1>5
<1> QED
  BY <1>1, <1>4, <1>5 DEF Acting, HotKeys


\* The hotkeys that a message fires, and those of them that are of type 1.
LEMMA IdsAre ==
  ASSUME Registry(tHotKeys, hkId), NEW S \in SUBSET HotKeys
  PROVE  /\ IdsOf(S) \subseteq 1 .. hkId
         /\ \A v \in HotKeys : v.id \in IdsOf(S) => v \in S
<1>1. \A v \in HotKeys : v.id \in 1 .. hkId
  BY DEF Registry, HotKeys
<1>2. \A v, w \in HotKeys : v.id = w.id => v = w
  BY DEF Registry, HotKeys
<1> QED
  BY <1>1, <1>2 DEF IdsOf

LEMMA DownActs ==
  ASSUME KeysInv, NEW key, NEW keystate, DownMessage(key, keystate)
  PROVE  /\ tCurKeys' = AfterDown(key, keystate) /\ focus' = focus /\ pressed' = key
         /\ Registry(tHotKeys', hkId')
         /\ Acting(tHotKeys', hkId', tActKeys', stale', holding', tCurKeys')
         /\ \A v \in HotKeys : v.id \in fired' <=> Fires(v, keystate, tCurKeys')
<1> DEFINE list == AfterDown(key, keystate)
           Hits == {v \in HotKeys : Fires(v, keystate, list)}
           fires == IdsOf(Hits)
           Firsts == {v \in HotKeys : v.id \in fires /\ v.aType = 1}
           act == tActKeys \cup fires
           h == holding \cup IdsOf(Firsts)
<1>1. /\ Registry(tHotKeys, hkId)
      /\ Acting(tHotKeys, hkId, tActKeys, stale, holding, tCurKeys)
  BY DEF KeysInv
<1>2. /\ tCurKeys' = list /\ fired' = fires /\ tActKeys' = StillActive(act, list)
      /\ pressed' = key /\ stale' = {} /\ holding' = StillHolding(h, list)
      /\ tHotKeys' = tHotKeys /\ hkId' = hkId /\ focus' = focus
  BY DEF DownMessage
<1>3. /\ Hits \subseteq HotKeys /\ Firsts \subseteq HotKeys
      /\ \A v \in HotKeys : v \in Hits <=> Fires(v, keystate, list)
      /\ \A v \in HotKeys : v \in Firsts <=> (v.id \in fires /\ v.aType = 1)
  OBVIOUS
<1>4. \A i : i \in IdsOf(Firsts) => i \in fires
  BY <1>3 DEF IdsOf
<1>5. \A v \in HotKeys : v \in Hits => v.id \in fires
  BY DEF IdsOf
<1> HIDE DEF Hits, Firsts, list
<1>6. fires \subseteq 1 .. hkId /\ \A v \in HotKeys : v.id \in fires => v \in Hits
  BY <1>1, <1>3, IdsAre
<1>7. \A v \in HotKeys : v.id \in IdsOf(Firsts) => v \in Firsts
  BY <1>1, <1>3, IdsAre
<1> HIDE DEF fires
<1>8. tActKeys \subseteq 1 .. hkId /\ holding \subseteq tActKeys /\ \A v \in HotKeys : v.id \in holding => v.aType = 1
  BY <1>1 DEF Acting, HotKeys
<1>9. act \subseteq 1 .. hkId /\ h \subseteq act /\ \A v \in HotKeys : v.id \in h => v.aType = 1
  BY <1>3, <1>4, <1>6, <1>7, <1>8
<1> HIDE DEF act, h
<1>10. Acting(tHotKeys, hkId, StillActive(act, list), {}, StillHolding(h, list), list)
  BY <1>1, <1>9, MessageActs
<1>11. \A v \in HotKeys : v.id \in fired' <=> Fires(v, keystate, tCurKeys')
  <2>1. ASSUME NEW v \in HotKeys PROVE v.id \in fires <=> Fires(v, keystate, list)
    BY <1>3, <1>5, <1>6
  <2> QED
    BY <1>2, <2>1
<1> QED
  BY <1>1, <1>2, <1>10, <1>11 DEF list

LEMMA UpActs ==
  ASSUME KeysInv, NEW key, NEW keystate, UpMessage(key, keystate)
  PROVE  /\ tCurKeys' = AfterUp(key) /\ focus' = focus /\ pressed' = none
         /\ Registry(tHotKeys', hkId')
         /\ Acting(tHotKeys', hkId', tActKeys', stale', holding', tCurKeys')
         /\ \A v \in HotKeys : v.id \in fired' => v.aType = 3
<1> DEFINE list == AfterUp(key)
           Hits == {v \in HotKeys : /\ v.aType = 3 /\ keystate = 1
                                    /\ isKeyComboExist(v.keys, tCurKeys)}
<1>1. /\ Registry(tHotKeys, hkId)
      /\ Acting(tHotKeys, hkId, tActKeys, stale, holding, tCurKeys)
  BY DEF KeysInv
<1>2. /\ tCurKeys' = list /\ fired' = IdsOf(Hits) /\ tActKeys' = StillActive(tActKeys, list)
      /\ pressed' = none /\ stale' = {} /\ holding' = StillHolding(holding, list)
      /\ tHotKeys' = tHotKeys /\ hkId' = hkId /\ focus' = focus
  BY DEF UpMessage
<1>3. Hits \subseteq HotKeys /\ \A v \in Hits : v.aType = 3
  OBVIOUS
<1> HIDE DEF Hits, list
<1>4. tActKeys \subseteq 1 .. hkId /\ holding \subseteq tActKeys /\ \A v \in HotKeys : v.id \in holding => v.aType = 1
  BY <1>1 DEF Acting, HotKeys
<1>5. Acting(tHotKeys, hkId, StillActive(tActKeys, list), {}, StillHolding(holding, list), list)
  BY <1>1, <1>4, MessageActs
<1>6. \A v \in HotKeys : v.id \in fired' => v.aType = 3
  BY <1>1, <1>2, <1>3, IdsAre
<1> QED
  BY <1>1, <1>2, <1>5, <1>6 DEF list

LEMMA PressInv == ASSUME KeysAsMeant, KeysInv, NEW k \in Physical, Press(k) PROVE KeysInv'
<1>1. /\ down \subseteq Physical /\ unseen \subseteq down /\ focus \in BOOLEAN
      /\ Listing(tCurKeys, down \ unseen) /\ (~ focus => tCurKeys = <<>>)
      /\ Registry(tHotKeys, hkId) /\ Acting(tHotKeys, hkId, tActKeys, stale, holding, tCurKeys)
  BY DEF KeysInv
<1>2. k \notin down /\ down' = down \cup {k}
  BY DEF Press
<1>3. CASE focus /\ DownMessage(k, 0) /\ unseen' = unseen
  <2>1. /\ tCurKeys' = AfterDown(k, 0) /\ focus' = focus /\ Registry(tHotKeys', hkId')
        /\ Acting(tHotKeys', hkId', tActKeys', stale', holding', tCurKeys')
    BY <1>3, DownActs
  <2>2. Listing(AfterDown(k, 0), (down \ unseen) \cup {k})
    BY <1>1, <1>2, AfterDownIs
  <2>3. down' \ unseen' = (down \ unseen) \cup {k}
    BY <1>1, <1>2, <1>3
  <2>4. Listing(tCurKeys', down' \ unseen')
    BY <2>1, <2>2, <2>3
  <2> QED
    BY <1>1, <1>2, <1>3, <2>1, <2>4 DEF KeysInv
<1>4. CASE ~ focus /\ Unnoticed /\ unseen' = unseen \cup {k}
  <2>1. /\ tCurKeys' = tCurKeys /\ tHotKeys' = tHotKeys /\ tActKeys' = tActKeys /\ hkId' = hkId
        /\ focus' = focus /\ stale' = stale /\ holding' = holding
    BY <1>4 DEF Unnoticed
  <2>2. down' \ unseen' = down \ unseen
    BY <1>2, <1>4
  <2>3. down' \subseteq Physical /\ unseen' \subseteq down'
    BY <1>1, <1>2, <1>4
  <2> QED
    BY <1>1, <2>1, <2>2, <2>3 DEF KeysInv
<1> QED
  BY <1>3, <1>4 DEF Press

LEMMA RepeatInv == ASSUME KeysInv, NEW k \in Physical, Repeat(k) PROVE KeysInv'
<1>1. /\ down \subseteq Physical /\ unseen \subseteq down /\ focus \in BOOLEAN
      /\ Listing(tCurKeys, down \ unseen) /\ (~ focus => tCurKeys = <<>>)
  BY DEF KeysInv
<1>2. focus /\ DownMessage(k, 1) /\ down' = down /\ unseen' = unseen
  BY DEF Repeat
<1>3. /\ tCurKeys' = AfterDown(k, 1) /\ focus' = focus /\ Registry(tHotKeys', hkId')
      /\ Acting(tHotKeys', hkId', tActKeys', stale', holding', tCurKeys')
  BY <1>2, DownActs
<1>4. AfterDown(k, 1) = tCurKeys
  BY Zenon DEF AfterDown
<1> QED
  BY <1>1, <1>2, <1>3, <1>4 DEF KeysInv

LEMMA ReleaseInv == ASSUME KeysAsMeant, KeysInv, NEW k \in Physical, Release(k) PROVE KeysInv'
<1>1. /\ down \subseteq Physical /\ unseen \subseteq down /\ focus \in BOOLEAN
      /\ Listing(tCurKeys, down \ unseen) /\ (~ focus => tCurKeys = <<>>)
      /\ Registry(tHotKeys, hkId) /\ Acting(tHotKeys, hkId, tActKeys, stale, holding, tCurKeys)
  BY DEF KeysInv
<1>2. k \in down /\ down' = down \ {k} /\ unseen' = unseen \ {k}
  BY DEF Release
<1>3. Listing(AfterUp(k), (down \ unseen) \ {k})
  BY <1>1, AfterUpIs
<1>4. down' \ unseen' = (down \ unseen) \ {k} /\ down' \subseteq Physical /\ unseen' \subseteq down'
  BY <1>1, <1>2
<1>5. CASE focus /\ UpMessage(k, Bit30(k))
  <2>1. /\ tCurKeys' = AfterUp(k) /\ focus' = focus /\ Registry(tHotKeys', hkId')
        /\ Acting(tHotKeys', hkId', tActKeys', stale', holding', tCurKeys')
    BY <1>5, UpActs
  <2>2. Listing(tCurKeys', down' \ unseen')
    BY <1>3, <1>4, <2>1
  <2> QED
    BY <1>1, <1>4, <1>5, <2>1, <2>2 DEF KeysInv
<1>6. CASE ~ focus /\ Unnoticed
  <2>1. /\ tCurKeys' = tCurKeys /\ tHotKeys' = tHotKeys /\ tActKeys' = tActKeys /\ hkId' = hkId
        /\ focus' = focus /\ stale' = stale /\ holding' = holding
    BY <1>6 DEF Unnoticed
  <2>2. AfterUp(k) = tCurKeys
    <3>1. tCurKeys = <<>> /\ <<>> \in Seq(Keys)
      BY <1>1, <1>6
    <3>2. ~ isKeyExist(wparam(k), tCurKeys)
      BY <3>1 DEF isKeyExist, Contains
    <3> QED
      BY <3>2, Zenon DEF AfterUp
  <2>3. Listing(tCurKeys', down' \ unseen')
    BY <1>3, <1>4, <2>1, <2>2
  <2> QED
    BY <1>1, <1>4, <2>1, <2>3 DEF KeysInv
<1> QED
  BY <1>5, <1>6 DEF Release

LEMMA FocusInv == ASSUME KeysInv, KillFocus \/ SetFocus PROVE KeysInv'
<1>1. /\ down \subseteq Physical /\ unseen \subseteq down /\ focus \in BOOLEAN
      /\ Listing(tCurKeys, down \ unseen) /\ (~ focus => tCurKeys = <<>>)
      /\ Registry(tHotKeys, hkId) /\ Acting(tHotKeys, hkId, tActKeys, stale, holding, tCurKeys)
  BY DEF KeysInv
<1>2. CASE KillFocus
  <2>1. /\ focus' = FALSE /\ tCurKeys' = <<>> /\ unseen' = down /\ stale' = tActKeys /\ holding' = {}
        /\ tHotKeys' = tHotKeys /\ tActKeys' = tActKeys /\ hkId' = hkId /\ down' = down
    BY <1>2 DEF KillFocus
  <2>2. Listing(<<>>, {})
    <3>1. ToSet(<<>>) = {} /\ Shown({}) = {}
      BY DEF ToSet, Shown
    <3>2. <<>> \in Seq(Keys) /\ DOMAIN <<>> = {}
      OBVIOUS
    <3> QED
      BY <3>1, <3>2 DEF Listing, Once
  <2>3. down' \ unseen' = {}
    BY <2>1
  <2>4. Acting(tHotKeys, hkId, tActKeys, tActKeys, {}, <<>>)
    BY <1>1 DEF Acting
  <2>5. Listing(tCurKeys', down' \ unseen')
    BY <2>1, <2>2, <2>3
  <2> QED
    BY <1>1, <2>1, <2>4, <2>5 DEF KeysInv
<1>3. CASE SetFocus
  <2>1. /\ focus' = TRUE /\ tCurKeys' = tCurKeys /\ unseen' = unseen /\ stale' = stale /\ holding' = holding
        /\ tHotKeys' = tHotKeys /\ tActKeys' = tActKeys /\ hkId' = hkId /\ down' = down
    BY <1>3 DEF SetFocus
  <2> QED
    BY <1>1, <2>1 DEF KeysInv
<1> QED
  BY <1>2, <1>3

(* ------------------------------- the registry ----------------------------- *)

LEMMA RegisterInv ==
  ASSUME KeysInv, NEW keys \in Combos, NEW aType \in ATypes, NEW isBlock \in Blocks,
         registerHotKey(keys, aType, isBlock)
  PROVE  KeysInv'
<1> DEFINE added == [id |-> hkId + 1, keys |-> keys, aType |-> aType, isBlock |-> isBlock]
           hot == Append(tHotKeys, added)
<1>1. /\ Registry(tHotKeys, hkId)
      /\ Acting(tHotKeys, hkId, tActKeys, stale, holding, tCurKeys)
  BY DEF KeysInv
<1>2. tHotKeys' = hot /\ hkId' = hkId + 1
  BY DEF registerHotKey
<1>3. /\ tCurKeys' = tCurKeys /\ tActKeys' = tActKeys /\ down' = down /\ focus' = focus
      /\ unseen' = unseen /\ stale' = stale /\ holding' = holding
  BY DEF registerHotKey
<1>4. tHotKeys \in Seq(HotKeyRecords) /\ hkId \in Nat
  BY <1>1 DEF Registry
<1>5. added \in HotKeyRecords /\ added.id = hkId + 1
  BY <1>4 DEF HotKeyRecords
<1> HIDE DEF added
<1>6. /\ hot \in Seq(HotKeyRecords)
      /\ \A v : v \in ToSet(hot) <=> v \in ToSet(tHotKeys) \/ v = added
  <2>1. /\ hot \in Seq(HotKeyRecords) /\ Len(hot) = Len(tHotKeys) + 1
        /\ hot[Len(tHotKeys) + 1] = added /\ \A i \in 1 .. Len(tHotKeys) : hot[i] = tHotKeys[i]
    BY <1>4, <1>5
  <2> HIDE DEF hot
  <2>2. ASSUME NEW v PROVE v \in ToSet(hot) <=> v \in ToSet(tHotKeys) \/ v = added
    <3>1. v \in ToSet(hot) <=> \E i \in 1 .. Len(tHotKeys) + 1 : hot[i] = v
      BY <2>1, InList
    <3>2. v \in ToSet(tHotKeys) <=> \E i \in 1 .. Len(tHotKeys) : tHotKeys[i] = v
      BY <1>4, InList
    <3>3. Len(tHotKeys) \in Nat
      BY <1>4
    <3>4. \A i \in 1 .. Len(tHotKeys) + 1 : i \in 1 .. Len(tHotKeys) \/ i = Len(tHotKeys) + 1
      BY <3>3
    <3>5. Len(tHotKeys) + 1 \in 1 .. Len(tHotKeys) + 1 /\ 1 .. Len(tHotKeys) \subseteq 1 .. Len(tHotKeys) + 1
      BY <3>3
    <3> QED
      BY <2>1, <3>1, <3>2, <3>4, <3>5
  <2> QED
    BY <2>1, <2>2
<1> HIDE DEF hot
<1>7. \A v \in ToSet(tHotKeys) : v.id \in 1 .. hkId
  BY <1>1 DEF Registry
<1>8. Registry(hot, hkId + 1)
  <2>1. \A v \in ToSet(hot) : v.id \in 1 .. hkId + 1
    BY <1>4, <1>5, <1>6, <1>7
  <2>2. ASSUME NEW v \in ToSet(hot), NEW w \in ToSet(hot), v.id = w.id PROVE v = w
    <3>1. ASSUME NEW x \in ToSet(tHotKeys) PROVE x.id # added.id
      BY <1>4, <1>5, <1>7
    <3>2. CASE v \in ToSet(tHotKeys) /\ w \in ToSet(tHotKeys)
      BY <1>1, <2>2, <3>2 DEF Registry
    <3> QED
      BY <1>6, <2>2, <3>1, <3>2
  <2> QED
    BY <1>4, <1>6, <2>1, <2>2 DEF Registry
<1>9. Acting(hot, hkId + 1, tActKeys, stale, holding, tCurKeys)
  <2>1. /\ tActKeys \subseteq 1 .. hkId /\ holding \subseteq tActKeys
        /\ \A v \in ToSet(tHotKeys) : v.id \in holding => v.aType = 1
        /\ \A v \in ToSet(tHotKeys) : v.id \in tActKeys \ stale => isKeyComboExist(v.keys, tCurKeys)
    BY <1>1 DEF Acting
  <2>2. added.id \notin tActKeys
    BY <1>4, <1>5, <2>1
  <2>3. tActKeys \subseteq 1 .. hkId + 1
    BY <1>4, <2>1
  <2> QED
    BY <1>6, <2>1, <2>2, <2>3 DEF Acting
<1> QED
  BY <1>2, <1>3, <1>8, <1>9 DEF KeysInv

\* A list of hotkeys that are hotkeys of another one.
LEMMA FewerInv ==
  ASSUME Registry(tHotKeys, hkId), Acting(tHotKeys, hkId, tActKeys, stale, holding, tCurKeys),
         NEW hot \in Seq(HotKeyRecords), ToSet(hot) \subseteq ToSet(tHotKeys)
  PROVE  Registry(hot, hkId) /\ Acting(hot, hkId, tActKeys, stale, holding, tCurKeys)
BY DEF Registry, Acting

LEMMA UnregisterInv == ASSUME KeysInv, NEW hotkeys, unRegister(hotkeys) PROVE KeysInv'
<1>1. /\ Registry(tHotKeys, hkId)
      /\ Acting(tHotKeys, hkId, tActKeys, stale, holding, tCurKeys)
  BY DEF KeysInv
<1>2. tHotKeys' = RemovePositions(tHotKeys, idsToRemove(hotkeys))
  BY DEF unRegister
<1>3. /\ tCurKeys' = tCurKeys /\ tActKeys' = tActKeys /\ down' = down /\ focus' = focus
      /\ unseen' = unseen /\ stale' = stale /\ holding' = holding /\ hkId' = hkId
  BY DEF unRegister
<1>4. tHotKeys \in Seq(HotKeyRecords)
  BY <1>1 DEF Registry
<1>5. idsToRemove(hotkeys) \in Seq(Nat)
  BY <1>4, PositionsAre
<1>6. tHotKeys' \in Seq(HotKeyRecords) /\ ToSet(tHotKeys') \subseteq ToSet(tHotKeys)
  BY <1>2, <1>4, <1>5, RemovedAre
<1>7. Registry(tHotKeys', hkId) /\ Acting(tHotKeys', hkId, tActKeys, stale, holding, tCurKeys)
  BY <1>1, <1>6, FewerInv
<1> QED
  BY <1>3, <1>7 DEF KeysInv

LEMMA ChangeKeysInv ==
  ASSUME KeysInv, NEW id, NEW keys \in Combos, changeHotKey(id, keys)
  PROVE  KeysInv'
<1> DEFINE to(v) == IF v.id = id THEN [v EXCEPT !.keys = keys] ELSE v
           hot == [i \in DOMAIN tHotKeys |-> to(tHotKeys[i])]
<1>1. /\ Registry(tHotKeys, hkId)
      /\ Acting(tHotKeys, hkId, tActKeys, stale, holding, tCurKeys)
  BY DEF KeysInv
<1>2. tHotKeys' = hot /\ stale' = stale \cup ({id} \cap tActKeys)
  BY DEF changeHotKey
<1>3. /\ tCurKeys' = tCurKeys /\ tActKeys' = tActKeys /\ down' = down /\ focus' = focus
      /\ unseen' = unseen /\ holding' = holding /\ hkId' = hkId
  BY DEF changeHotKey
<1>4. tHotKeys \in Seq(HotKeyRecords)
  BY <1>1 DEF Registry
<1>5. ASSUME NEW v \in HotKeyRecords
      PROVE  /\ to(v) \in HotKeyRecords /\ to(v).id = v.id /\ to(v).aType = v.aType
             /\ v.id # id => to(v) = v
  BY DEF HotKeyRecords
<1>6. /\ hot \in Seq(HotKeyRecords)
      /\ \A w \in ToSet(hot) : \E v \in ToSet(tHotKeys) : w = to(v)
  <2> HIDE DEF to
  <2>1. DOMAIN tHotKeys = 1 .. Len(tHotKeys) /\ \A i \in 1 .. Len(tHotKeys) : tHotKeys[i] \in HotKeyRecords
    BY <1>4
  <2>2. hot \in Seq(HotKeyRecords) /\ Len(hot) = Len(tHotKeys)
    BY <1>4, <1>5, <2>1
  <2>3. \A i \in 1 .. Len(tHotKeys) : hot[i] = to(tHotKeys[i])
    BY <2>1
  <2> HIDE DEF hot
  <2>4. ASSUME NEW w \in ToSet(hot) PROVE \E v \in ToSet(tHotKeys) : w = to(v)
    <3>1. PICK i \in 1 .. Len(tHotKeys) : hot[i] = w
      BY <2>2, InList
    <3>2. tHotKeys[i] \in ToSet(tHotKeys)
      BY <1>4, InList
    <3> QED
      BY <2>3, <3>1, <3>2
  <2> QED
    BY <2>2, <2>4
<1>7. ToSet(tHotKeys) \subseteq HotKeyRecords
  <2>1. ASSUME NEW v \in ToSet(tHotKeys) PROVE v \in HotKeyRecords
    BY <1>4, InList
  <2> QED
    BY <2>1
<1> HIDE DEF hot, to
<1>8. Registry(hot, hkId)
  <2>1. ASSUME NEW w \in ToSet(hot) PROVE w.id \in 1 .. hkId
    BY <1>1, <1>5, <1>6, <1>7 DEF Registry
  <2>2. ASSUME NEW w \in ToSet(hot), NEW x \in ToSet(hot), w.id = x.id PROVE w = x
    <3>1. PICK v \in ToSet(tHotKeys) : w = to(v)
      BY <1>6
    <3>2. PICK u \in ToSet(tHotKeys) : x = to(u)
      BY <1>6
    <3>3. v.id = u.id
      BY <1>5, <1>7, <2>2, <3>1, <3>2
    <3>4. v = u
      BY <1>1, <3>3 DEF Registry
    <3> QED
      BY <3>1, <3>2, <3>4
  <2>3. hkId \in Nat
    BY <1>1 DEF Registry
  <2> QED
    BY <1>6, <2>1, <2>2, <2>3 DEF Registry
<1>9. Acting(hot, hkId, tActKeys, stale \cup ({id} \cap tActKeys), holding, tCurKeys)
  <2>1. /\ tActKeys \subseteq 1 .. hkId /\ holding \subseteq tActKeys
        /\ \A v \in ToSet(tHotKeys) : v.id \in holding => v.aType = 1
        /\ \A v \in ToSet(tHotKeys) : v.id \in tActKeys \ stale => isKeyComboExist(v.keys, tCurKeys)
    BY <1>1 DEF Acting
  <2>2. ASSUME NEW w \in ToSet(hot), w.id \in holding PROVE w.aType = 1
    BY <1>5, <1>6, <1>7, <2>1, <2>2
  <2>3. ASSUME NEW w \in ToSet(hot), w.id \in tActKeys \ (stale \cup ({id} \cap tActKeys))
        PROVE  isKeyComboExist(w.keys, tCurKeys)
    <3>1. PICK v \in ToSet(tHotKeys) : w = to(v)
      BY <1>6
    <3>2. v.id = w.id /\ v.id # id
      BY <1>5, <1>7, <2>3, <3>1
    <3>3. w = v
      BY <1>5, <1>7, <3>1, <3>2
    <3> QED
      BY <2>1, <2>3, <3>3
  <2> QED
    BY <2>1, <2>2, <2>3 DEF Acting
<1> QED
  BY <1>2, <1>3, <1>8, <1>9 DEF KeysInv

LEMMA KeysInvNext == ASSUME KeysAsMeant, KeysInv, [KeysNext]_keysVars PROVE KeysInv'
<1>1. ASSUME NEW k \in Physical, Press(k) \/ Repeat(k) \/ Release(k) PROVE KeysInv'
  BY <1>1, PressInv, RepeatInv, ReleaseInv
<1>2. ASSUME KillFocus \/ SetFocus PROVE KeysInv'
  BY <1>2, FocusInv
<1>3. ASSUME NEW keys \in Combos, NEW aType \in ATypes, NEW isBlock \in Blocks,
             registerHotKey(keys, aType, isBlock)
      PROVE  KeysInv'
  BY <1>3, RegisterInv
<1>4. ASSUME NEW id \in 1 .. hkId, unRegisterHotKey(id) PROVE KeysInv'
  BY <1>4, UnregisterInv DEF unRegisterHotKey
<1>5. ASSUME NEW id \in 1 .. hkId, NEW keys \in Combos, changeHotKey(id, keys) PROVE KeysInv'
  BY <1>5, ChangeKeysInv
<1>6. ASSUME NEW keys \in Combos, unRegisterCombo(keys) PROVE KeysInv'
  BY <1>6, UnregisterInv DEF unRegisterCombo
<1>7. CASE UNCHANGED keysVars
  BY <1>7 DEF keysVars, KeysInv
<1> QED
  BY <1>1, <1>2, <1>3, <1>4, <1>5, <1>6, <1>7 DEF KeysNext


(* ------------------------------ when they fire ---------------------------- *)

\* A step that presses no key and fires nothing of type 1 claims nothing.
LEMMA SilentFires ==
  ASSUME KeysAsMeant, KeysInv, pressed' = none, \A v \in HotKeys : v.id \in fired' => v.aType = 3
  PROVE  FiresAtMostOnce /\ FiresOnPress
<1>1. FiresAtMostOnce
  BY DEF FiresAtMostOnce
<1>2. ASSUME NEW v \in HotKeys, isKeyComboExist(v.keys, tCurKeys') PROVE v.keys # <<>>
  BY <1>2, Zenon DEF isKeyComboExist
<1>3. ASSUME NEW v \in HotKeys, isKeyComboExist(v.keys, tCurKeys')
      PROVE  Last(v.keys) \notin {pressed', wparam(pressed')}
  <2>1. v.keys \in Combos
    BY KeysInvMeans, <1>3 DEF KeysHeld, KeysTypeOK
  <2>2. v.keys \in Seq(Keys)
    BY <2>1 DEF KeysAsMeant, RkeysAssumption, Keys
  <2>3. Last(v.keys) \in Keys
    BY <2>2, <1>2, <1>3 DEF Last
  <2>4. none # VK_CONTROL
    BY DEF none, VK_CONTROL
  <2> QED
    BY <2>3, <2>4, KeyConstants DEF Keys, wparam
<1> QED
  BY <1>1, <1>3 DEF FiresOnPress

\* A message of a key that was up fires what its press completes.
LEMMA PressFires ==
  ASSUME KeysAsMeant, KeysInv, NEW k \in Physical, Press(k)
  PROVE  FiresAtMostOnce /\ FiresOnPress
<1>1. CASE focus /\ DownMessage(k, 0)
  <2>1. pressed' = k /\ \A v \in HotKeys : v.id \in fired' <=> Fires(v, 0, tCurKeys')
    BY <1>1, DownActs
  <2>2. /\ down \subseteq Physical /\ Listing(tCurKeys, down \ unseen)
        /\ Acting(tHotKeys, hkId, tActKeys, stale, holding, tCurKeys)
    BY DEF KeysInv
  <2>3. FiresAtMostOnce
    BY <2>1, <2>2 DEF FiresAtMostOnce, Fires, Acting
  <2>4. ASSUME NEW v \in HotKeys, v.aType = 1, Last(v.keys) \in {k, wparam(k)},
               v.id \in tActKeys \ stale
        PROVE  k \in down
    <3>1. isKeyComboExist(v.keys, tCurKeys)
      BY <2>2, <2>4 DEF Acting, HotKeys
    <3>2. v.keys \in Combos
      BY KeysInvMeans, <2>4 DEF KeysHeld, KeysTypeOK
    <3>3. v.keys \in Seq(Keys) /\ tCurKeys \in Seq(Keys)
      BY <2>2, <3>2 DEF KeysAsMeant, RkeysAssumption, Keys, Listing
    <3>4. Last(v.keys) \in ToSet(tCurKeys)
      BY <3>1, <3>3, LastKeyListed
    <3>5. k \in Shown(down \ unseen) \/ wparam(k) \in Shown(down \ unseen)
      BY <2>2, <2>4, <3>4 DEF Listing
    <3>6. down \ unseen \in SUBSET Physical
      BY <2>2
    <3> QED
      BY <3>5, <3>6, ShownIs
  <2>5. ASSUME NEW v \in HotKeys, v.aType = 1, pressed' \notin down,
               Last(v.keys) \in {pressed', wparam(pressed')},
               isKeyComboExist(v.keys, tCurKeys'), HasMod(v.keys) \/ ~ HasMod(tCurKeys'),
               v.id \notin stale
        PROVE  v.id \in fired'
    <3>1. v.id \notin tActKeys
      BY <2>1, <2>4, <2>5
    <3>2. Fires(v, 0, tCurKeys')
      BY <2>5, <3>1 DEF Fires
    <3> QED
      BY <2>1, <3>2
  <2> QED
    BY <2>3, <2>5 DEF FiresOnPress
<1>2. CASE ~ focus /\ Unnoticed
  BY <1>2, SilentFires DEF Unnoticed, NoMessage
<1> QED
  BY <1>1, <1>2 DEF Press

\* The message of a key that is held fires nothing of type 1.
LEMMA RepeatFires ==
  ASSUME KeysAsMeant, KeysInv, NEW k \in Physical, Repeat(k)
  PROVE  FiresAtMostOnce /\ FiresOnPress
<1>1. k \in down /\ DownMessage(k, 1)
  BY DEF Repeat
<1>2. pressed' = k /\ \A v \in HotKeys : v.id \in fired' <=> Fires(v, 1, tCurKeys')
  BY <1>1, DownActs
<1>3. ASSUME NEW v \in HotKeys, v.id \in fired' PROVE v.aType # 1
  BY <1>2, <1>3 DEF Fires
<1> QED
  BY <1>1, <1>2, <1>3 DEF FiresAtMostOnce, FiresOnPress

LEMMA ReleaseFires ==
  ASSUME KeysAsMeant, KeysInv, NEW k \in Physical, Release(k)
  PROVE  FiresAtMostOnce /\ FiresOnPress
<1>1. CASE UpMessage(k, Bit30(k))
  <2>1. pressed' = none /\ \A v \in HotKeys : v.id \in fired' => v.aType = 3
    BY <1>1, UpActs
  <2> QED
    BY <2>1, SilentFires
<1>2. CASE Unnoticed
  BY <1>2, SilentFires DEF Unnoticed, NoMessage
<1> QED
  BY <1>1, <1>2 DEF Release

LEMMA FiresStep ==
  ASSUME KeysAsMeant, KeysInv, [KeysNext]_keysVars
  PROVE  [FiresAtMostOnce /\ FiresOnPress]_keysVars
<1>1. ASSUME NEW k \in Physical, Press(k) \/ Repeat(k) \/ Release(k)
      PROVE  FiresAtMostOnce /\ FiresOnPress
  BY <1>1, PressFires, RepeatFires, ReleaseFires
<1>2. ASSUME NoMessage PROVE FiresAtMostOnce /\ FiresOnPress
  <2>1. pressed' = none /\ \A v \in HotKeys : v.id \in fired' => v.aType = 3
    BY <1>2 DEF NoMessage
  <2> QED
    BY <2>1, SilentFires
<1>3. ASSUME KillFocus \/ SetFocus PROVE NoMessage
  BY <1>3 DEF KillFocus, SetFocus
<1>4. ASSUME NEW keys, NEW aType, NEW isBlock, registerHotKey(keys, aType, isBlock)
      PROVE  NoMessage
  BY <1>4 DEF registerHotKey
<1>5. ASSUME NEW id, NEW keys, \/ unRegisterHotKey(id) \/ changeHotKey(id, keys)
                               \/ unRegisterCombo(keys)
      PROVE  NoMessage
  BY <1>5 DEF unRegisterHotKey, unRegisterCombo, unRegister, changeHotKey
<1> QED
  BY <1>1, <1>2, <1>3, <1>4, <1>5 DEF KeysNext

\* Whatever keys go down and come up while the focus comes and goes, and whatever hotkeys are
\* registered, changed and unregistered meanwhile, the keys that rkeys takes for pressed are
\* those the window saw going down, and the hotkeys it takes for active have their keys held.
THEOREM KeysStayHeld ==
  ASSUME RkeysAssumption, OneOfEachModifier
  PROVE  KeysSpec => []KeysHeld
<1>1. KeysAsMeant
  BY DEF KeysAsMeant
<1>2. KeysInit => KeysInv
  BY KeysInvInit
<1>3. KeysInv /\ [KeysNext]_keysVars => KeysInv'
  BY <1>1, KeysInvNext
<1>4. KeysInv => KeysHeld
  BY KeysInvMeans
<1> QED
  BY <1>2, <1>3, <1>4, PTL DEF KeysSpec

\* A hotkey of type 1 whose keys are pressed fires, unless it has no modifier and one is down,
\* or it is still active for other keys or from before the focus was lost; and it does not
\* fire again while they are held.
THEOREM HotKeysFireOnce ==
  ASSUME RkeysAssumption, OneOfEachModifier
  PROVE  KeysSpec => FiresOnce
<1>1. KeysAsMeant
  BY DEF KeysAsMeant
<1>2. KeysInit => KeysInv
  BY KeysInvInit
<1>3. KeysInv /\ [KeysNext]_keysVars => KeysInv'
  BY <1>1, KeysInvNext
<1>4. KeysInv /\ [KeysNext]_keysVars => [FiresAtMostOnce /\ FiresOnPress]_keysVars
  BY <1>1, FiresStep
<1> QED
  BY <1>2, <1>3, <1>4, PTL DEF KeysSpec, FiresOnce

(***************************************************************************)
(* Directories: paths.                                                     *)
(***************************************************************************)
TreePaths == Seq(Names)

\* The first n names of p.
Cut(p, n) == SubSeq(p, 1, n)

LEMMA CutOf ==
  ASSUME NEW S, NEW p \in Seq(S), NEW n \in 0 .. Len(p)
  PROVE  Cut(p, n) \in Seq(S) /\ Len(Cut(p, n)) = n /\ \A i \in 1 .. n : Cut(p, n)[i] = p[i]
<1>1. n \in Int /\ 1 \in Int /\ n - 1 + 1 = n /\ (IF 1 <= n THEN n ELSE 0) = n
  OBVIOUS
<1>2. \A i \in 1 .. n : p[i] \in S
  OBVIOUS
<1>3. /\ SubSeq(p, 1, n) \in Seq(S)
      /\ Len(SubSeq(p, 1, n)) = IF 1 <= n THEN n - 1 + 1 ELSE 0
      /\ \A i \in 1 .. n - 1 + 1 : SubSeq(p, 1, n)[i] = p[1 + i - 1]
  BY <1>1, <1>2, SubSeqProperties
<1>4. ASSUME NEW i \in 1 .. n PROVE SubSeq(p, 1, n)[i] = p[i]
  <2>1. 1 + i - 1 = i
    OBVIOUS
  <2> QED
    BY <1>1, <1>3, <2>1
<1> QED
  BY <1>1, <1>3, <1>4 DEF Cut

LEMMA CutIs ==
  ASSUME NEW p \in TreePaths, NEW n \in 0 .. Len(p)
  PROVE  Cut(p, n) \in TreePaths /\ Len(Cut(p, n)) = n /\ \A i \in 1 .. n : Cut(p, n)[i] = p[i]
BY CutOf DEF TreePaths

LEMMA PathsEqual ==
  ASSUME NEW p \in TreePaths, NEW q \in TreePaths, Len(p) = Len(q), \A i \in 1 .. Len(p) : p[i] = q[i]
  PROVE  p = q
BY DEF TreePaths

LEMMA PrefixIs ==
  ASSUME NEW p \in TreePaths, NEW q \in TreePaths
  PROVE  IsPrefix(p, q) <=> Len(p) <= Len(q) /\ \A i \in 1 .. Len(p) : q[i] = p[i]
<1>1. Len(p) \in Nat /\ Len(q) \in Nat
  BY DEF TreePaths
<1>2. SUFFICES ASSUME Len(p) <= Len(q)
               PROVE  IsPrefix(p, q) <=> \A i \in 1 .. Len(p) : q[i] = p[i]
  BY DEF IsPrefix
<1>3. Len(p) \in 0 .. Len(p) /\ Len(p) \in 0 .. Len(q)
  BY <1>1, <1>2
<1>4. /\ Cut(p, Len(p)) \in TreePaths /\ Len(Cut(p, Len(p))) = Len(p)
      /\ \A i \in 1 .. Len(p) : Cut(p, Len(p))[i] = p[i]
  BY <1>3, CutIs
<1>5. /\ Cut(q, Len(p)) \in TreePaths /\ Len(Cut(q, Len(p))) = Len(p)
      /\ \A i \in 1 .. Len(p) : Cut(q, Len(p))[i] = q[i]
  BY <1>3, CutIs
<1>6. IsPrefix(p, q) <=> Cut(p, Len(p)) = Cut(q, Len(p))
  BY <1>2 DEF IsPrefix, Cut
<1>7. (\A i \in 1 .. Len(p) : q[i] = p[i]) => Cut(p, Len(p)) = Cut(q, Len(p))
  BY <1>4, <1>5, PathsEqual
<1> QED
  BY <1>4, <1>5, <1>6, <1>7

LEMMA EmptyPath == <<>> \in TreePaths /\ Len(<<>>) = 0
BY DEF TreePaths

LEMMA LenIs ==
  ASSUME NEW p \in TreePaths PROVE Len(p) \in Nat /\ (Len(p) = 0 <=> p = <<>>)
BY DEF TreePaths

LEMMA PrefixSelf == ASSUME NEW p \in TreePaths PROVE IsPrefix(p, p) /\ IsPrefix(<<>>, p)
BY PrefixIs, EmptyPath, LenIs

LEMMA PrefixOver ==
  ASSUME NEW p \in TreePaths, NEW q \in TreePaths, NEW r \in TreePaths, IsPrefix(p, q), IsPrefix(q, r)
  PROVE  IsPrefix(p, r)
<1>1. Len(p) <= Len(q) /\ \A i \in 1 .. Len(p) : q[i] = p[i]
  BY PrefixIs
<1>2. Len(q) <= Len(r) /\ \A i \in 1 .. Len(q) : r[i] = q[i]
  BY PrefixIs
<1>3. Len(p) \in Nat /\ Len(q) \in Nat /\ Len(r) \in Nat
  BY LenIs
<1>4. Len(p) <= Len(r) /\ \A i \in 1 .. Len(p) : r[i] = p[i]
  BY <1>1, <1>2, <1>3
<1> QED
  BY <1>4, PrefixIs

LEMMA PrefixLen ==
  ASSUME NEW p \in TreePaths, NEW q \in TreePaths, IsPrefix(p, q)
  PROVE  Len(p) <= Len(q) /\ (Len(p) = Len(q) <=> p = q)
BY PrefixIs, PathsEqual

\* Two beginnings of one path.
LEMMA PrefixesMeet ==
  ASSUME NEW p \in TreePaths, NEW q \in TreePaths, NEW r \in TreePaths, IsPrefix(p, r), IsPrefix(q, r),
         Len(p) <= Len(q)
  PROVE  IsPrefix(p, q)
<1>1. Len(p) <= Len(r) /\ \A i \in 1 .. Len(p) : r[i] = p[i]
  BY PrefixIs
<1>2. Len(q) <= Len(r) /\ \A i \in 1 .. Len(q) : r[i] = q[i]
  BY PrefixIs
<1>3. Len(p) \in Nat /\ Len(q) \in Nat
  BY LenIs
<1>4. \A i \in 1 .. Len(p) : q[i] = p[i]
  BY <1>1, <1>2, <1>3
<1> QED
  BY <1>4, PrefixIs

LEMMA CutPrefix ==
  ASSUME NEW p \in TreePaths, NEW n \in 0 .. Len(p)
  PROVE  IsPrefix(Cut(p, n), p)
<1>1. Cut(p, n) \in TreePaths /\ Len(Cut(p, n)) = n /\ \A i \in 1 .. n : Cut(p, n)[i] = p[i]
  BY CutIs
<1> QED
  BY <1>1, PrefixIs, LenIs

\* q is an entry of the directory p.
Child(p, q) == Len(q) = Len(p) + 1 /\ IsPrefix(p, q)

LEMMA ParentIs ==
  ASSUME NEW p \in TreePaths, p # <<>>
  PROVE  Parent(p) \in TreePaths /\ Len(p) = Len(Parent(p)) + 1 /\ Child(Parent(p), p)
<1>1. Len(p) - 1 \in 0 .. Len(p) /\ Len(p) \in Nat
  BY LenIs
<1>2. Parent(p) = Cut(p, Len(p) - 1)
  BY DEF Parent, Cut
<1>3. Parent(p) \in TreePaths /\ Len(Parent(p)) = Len(p) - 1 /\ IsPrefix(Parent(p), p)
  BY <1>1, <1>2, CutIs, CutPrefix
<1> QED
  BY <1>1, <1>3 DEF Child

LEMMA ParentOfChild ==
  ASSUME NEW p \in TreePaths, NEW q \in TreePaths, Child(p, q)
  PROVE  q # <<>> /\ Parent(q) = p /\ IsPrefix(p, q) /\ p # q /\ Len(q) = Len(p) + 1
<1>1. Len(p) \in Nat /\ Len(q) = Len(p) + 1 /\ IsPrefix(p, q)
  BY LenIs DEF Child
<1>2. q # <<>> /\ p # q
  BY <1>1, LenIs
<1>3. Parent(q) \in TreePaths /\ Len(q) = Len(Parent(q)) + 1 /\ IsPrefix(Parent(q), q)
  BY <1>2, ParentIs DEF Child
<1>4. Len(Parent(q)) = Len(p)
  BY <1>1, <1>3, LenIs
<1>5. IsPrefix(p, Parent(q))
  BY <1>1, <1>3, <1>4, PrefixesMeet
<1> QED
  BY <1>1, <1>2, <1>3, <1>4, <1>5, PrefixLen

\* A path strictly under p goes through a child of p.
LEMMA ChildTowards ==
  ASSUME NEW p \in TreePaths, NEW r \in TreePaths, IsPrefix(p, r), p # r
  PROVE  LET c == Cut(r, Len(p) + 1) IN c \in TreePaths /\ Child(p, c) /\ IsPrefix(c, r)
<1> DEFINE c == Cut(r, Len(p) + 1)
<1>1. Len(p) \in Nat /\ Len(r) \in Nat /\ Len(p) + 1 \in 0 .. Len(r)
  BY PrefixLen, LenIs
<1>2. c \in TreePaths /\ Len(c) = Len(p) + 1 /\ IsPrefix(c, r)
  BY <1>1, CutIs, CutPrefix
<1> HIDE DEF c
<1>3. IsPrefix(p, c)
  BY <1>1, <1>2, PrefixesMeet
<1> QED
  BY <1>2, <1>3 DEF Child, c


\* The path r under p as it is under q.
Onto(p, q, r) == q \o SubSeq(r, Len(p) + 1, Len(r))

LEMMA OntoIs ==
  ASSUME NEW p \in TreePaths, NEW q \in TreePaths, NEW r \in TreePaths, IsPrefix(p, r)
  PROVE  /\ Onto(p, q, r) \in TreePaths /\ Len(Onto(p, q, r)) = Len(q) + (Len(r) - Len(p))
         /\ Len(p) <= Len(r)
         /\ \A i \in 1 .. Len(q) : Onto(p, q, r)[i] = q[i]
         /\ \A i \in 1 .. Len(r) - Len(p) : Onto(p, q, r)[Len(q) + i] = r[Len(p) + i]
<1> DEFINE m == Len(p) + 1
           n == Len(r)
           t == SubSeq(r, m, n)
           o == q \o t
<1>1. Len(p) \in Nat /\ Len(q) \in Nat /\ n \in Nat /\ Len(p) <= n /\ m \in Int /\ n \in Int
  BY LenIs, PrefixLen
<1>2. \A i \in m .. n : r[i] \in Names
  BY <1>1 DEF TreePaths
<1>3. /\ t \in Seq(Names) /\ Len(t) = (IF m <= n THEN n - m + 1 ELSE 0)
      /\ \A i \in 1 .. n - m + 1 : t[i] = r[m + i - 1]
  BY <1>1, <1>2, SubSeqProperties
<1>4. Len(t) = n - Len(p) /\ \A i \in 1 .. n - Len(p) : t[i] = r[Len(p) + i]
  <2>1. n - m + 1 = n - Len(p) /\ Len(t) = n - Len(p)
    BY <1>1, <1>3
  <2>2. ASSUME NEW i \in 1 .. n - Len(p) PROVE t[i] = r[Len(p) + i]
    <3>1. m + i - 1 = Len(p) + i
      BY <1>1
    <3> QED
      BY <1>3, <2>1, <3>1
  <2> QED
    BY <2>1, <2>2
<1> HIDE DEF t
<1>5. /\ o \in Seq(Names) /\ Len(o) = Len(q) + Len(t)
      /\ \A i \in 1 .. Len(q) + Len(t) : o[i] = IF i <= Len(q) THEN q[i] ELSE t[i - Len(q)]
  BY <1>3, ConcatProperties DEF TreePaths
<1> HIDE DEF o
<1>6. ASSUME NEW i \in 1 .. Len(q) PROVE o[i] = q[i]
  <2>1. i \in 1 .. Len(q) + Len(t) /\ i <= Len(q)
    BY <1>1, <1>4
  <2> QED
    BY <1>5, <2>1
<1>7. ASSUME NEW i \in 1 .. n - Len(p) PROVE o[Len(q) + i] = r[Len(p) + i]
  <2>1. /\ Len(q) + i \in 1 .. Len(q) + Len(t) /\ ~ (Len(q) + i <= Len(q))
        /\ Len(q) + i - Len(q) = i
    BY <1>1, <1>4
  <2>2. o[Len(q) + i] = t[i]
    BY <1>5, <2>1
  <2> QED
    BY <1>4, <2>2
<1>8. Onto(p, q, r) = o
  BY DEF Onto, o, t
<1> QED
  BY <1>1, <1>4, <1>5, <1>6, <1>7, <1>8 DEF TreePaths

LEMMA OntoPrefix ==
  ASSUME NEW p \in TreePaths, NEW q \in TreePaths, NEW r \in TreePaths, IsPrefix(p, r)
  PROVE  /\ Onto(p, q, r) \in TreePaths /\ IsPrefix(q, Onto(p, q, r))
         /\ Onto(q, p, Onto(p, q, r)) = r
         /\ Onto(p, q, r) = q <=> r = p
<1> DEFINE o == Onto(p, q, r)
           b == Onto(q, p, o)
<1>1. /\ o \in TreePaths /\ Len(o) = Len(q) + (Len(r) - Len(p)) /\ Len(p) <= Len(r)
      /\ \A i \in 1 .. Len(q) : o[i] = q[i]
      /\ \A i \in 1 .. Len(r) - Len(p) : o[Len(q) + i] = r[Len(p) + i]
  BY OntoIs
<1>2. Len(p) \in Nat /\ Len(q) \in Nat /\ Len(r) \in Nat
  BY LenIs
<1> HIDE DEF o
<1>3. IsPrefix(q, o)
  BY <1>1, <1>2, PrefixIs
<1>4. /\ b \in TreePaths /\ Len(b) = Len(p) + (Len(o) - Len(q))
      /\ \A i \in 1 .. Len(p) : b[i] = p[i]
      /\ \A i \in 1 .. Len(o) - Len(q) : b[Len(p) + i] = o[Len(q) + i]
  BY <1>1, <1>3, OntoIs
<1> HIDE DEF b
<1>5. Len(b) = Len(r)
  BY <1>1, <1>2, <1>4
<1>6. ASSUME NEW i \in 1 .. Len(b) PROVE b[i] = r[i]
  <2>1. CASE i <= Len(p)
    <3>1. i \in 1 .. Len(p)
      BY <1>2, <2>1
    <3>2. r[i] = p[i]
      BY <3>1, PrefixIs
    <3> QED
      BY <1>4, <3>1, <3>2
  <2>2. CASE ~ (i <= Len(p))
    <3> DEFINE j == i - Len(p)
    <3>1. j \in 1 .. Len(r) - Len(p) /\ j \in 1 .. Len(o) - Len(q) /\ i = Len(p) + j
      BY <1>1, <1>2, <1>5, <2>2
    <3> HIDE DEF j
    <3> QED
      BY <1>1, <1>4, <3>1
  <2> QED
    BY <2>1, <2>2
<1>7. b = r
  BY <1>4, <1>5, <1>6, PathsEqual
<1>8. o = q <=> r = p
  <2>1. o = q <=> Len(q) = Len(o)
    BY <1>1, <1>3, PrefixLen
  <2>2. r = p <=> Len(p) = Len(r)
    BY PrefixLen
  <2> QED
    BY <1>1, <1>2, <2>1, <2>2
<1> QED
  BY <1>1, <1>3, <1>7, <1>8 DEF o, b

LEMMA OntoSelf ==
  ASSUME NEW p \in TreePaths, NEW q \in TreePaths
  PROVE  Onto(p, q, p) = q
BY PrefixSelf, OntoPrefix

\* x is the path r under p as it is under q, name by name.
IsOnto(p, q, r, x) ==
    /\ x \in TreePaths /\ Len(x) = Len(q) + (Len(r) - Len(p)) /\ Len(p) <= Len(r)
    /\ \A i \in 1 .. Len(q) : x[i] = q[i]
    /\ \A i \in 1 .. Len(r) - Len(p) : x[Len(q) + i] = r[Len(p) + i]

LEMMA OntoNames ==
  ASSUME NEW p \in TreePaths, NEW q \in TreePaths, NEW r \in TreePaths, IsPrefix(p, r)
  PROVE  IsOnto(p, q, r, Onto(p, q, r))
<1>1. /\ Onto(p, q, r) \in TreePaths /\ Len(Onto(p, q, r)) = Len(q) + (Len(r) - Len(p))
      /\ Len(p) <= Len(r)
      /\ \A i \in 1 .. Len(q) : Onto(p, q, r)[i] = q[i]
      /\ \A i \in 1 .. Len(r) - Len(p) : Onto(p, q, r)[Len(q) + i] = r[Len(p) + i]
  BY OntoIs
<1> QED
  BY ONLY <1>1 DEF IsOnto

\* What is under r stays under it.
LEMMA OntoUnder ==
  ASSUME NEW p \in TreePaths, NEW q \in TreePaths, NEW r \in TreePaths, NEW s \in TreePaths,
         IsPrefix(p, r), IsPrefix(r, s)
  PROVE  /\ IsPrefix(p, s) /\ IsPrefix(Onto(p, q, r), Onto(p, q, s))
         /\ Len(Onto(p, q, s)) - Len(Onto(p, q, r)) = Len(s) - Len(r)
<1> DEFINE x == Onto(p, q, r)
           y == Onto(p, q, s)
<1>1. IsPrefix(p, s)
  BY PrefixOver
<1>2. /\ x \in TreePaths /\ Len(x) = Len(q) + (Len(r) - Len(p)) /\ Len(p) <= Len(r)
      /\ \A i \in 1 .. Len(q) : x[i] = q[i]
      /\ \A i \in 1 .. Len(r) - Len(p) : x[Len(q) + i] = r[Len(p) + i]
  <2>1. IsOnto(p, q, r, x)
    BY OntoNames
  <2> QED
    BY <2>1 DEF IsOnto
<1>3. /\ y \in TreePaths /\ Len(y) = Len(q) + (Len(s) - Len(p))
      /\ \A i \in 1 .. Len(q) : y[i] = q[i]
      /\ \A i \in 1 .. Len(s) - Len(p) : y[Len(q) + i] = s[Len(p) + i]
  <2>1. IsOnto(p, q, s, y)
    BY <1>1, OntoNames
  <2> QED
    BY <2>1 DEF IsOnto
<1>4. Len(r) <= Len(s) /\ \A i \in 1 .. Len(r) : s[i] = r[i]
  BY PrefixIs
<1>5. Len(p) \in Nat /\ Len(q) \in Nat /\ Len(r) \in Nat /\ Len(s) \in Nat
  BY LenIs
<1> HIDE DEF x, y
<1>6. Len(x) <= Len(y) /\ Len(y) - Len(x) = Len(s) - Len(r)
  BY <1>2, <1>3, <1>4, <1>5
<1>7. ASSUME NEW i \in 1 .. Len(x) PROVE y[i] = x[i]
  <2>1. CASE i <= Len(q)
    <3>1. i \in 1 .. Len(q)
      BY <1>5, <2>1
    <3> QED
      BY <1>2, <1>3, <3>1
  <2>2. CASE ~ (i <= Len(q))
    <3> DEFINE j == i - Len(q)
    <3>1. /\ j \in 1 .. Len(r) - Len(p) /\ j \in 1 .. Len(s) - Len(p) /\ i = Len(q) + j
          /\ Len(p) + j \in 1 .. Len(r)
      BY <1>2, <1>4, <1>5, <2>2
    <3> HIDE DEF j
    <3>2. y[i] = s[Len(p) + j]
      BY <1>3, <3>1
    <3>3. x[i] = r[Len(p) + j]
      BY <1>2, <3>1
    <3>4. s[Len(p) + j] = r[Len(p) + j]
      BY <1>4, <3>1
    <3> QED
      BY <3>2, <3>3, <3>4
  <2> QED
    BY <2>1, <2>2
<1>8. IsPrefix(x, y)
  BY <1>2, <1>3, <1>6, <1>7, PrefixIs
<1> QED
  BY <1>1, <1>6, <1>8 DEF x, y

LEMMA OntoChild ==
  ASSUME NEW p \in TreePaths, NEW q \in TreePaths, NEW r \in TreePaths, NEW s \in TreePaths,
         IsPrefix(p, r), Child(r, s)
  PROVE  IsPrefix(p, s) /\ Child(Onto(p, q, r), Onto(p, q, s))
<1>1. IsPrefix(r, s) /\ Len(s) = Len(r) + 1 /\ Len(r) \in Nat
  BY LenIs DEF Child
<1>2. /\ IsPrefix(p, s) /\ IsPrefix(Onto(p, q, r), Onto(p, q, s))
      /\ Len(Onto(p, q, s)) - Len(Onto(p, q, r)) = Len(s) - Len(r)
  BY <1>1, OntoUnder
<1>3. Onto(p, q, s) \in TreePaths /\ Onto(p, q, r) \in TreePaths
  BY <1>2, OntoPrefix
<1>4. Len(Onto(p, q, s)) \in Nat /\ Len(Onto(p, q, r)) \in Nat
  BY <1>3, LenIs
<1>5. Len(Onto(p, q, s)) = Len(Onto(p, q, r)) + 1
  BY <1>1, <1>2, <1>4
<1> QED
  BY <1>2, <1>5 DEF Child

Appended(a, s, e) == a = Append(s, e)

LEMMA AppendedIs ==
  ASSUME NEW S, NEW s \in Seq(S), NEW e \in S, NEW a, Appended(a, s, e)
  PROVE  /\ a \in Seq(S) /\ Len(a) = Len(s) + 1 /\ a[Len(s) + 1] = e
         /\ \A i \in 1 .. Len(s) : a[i] = s[i]
BY DEF Appended

\* The new path of an entry.
LEMMA AppendPath ==
  ASSUME NEW p \in TreePaths, NEW x \in Names, NEW a, Appended(a, p, x)
  PROVE  /\ a \in TreePaths /\ Len(a) = Len(p) + 1 /\ a[Len(p) + 1] = x
         /\ \A i \in 1 .. Len(p) : a[i] = p[i]
<1>1. p \in Seq(Names)
  BY DEF TreePaths
<1>2. /\ a \in Seq(Names) /\ Len(a) = Len(p) + 1 /\ a[Len(p) + 1] = x
      /\ \A i \in 1 .. Len(p) : a[i] = p[i]
  BY <1>1, AppendedIs
<1> QED
  BY <1>2 DEF TreePaths

LEMMA AppendChild ==
  ASSUME NEW p \in TreePaths, NEW x \in Names, NEW a, Appended(a, p, x)
  PROVE  a \in TreePaths /\ Child(p, a) /\ Parent(a) = p
<1>1. /\ a \in TreePaths /\ Len(a) = Len(p) + 1 /\ \A i \in 1 .. Len(p) : a[i] = p[i]
  BY AppendPath
<1>2. IsPrefix(p, a)
  <2>1. Len(p) <= Len(a)
    BY <1>1, LenIs
  <2> QED
    BY ONLY <1>1, <2>1, p \in TreePaths, PrefixIs
<1>3. Child(p, a)
  BY <1>1, <1>2 DEF Child
<1> QED
  BY <1>1, <1>3, ParentOfChild

LEMMA OntoAppend ==
  ASSUME NEW p \in TreePaths, NEW q \in TreePaths, NEW r \in TreePaths, NEW s \in TreePaths,
         IsPrefix(p, r), Child(r, s)
  PROVE  Append(Onto(p, q, r), s[Len(s)]) = Onto(p, q, s)
<1> DEFINE x == Onto(p, q, r)
           y == Onto(p, q, s)
           z == Append(x, s[Len(s)])
<1>1. IsPrefix(r, s) /\ IsPrefix(p, s) /\ Len(s) = Len(r) + 1
  BY OntoChild DEF Child
<1>2. Len(p) \in Nat /\ Len(q) \in Nat /\ Len(r) \in Nat /\ Len(p) <= Len(r)
  BY LenIs, PrefixLen
<1>3. x \in TreePaths /\ y \in TreePaths /\ Child(x, y) /\ Len(x) = Len(q) + (Len(r) - Len(p))
  BY <1>1, OntoChild, OntoIs
<1>4. y[Len(y)] = s[Len(s)]
  <2> DEFINE i == Len(s) - Len(p)
  <2>1. i \in 1 .. Len(s) - Len(p) /\ Len(p) + i = Len(s)
    BY <1>1, <1>2
  <2>2. Len(y) = Len(q) + i /\ \A j \in 1 .. Len(s) - Len(p) : y[Len(q) + j] = s[Len(p) + j]
    <3>1. IsOnto(p, q, s, y)
      BY <1>1, OntoNames
    <3> HIDE DEF y
    <3> QED
      BY <1>1, <1>2, <3>1 DEF IsOnto
  <2> HIDE DEF y, i
  <2>3. y[Len(q) + i] = s[Len(p) + i]
    BY <2>1, <2>2
  <2> QED
    BY <2>1, <2>2, <2>3
<1>5. s[Len(s)] \in Names
  <2>1. Len(s) \in 1 .. Len(s)
    BY <1>1, <1>2
  <2> QED
    BY <2>1 DEF TreePaths
<1>a. Appended(z, x, s[Len(s)])
  BY DEF Appended
<1> HIDE DEF x, y, z
<1>6. /\ z \in TreePaths /\ Len(z) = Len(x) + 1 /\ z[Len(x) + 1] = s[Len(s)]
      /\ \A i \in 1 .. Len(x) : z[i] = x[i]
  BY <1>3, <1>5, <1>a, AppendPath
<1>7. Len(y) = Len(x) + 1 /\ \A i \in 1 .. Len(x) : y[i] = x[i]
  BY <1>3, PrefixIs DEF Child
<1>8. \A i \in 1 .. Len(z) : z[i] = y[i]
  <2>1. Len(x) \in Nat
    BY <1>3, LenIs
  <2>2. ASSUME NEW i \in 1 .. Len(z) PROVE i \in 1 .. Len(x) \/ i = Len(x) + 1
    BY <1>6, <2>1
  <2> QED
    BY <1>4, <1>6, <1>7, <2>2
<1>9. z = y
  BY <1>3, <1>6, <1>7, <1>8, PathsEqual
<1> QED
  BY <1>9 DEF x, y, z

(***************************************************************************)
(* Directories: file systems.                                              *)
(***************************************************************************)

\* f is a function.
Mapping(f) == f = [q \in DOMAIN f |-> f[q]]

LEMMA NodeIs ==
  ASSUME NEW n \in Nodes
  PROVE  /\ n.dir \in BOOLEAN /\ (n.dir => n = Directory)
         /\ ~ n.dir => n \in [dir : {FALSE}, data : Contents, readonly : BOOLEAN]
<1>1. CASE n = Directory
  BY <1>1 DEF Directory
<1>2. CASE n \in [dir : {FALSE}, data : Contents, readonly : BOOLEAN]
  BY <1>2
<1> QED
  BY <1>1, <1>2 DEF Nodes

LEMMA DirectoryIs == Directory \in Nodes /\ Directory.dir
BY DEF Nodes, Directory

LEMMA TreeIs ==
  ASSUME NEW f, IsTree(f), NEW q \in DOMAIN f
  PROVE  q \in TreePaths /\ q # <<>> /\ f[q] \in Nodes /\ IsDir(f, Parent(q))
BY DEF IsTree, TreePaths

LEMMA TreeMade ==
  ASSUME NEW f, Mapping(f),
         \A q \in DOMAIN f : q \in TreePaths /\ q # <<>> /\ f[q] \in Nodes /\ IsDir(f, Parent(q))
  PROVE  IsTree(f)
<1>1. f \in [DOMAIN f -> Nodes]
  BY DEF Mapping
<1> QED
  BY <1>1 DEF IsTree, TreePaths

\* Whatever exists is in directories only.
LEMMA Ancestors ==
  ASSUME NEW f, IsTree(f), NEW q \in DOMAIN f, NEW p \in TreePaths, IsPrefix(p, q), p # q
  PROVE  IsDir(f, p)
<1> DEFINE Up(i) == \A r \in TreePaths : IsPrefix(r, q) /\ Len(q) = Len(r) + 1 + i => IsDir(f, r)
           S == {i \in Nat : Up(i)}
<1>1. q \in TreePaths
  BY TreeIs
<1>2. Up(0)
  <2> SUFFICES ASSUME NEW r \in TreePaths, IsPrefix(r, q), Len(q) = Len(r) + 1 + 0
               PROVE  IsDir(f, r)
    OBVIOUS
  <2>1. Child(r, q)
    BY LenIs DEF Child
  <2>2. Parent(q) = r
    BY <1>1, <2>1, ParentOfChild
  <2> QED
    BY <2>2, TreeIs
<1>3. ASSUME NEW i \in Nat, Up(i) PROVE Up(i + 1)
  <2> SUFFICES ASSUME NEW r \in TreePaths, IsPrefix(r, q), Len(q) = Len(r) + 1 + (i + 1)
               PROVE  IsDir(f, r)
    OBVIOUS
  <2> DEFINE c == Cut(q, Len(r) + 1)
  <2>1. Len(r) \in Nat
    BY LenIs
  <2>2. r # q
    BY <2>1
  <2>3. c \in TreePaths /\ Child(r, c) /\ IsPrefix(c, q)
    BY <1>1, <2>2, ChildTowards
  <2> HIDE DEF c
  <2>4. Parent(c) = r /\ c # <<>> /\ Len(c) = Len(r) + 1
    BY <2>3, ParentOfChild
  <2>5. Len(q) = Len(c) + 1 + i
    BY <2>1, <2>4
  <2>6. IsDir(f, c)
    BY <1>3, <2>3, <2>5
  <2>7. c \in DOMAIN f
    BY <2>4, <2>6 DEF IsDir, Exists
  <2> QED
    BY <2>4, <2>7, TreeIs
<1> HIDE DEF Up
<1>4. Nat \subseteq S
  <2>1. 0 \in S
    BY <1>2
  <2>2. \A i \in Nat : i \in S => i + 1 \in S
    BY <1>3
  <2> HIDE DEF S
  <2> QED
    BY <2>1, <2>2, NatInd
<1>5. Len(p) \in Nat /\ Len(q) \in Nat /\ Len(p) <= Len(q) /\ Len(p) # Len(q)
  BY <1>1, LenIs, PrefixLen
<1>6. Len(q) - Len(p) - 1 \in Nat /\ Len(q) = Len(p) + 1 + (Len(q) - Len(p) - 1)
  BY <1>5
<1>7. Up(Len(q) - Len(p) - 1)
  BY <1>4, <1>6
<1> QED
  BY <1>6, <1>7 DEF Up

\* Nothing is under a file.
LEMMA UnderFile ==
  ASSUME NEW f, IsTree(f), NEW p, IsFile(f, p), NEW q \in DOMAIN f, IsPrefix(p, q)
  PROVE  q = p
<1>1. p \in DOMAIN f /\ ~ f[p].dir
  BY DEF IsFile, Exists
<1>2. p \in TreePaths /\ p # <<>>
  BY <1>1, TreeIs
<1> QED
  BY <1>1, <1>2, Ancestors DEF IsDir

\* Nothing is under what does not exist.
LEMMA UnderNothing ==
  ASSUME NEW f, IsTree(f), NEW p \in TreePaths, p # <<>>, p \notin DOMAIN f,
         NEW q \in DOMAIN f
  PROVE  ~ IsPrefix(p, q)
BY Ancestors DEF IsDir, Exists

LEMMA ChildrenAre ==
  ASSUME NEW f, IsTree(f), NEW p, NEW q
  PROVE  q \in Children(f, p) <=> q \in DOMAIN f /\ Child(p, q)
BY DEF Children, Child

LEMMA HoldsIs ==
  ASSUME NEW f, NEW p, NEW n
  PROVE  LET g == Holds(f, p, n)
         IN  /\ DOMAIN g = DOMAIN f \cup {p} /\ g[p] = n /\ Mapping(g)
             /\ \A q \in DOMAIN f : q # p => g[q] = f[q]
BY DEF Holds, Mapping

LEMMA HoldsTree ==
  ASSUME NEW f, IsTree(f), NEW p \in TreePaths, p # <<>>, IsDir(f, Parent(p)), NEW n \in Nodes,
         p \in DOMAIN f => f[p].dir = n.dir
  PROVE  IsTree(Holds(f, p, n)) /\ (\A q : IsDir(f, q) => IsDir(Holds(f, p, n), q))
<1> DEFINE g == Holds(f, p, n)
<1>1. /\ DOMAIN g = DOMAIN f \cup {p} /\ g[p] = n /\ Mapping(g)
      /\ \A q \in DOMAIN f : q # p => g[q] = f[q]
  BY DEF Holds, Mapping
<1> HIDE DEF g
<1>2. ASSUME NEW q, IsDir(f, q) PROVE IsDir(g, q)
  BY <1>1, <1>2 DEF IsDir, Exists
<1>3. ASSUME NEW q \in DOMAIN g
      PROVE  q \in TreePaths /\ q # <<>> /\ g[q] \in Nodes /\ IsDir(g, Parent(q))
  <2>1. CASE q = p
    BY <1>1, <1>2, <2>1
  <2>2. CASE q # p
    <3>1. q \in DOMAIN f /\ g[q] = f[q]
      BY <1>1, <2>2
    <3> QED
      BY <1>2, <3>1, TreeIs
  <2> QED
    BY <2>1, <2>2
<1>4. IsTree(g)
  BY <1>1, <1>3, TreeMade
<1> QED
  BY <1>2, <1>4 DEF g

LEMMA LacksIs ==
  ASSUME NEW f, NEW p
  PROVE  LET g == Lacks(f, p)
         IN  /\ DOMAIN g = DOMAIN f \ {p} /\ Mapping(g)
             /\ \A q \in DOMAIN f : q # p => g[q] = f[q]
BY DEF Lacks, Mapping

LEMMA LacksTree ==
  ASSUME NEW f, IsTree(f), NEW p, IsFile(f, p) \/ Children(f, p) = {}
  PROVE  IsTree(Lacks(f, p))
<1> DEFINE g == Lacks(f, p)
<1>1. /\ DOMAIN g = DOMAIN f \ {p} /\ Mapping(g)
      /\ \A q \in DOMAIN f : q # p => g[q] = f[q]
  BY LacksIs
<1> HIDE DEF g
<1>2. ASSUME NEW q \in DOMAIN g
      PROVE  q \in TreePaths /\ q # <<>> /\ g[q] \in Nodes /\ IsDir(g, Parent(q))
  <2>1. q \in DOMAIN f /\ q # p /\ g[q] = f[q]
    BY <1>1
  <2>2. q \in TreePaths /\ q # <<>> /\ f[q] \in Nodes /\ IsDir(f, Parent(q))
    BY <2>1, TreeIs
  <2>3. Child(Parent(q), q)
    BY <2>2, ParentIs
  <2>4. Parent(q) # <<>> => Parent(q) # p
    <3> SUFFICES ASSUME Parent(q) = p, p # <<>> PROVE FALSE
      OBVIOUS
    <3>1. p \in DOMAIN f /\ f[p].dir
      BY <2>2 DEF IsDir, Exists
    <3>2. q \in Children(f, p)
      BY <2>1, <2>3, ChildrenAre
    <3> QED
      BY <3>1, <3>2 DEF IsFile
  <2>5. IsDir(g, Parent(q))
    BY <1>1, <2>2, <2>4 DEF IsDir, Exists
  <2> QED
    BY <2>1, <2>2, <2>5
<1> QED
  BY <1>1, <1>2, TreeMade DEF g

LEMMA WritableIs ==
  ASSUME NEW f, IsTree(f), NEW p
  PROVE  LET g == WithoutReadonly(f, p)
         IN  /\ DOMAIN g = DOMAIN f /\ IsTree(g)
             /\ \A q \in DOMAIN f : g[q].dir = f[q].dir /\ (q # p => g[q] = f[q])
             /\ IsFile(f, p) => ~ g[p].readonly
<1> DEFINE g == WithoutReadonly(f, p)
<1>1. CASE ~ IsFile(f, p)
  BY <1>1 DEF WithoutReadonly
<1>2. CASE IsFile(f, p)
  <2>1. p \in DOMAIN f /\ ~ f[p].dir
    BY <1>2 DEF IsFile, Exists
  <2>2. f[p] \in [dir : {FALSE}, data : Contents, readonly : BOOLEAN]
    BY <2>1, TreeIs, NodeIs
  <2> DEFINE n == [f[p] EXCEPT !.readonly = FALSE]
  <2>3. /\ n \in [dir : {FALSE}, data : Contents, readonly : BOOLEAN] /\ ~ n.readonly
        /\ n.dir = FALSE /\ f[p].dir = FALSE
    BY <2>2
  <2>4. n \in Nodes
    BY <2>3 DEF Nodes
  <2>5. g = [f EXCEPT ![p].readonly = FALSE]
    BY <1>2 DEF WithoutReadonly
  <2>6. g = [f EXCEPT ![p] = n]
    BY <2>5
  <2> HIDE DEF n
  <2>7. /\ DOMAIN g = DOMAIN f /\ g[p] = n /\ Mapping(g)
        /\ \A q \in DOMAIN f : q # p => g[q] = f[q]
    BY <2>1, <2>6 DEF Mapping
  <2> HIDE DEF g
  <2>8. \A q \in DOMAIN f : g[q].dir = f[q].dir
    BY <2>1, <2>3, <2>7
  <2>9. ASSUME NEW q \in DOMAIN g
        PROVE  q \in TreePaths /\ q # <<>> /\ g[q] \in Nodes /\ IsDir(g, Parent(q))
    <3>1. q \in TreePaths /\ q # <<>> /\ f[q] \in Nodes /\ IsDir(f, Parent(q))
      BY <2>7, TreeIs
    <3>2. IsDir(g, Parent(q))
      BY <2>7, <2>8, <3>1 DEF IsDir, Exists
    <3> QED
      BY <2>4, <2>7, <3>1, <3>2
  <2>10. IsTree(g)
    BY <2>7, <2>9, TreeMade
  <2> QED
    BY <2>3, <2>7, <2>8, <2>10 DEF g
<1> QED
  BY <1>1, <1>2

\* g is f with the tree under p at q.
MovedTo(f, p, q, g) ==
    /\ Mapping(g)
    /\ \A x : x \in DOMAIN g <=> \/ x \in DOMAIN f /\ ~ IsPrefix(p, x)
                                 \/ \E r \in DOMAIN f : IsPrefix(p, r) /\ x = Onto(p, q, r)
    /\ \A x \in DOMAIN f : ~ IsPrefix(p, x) => g[x] = f[x]
    /\ \A r \in DOMAIN f : IsPrefix(p, r) => g[Onto(p, q, r)] = f[r]

LEMMA MovedIs ==
  ASSUME NEW f, IsTree(f), NEW p \in DOMAIN f, NEW q \in TreePaths, q # <<>>, q \notin DOMAIN f
  PROVE  MovedTo(f, p, q, TreeMoved(f, p, q))
<1> DEFINE stay == {r \in DOMAIN f : ~ IsPrefix(p, r)}
           arrived == {q \o SubSeq(r, Len(p) + 1, Len(r)) : r \in DOMAIN f \ stay}
           g == TreeMoved(f, p, q)
<1>1. p \in TreePaths /\ p # <<>>
  BY TreeIs
<1>2. g = [r \in stay \cup arrived |->
             IF r \in stay THEN f[r] ELSE f[p \o SubSeq(r, Len(q) + 1, Len(r))]]
  BY DEF TreeMoved
<1>3. arrived = {Onto(p, q, r) : r \in DOMAIN f \ stay}
  BY DEF Onto
<1>4. g = [r \in stay \cup arrived |-> IF r \in stay THEN f[r] ELSE f[Onto(q, p, r)]]
  BY <1>2 DEF Onto
<1>5. \A x : x \in arrived <=> \E r \in DOMAIN f : IsPrefix(p, r) /\ x = Onto(p, q, r)
  BY <1>3
<1> HIDE DEF g, arrived
<1>6. Mapping(g)
  BY <1>4 DEF Mapping
<1>7. ASSUME NEW r \in DOMAIN f, IsPrefix(p, r)
      PROVE  g[Onto(p, q, r)] = f[r]
  <2> DEFINE x == Onto(p, q, r)
  <2>1. r \in TreePaths
    BY TreeIs
  <2>2. x \in TreePaths /\ IsPrefix(q, x) /\ Onto(q, p, x) = r
    BY <1>1, <1>7, <2>1, OntoPrefix
  <2>3. x \in arrived
    BY <1>5, <1>7
  <2> HIDE DEF x
  <2>4. x \notin DOMAIN f
    BY <2>2, UnderNothing
  <2>5. x \notin stay /\ x \in stay \cup arrived
    BY <2>3, <2>4
  <2>6. g[x] = f[Onto(q, p, x)]
    BY <1>4, <2>5
  <2> QED
    BY <2>2, <2>6 DEF x
<1>8. ASSUME NEW x \in DOMAIN f, ~ IsPrefix(p, x) PROVE g[x] = f[x]
  <2>1. x \in stay /\ x \in stay \cup arrived
    BY <1>8
  <2> QED
    BY <1>4, <2>1
<1>9. DOMAIN g = stay \cup arrived
  BY <1>4
<1>10. ASSUME NEW x
       PROVE  x \in DOMAIN g <=> \/ x \in DOMAIN f /\ ~ IsPrefix(p, x)
                                 \/ \E r \in DOMAIN f : IsPrefix(p, r) /\ x = Onto(p, q, r)
  BY <1>5, <1>9
<1> QED
  BY <1>6, <1>7, <1>8, <1>10 DEF MovedTo, g

LEMMA MovedTree ==
  ASSUME NEW f, IsTree(f), NEW p \in DOMAIN f, NEW q \in TreePaths, q # <<>>, q \notin DOMAIN f,
         IsDir(f, Parent(q)), ~ IsPrefix(p, q), NEW g, MovedTo(f, p, q, g)
  PROVE  IsTree(g)
<1>1. p \in TreePaths /\ p # <<>>
  BY TreeIs
<1>2. ASSUME NEW x \in TreePaths, IsDir(f, x), ~ IsPrefix(p, x)
      PROVE  IsDir(g, x)
  <2>1. CASE x = <<>>
    BY <2>1 DEF IsDir
  <2>2. CASE x # <<>>
    <3>1. x \in DOMAIN f /\ f[x].dir
      BY <1>2, <2>2 DEF IsDir, Exists
    <3>2. x \in DOMAIN g /\ g[x] = f[x]
      BY <1>2, <3>1 DEF MovedTo
    <3> QED
      BY <3>1, <3>2 DEF IsDir, Exists
  <2> QED
    BY <2>1, <2>2
<1>3. ASSUME NEW x \in TreePaths, x # <<>>, IsDir(f, Parent(x)), ~ IsPrefix(p, x)
      PROVE  IsDir(g, Parent(x))
  <2>1. Parent(x) \in TreePaths /\ IsPrefix(Parent(x), x)
    BY <1>3, ParentIs DEF Child
  <2>2. ~ IsPrefix(p, Parent(x))
    BY <1>1, <1>3, <2>1, PrefixOver
  <2> QED
    BY <1>2, <1>3, <2>1, <2>2
<1>4. ASSUME NEW x \in DOMAIN f, ~ IsPrefix(p, x)
      PROVE  x \in TreePaths /\ x # <<>> /\ g[x] \in Nodes /\ IsDir(g, Parent(x))
  <2>1. x \in TreePaths /\ x # <<>> /\ f[x] \in Nodes /\ IsDir(f, Parent(x))
    BY TreeIs
  <2>2. g[x] = f[x]
    BY <1>4 DEF MovedTo
  <2> QED
    BY <1>3, <1>4, <2>1, <2>2
<1>5. ASSUME NEW r \in DOMAIN f, IsPrefix(p, r), NEW x, x = Onto(p, q, r)
      PROVE  x \in TreePaths /\ x # <<>> /\ g[x] \in Nodes /\ IsDir(g, Parent(x))
  <2>1. r \in TreePaths /\ r # <<>> /\ f[r] \in Nodes /\ IsDir(f, Parent(r))
    BY TreeIs
  <2>a. /\ Onto(p, q, r) \in TreePaths /\ IsPrefix(q, Onto(p, q, r))
        /\ (Onto(p, q, r) = q <=> r = p)
    BY ONLY <1>1, IsPrefix(p, r), q \in TreePaths, <2>1, OntoPrefix
  <2>2. x \in TreePaths /\ IsPrefix(q, x) /\ (x = q <=> r = p)
    BY <1>5, <2>a, Zenon
  <2>3. x # <<>>
    <3>1. Len(q) <= Len(x)
      BY <2>2, PrefixLen
    <3> QED
      BY <2>2, <3>1, LenIs, EmptyPath
  <2>4. g[x] = f[r]
    BY <1>5 DEF MovedTo
  <2>5. IsDir(g, Parent(x))
    <3>1. CASE r = p
      BY <1>3, <2>2, <3>1
    <3>2. CASE r # p
      <4> DEFINE o == Parent(r)
      <4>1. o \in TreePaths /\ Len(r) = Len(o) + 1 /\ Child(o, r) /\ IsPrefix(o, r)
        BY <2>1, ParentIs DEF Child
      <4> HIDE DEF o
      <4>2. Len(p) <= Len(r) /\ Len(p) # Len(r) /\ Len(o) \in Nat /\ Len(p) \in Nat /\ Len(p) # 0
        BY <1>1, <1>5, <2>1, <3>2, <4>1, PrefixLen, LenIs
      <4>3. Len(p) <= Len(o)
        BY <4>1, <4>2
      <4>4. IsPrefix(p, o)
        BY <1>1, <1>5, <2>1, <4>1, <4>3, PrefixesMeet
      <4>5. o # <<>>
        BY <4>1, <4>2, <4>3, LenIs
      <4>6. o \in DOMAIN f /\ f[o].dir
        BY <2>1, <4>5 DEF IsDir, Exists, o
      <4>7. Child(Onto(p, q, o), Onto(p, q, r)) /\ Onto(p, q, o) \in TreePaths
        BY <1>1, <2>1, <4>1, <4>4, OntoChild, OntoPrefix
      <4>8. Parent(x) = Onto(p, q, o)
        BY <1>5, <2>2, <4>7, ParentOfChild
      <4>9. Onto(p, q, o) \in DOMAIN g /\ g[Onto(p, q, o)] = f[o]
        BY <4>4, <4>6 DEF MovedTo
      <4> QED
        BY <4>6, <4>8, <4>9 DEF IsDir, Exists
    <3> QED
      BY <3>1, <3>2
  <2> QED
    BY <2>1, <2>2, <2>3, <2>4, <2>5
<1>6. ASSUME NEW x \in DOMAIN g
      PROVE  x \in TreePaths /\ x # <<>> /\ g[x] \in Nodes /\ IsDir(g, Parent(x))
  <2>1. \/ x \in DOMAIN f /\ ~ IsPrefix(p, x)
        \/ \E r \in DOMAIN f : IsPrefix(p, r) /\ x = Onto(p, q, r)
    BY DEF MovedTo
  <2> QED
    BY <1>4, <1>5, <2>1
<1>7. Mapping(g)
  BY DEF MovedTo
<1> QED
  BY <1>6, <1>7, TreeMade

(***************************************************************************)
(* Directories: what every operation leaves is a tree.                     *)
(***************************************************************************)

\* Files that are open are there.
Opened(f, b) == \A p \in b : IsFile(f, p)
Stands(f, b) == IsTree(f) /\ Opened(f, b)

LEMMA HoldsStands ==
  ASSUME NEW f, NEW b, Stands(f, b), NEW p \in TreePaths, p \notin b,
         p # <<>>, IsDir(f, Parent(p)), NEW n \in Nodes, p \in DOMAIN f => f[p].dir = n.dir
  PROVE  Stands(Holds(f, p, n), b)
<1> DEFINE g == Holds(f, p, n)
<1>1. IsTree(f) /\ Opened(f, b)
  BY DEF Stands
<1>2. IsTree(g)
  BY <1>1, HoldsTree
<1>3. /\ DOMAIN g = DOMAIN f \cup {p} 
      /\ \A q \in DOMAIN f : q # p => g[q] = f[q]
  BY DEF Holds
<1> HIDE DEF g
<1>4. Opened(g, b)
  BY <1>1, <1>3 DEF Opened, IsFile, Exists
<1> QED
  BY <1>2, <1>4 DEF Stands, g

LEMMA FileHeld ==
  ASSUME NEW f, NEW b, Stands(f, b), NEW p, NEW q \in TreePaths, CanCopyFile(f, b, p, q)
  PROVE  Stands(Holds(f, q, f[p]), b) /\ f[p] \in Nodes /\ ~ f[p].dir /\ p \in DOMAIN f
<1>1. IsTree(f) /\ Opened(f, b)
  BY DEF Stands
<1>2. p \in DOMAIN f /\ ~ f[p].dir /\ q # <<>> /\ IsDir(f, Parent(q))
  BY DEF CanCopyFile, IsFile, Exists, Place
<1>3. q \in DOMAIN f => ~ f[q].dir /\ q \notin b
  BY DEF CanCopyFile, IsFile, Exists
<1>4. q \notin b
  BY <1>1, <1>3 DEF Opened, IsFile, Exists
<1>5. f[p] \in Nodes
  BY <1>1, <1>2, TreeIs
<1>6. q \in DOMAIN f => f[q].dir = f[p].dir
  <2>1. f[p].dir \in BOOLEAN
    BY <1>5, NodeIs
  <2>2. q \in DOMAIN f => f[q].dir \in BOOLEAN
    BY <1>1, TreeIs, NodeIs
  <2> QED
    BY <1>2, <1>3, <2>1, <2>2
<1> QED
  BY <1>2, <1>4, <1>5, <1>6, HoldsStands

LEMMA DirectoryHeld ==
  ASSUME NEW f, NEW b, Stands(f, b), NEW q \in TreePaths, CanCreateDirectory(f, q)
  PROVE  Stands(Holds(f, q, Directory), b)
<1>1. q # <<>> /\ IsDir(f, Parent(q)) /\ q \notin DOMAIN f
  BY DEF CanCreateDirectory, Exists, Place
<1>2. q \notin b
  BY <1>1 DEF Stands, Opened, IsFile, Exists
<1> QED
  BY <1>1, <1>2, DirectoryIs, HoldsStands

LEMMA LacksStands ==
  ASSUME NEW f, NEW b, Stands(f, b), NEW p, p \notin b, IsFile(f, p) \/ Children(f, p) = {}
  PROVE  Stands(Lacks(f, p), b)
<1> DEFINE g == Lacks(f, p)
<1>1. IsTree(f) /\ Opened(f, b)
  BY DEF Stands
<1>2. IsTree(g)
  BY <1>1, LacksTree
<1>3. DOMAIN g = DOMAIN f \ {p} /\ \A q \in DOMAIN f : q # p => g[q] = f[q]
  BY LacksIs
<1> HIDE DEF g
<1>4. Opened(g, b)
  BY <1>1, <1>3 DEF Opened, IsFile, Exists
<1> QED
  BY <1>2, <1>4 DEF Stands, g

LEMMA FileLacks ==
  ASSUME NEW f, NEW b, Stands(f, b), NEW p, CanDeleteFile(f, b, p)
  PROVE  Stands(Lacks(f, p), b)
BY LacksStands DEF CanDeleteFile

LEMMA DirectoryLacks ==
  ASSUME NEW f, NEW b, Stands(f, b), NEW p, CanRemoveDirectory(f, p)
  PROVE  Stands(Lacks(f, p), b)
<1>1. Children(f, p) = {} /\ p \in DOMAIN f /\ f[p].dir
  BY DEF CanRemoveDirectory, Exists, IsDir
<1>2. p \notin b
  BY <1>1 DEF Stands, Opened, IsFile
<1> QED
  BY <1>1, <1>2, LacksStands

LEMMA WritableStands ==
  ASSUME NEW f, NEW b, Stands(f, b), NEW p
  PROVE  Stands(WithoutReadonly(f, p), b)
<1> DEFINE g == WithoutReadonly(f, p)
<1>1. IsTree(f) /\ Opened(f, b)
  BY DEF Stands
<1>2. DOMAIN g = DOMAIN f /\ IsTree(g) /\ \A q \in DOMAIN f : g[q].dir = f[q].dir
  BY <1>1, WritableIs
<1> HIDE DEF g
<1>3. Opened(g, b)
  BY <1>1, <1>2 DEF Opened, IsFile, Exists
<1> QED
  BY <1>2, <1>3 DEF Stands, g

LEMMA MovedStands ==
  ASSUME NEW f, NEW b, Stands(f, b), NEW p, NEW q \in TreePaths, CanMove(f, b, p, q)
  PROVE  Stands(TreeMoved(f, p, q), b)
<1> DEFINE g == TreeMoved(f, p, q)
<1>1. IsTree(f) /\ Opened(f, b)
  BY DEF Stands
<1>2. /\ p \in DOMAIN f /\ q # <<>> /\ IsDir(f, Parent(q)) /\ q \notin DOMAIN f
      /\ ~ IsPrefix(p, q) /\ \A x \in b : ~ IsPrefix(p, x)
  BY DEF CanMove, Exists, Place
<1>3. MovedTo(f, p, q, g)
  BY <1>1, <1>2, MovedIs
<1> HIDE DEF g
<1>4. IsTree(g)
  BY <1>1, <1>2, <1>3, MovedTree
<1>5. Opened(g, b)
  BY <1>1, <1>2, <1>3 DEF Opened, IsFile, Exists, MovedTo
<1> QED
  BY <1>4, <1>5 DEF Stands, g

(***************************************************************************)
(* Directories: the levels of the recursion.                               *)
(***************************************************************************)
LevelSteps == {"enter", "search", "entry", "leave"}
LevelRecords == [path : TreePaths, newPath : TreePaths, step : LevelSteps, listed : SUBSET TreePaths,
                 seen : SUBSET TreePaths, entry : TreePaths, isDir : BOOLEAN]
Stack == Seq(LevelRecords)

\* What the actions do to the levels lv, which become lw.
TopSet(lv, fr, lw) == lw = [lv EXCEPT ![Len(lv)] = fr]
Stepped(lv, s, lw) == lw = [lv EXCEPT ![Len(lv)].step = s]
Pushed(lv, fr, lw) == lw = Append(lv, fr)
Popped(lv, lw) == lw = SubSeq(lv, 1, Len(lv) - 1)

LEMMA StackLen ==
  ASSUME NEW lv \in Stack, lv # <<>>
  PROVE  Len(lv) \in Nat /\ Len(lv) >= 1 /\ \A i \in 1 .. Len(lv) : lv[i] \in LevelRecords
BY DEF Stack

LEMMA TopSetIs ==
  ASSUME NEW lv \in Stack, lv # <<>>, NEW fr \in LevelRecords, NEW lw, TopSet(lv, fr, lw)
  PROVE  /\ lw \in Stack /\ Len(lw) = Len(lv) /\ lw[Len(lv)] = fr
         /\ \A i \in 1 .. Len(lv) - 1 : lw[i] = lv[i]
BY DEF Stack, TopSet

LEMMA SteppedIs ==
  ASSUME NEW lv \in Stack, lv # <<>>, NEW s \in LevelSteps, NEW lw, Stepped(lv, s, lw)
  PROVE  TopSet(lv, [lv[Len(lv)] EXCEPT !.step = s], lw)
BY DEF Stack, TopSet, Stepped

LEMMA PushedIs ==
  ASSUME NEW lv \in Stack, NEW fr \in LevelRecords, NEW lw, Pushed(lv, fr, lw)
  PROVE  /\ lw \in Stack /\ Len(lw) = Len(lv) + 1 /\ lw[Len(lv) + 1] = fr
         /\ \A i \in 1 .. Len(lv) : lw[i] = lv[i]
BY DEF Stack, Pushed

LEMMA PoppedIs ==
  ASSUME NEW lv \in Stack, lv # <<>>, NEW lw, Popped(lv, lw)
  PROVE  /\ lw \in Stack /\ Len(lw) = Len(lv) - 1
         /\ \A i \in 1 .. Len(lv) - 1 : lw[i] = lv[i]
<1>1. lv \in Seq(LevelRecords) /\ Len(lv) - 1 \in 0 .. Len(lv)
  BY StackLen DEF Stack
<1>2. /\ Cut(lv, Len(lv) - 1) \in Seq(LevelRecords) /\ Len(Cut(lv, Len(lv) - 1)) = Len(lv) - 1
      /\ \A i \in 1 .. Len(lv) - 1 : Cut(lv, Len(lv) - 1)[i] = lv[i]
  BY <1>1, CutOf
<1>3. lw = Cut(lv, Len(lv) - 1)
  BY DEF Popped, Cut
<1> QED
  BY <1>2, <1>3 DEF Stack

LEMMA FrameIs ==
  ASSUME NEW p \in TreePaths, NEW q \in TreePaths
  PROVE  /\ Frame(p, q) \in LevelRecords /\ Frame(p, q).path = p /\ Frame(p, q).newPath = q
         /\ Frame(p, q).step = "enter" /\ Frame(p, q).listed = {} /\ Frame(p, q).seen = {}
BY EmptyPath DEF Frame, LevelRecords, LevelSteps

\* A level l of the call c works inside the directory of the call, and at the corresponding place of
\* the new directory; what it was listed and what it was given last are children of its directory.
LevelOK(c, l) ==
    /\ IsPrefix(c.path, l.path) /\ IsPrefix(c.newPath, l.newPath)
    /\ c.op = "delete_directory" => l.newPath = l.path
    /\ c.op = "copy_directory" => l.newPath = Onto(c.path, c.newPath, l.path)
    /\ \A e \in l.listed : Child(l.path, e)
    /\ l.step = "enter" => l.seen = {}
    /\ l.step = "entry" => Child(l.path, l.entry) /\ l.entry \in l.seen

\* The level j calls deep.
Deep(c, l, j) == LevelOK(c, l) /\ Len(l.path) = Len(c.path) + j - 1

\* Every level has called the next one for an entry it has seen.
Calls(l, m) == l.step = "search" /\ Child(l.path, m.path) /\ m.path \in l.seen

\* The levels lead down from the directory of the call, one name at a time: so there are never more
\* of them than the longest path has names, and a level is not the one that called it.
Chain(c, lv) ==
    /\ lv \in Stack
    /\ \A j \in 1 .. Len(lv) : Deep(c, lv[j], j)
    /\ \A j \in 1 .. Len(lv) - 1 : Calls(lv[j], lv[j + 1])

LEMMA ChainTop ==
  ASSUME NEW c, NEW lv, Chain(c, lv), lv # <<>>, NEW fr \in LevelRecords,
         fr.path = lv[Len(lv)].path, LevelOK(c, fr), NEW lw, TopSet(lv, fr, lw)
  PROVE  Chain(c, lw)
<1> DEFINE n == Len(lv)
<1>1. lv \in Stack
  BY DEF Chain
<1>2. n \in Nat /\ n >= 1
  BY <1>1, StackLen
<1>3. lw \in Stack /\ Len(lw) = n /\ lw[n] = fr /\ \A i \in 1 .. n - 1 : lw[i] = lv[i]
  BY <1>1, TopSetIs
<1>4. /\ \A j \in 1 .. n : Deep(c, lv[j], j)
      /\ \A j \in 1 .. n - 1 : Calls(lv[j], lv[j + 1])
  BY DEF Chain
<1>f. fr.path = lv[n].path
  OBVIOUS
<1> HIDE DEF n
<1>5. ASSUME NEW j \in 1 .. n
      PROVE  Deep(c, lw[j], j)
  <2>1. j \in 1 .. n - 1 \/ j = n
    BY <1>2
  <2> QED
    BY <1>3, <1>4, <1>f, <2>1 DEF Deep
<1>6. ASSUME NEW j \in 1 .. n - 1 PROVE Calls(lw[j], lw[j + 1])
  <2>1. j + 1 \in 1 .. n - 1 \/ j + 1 = n
    BY <1>2
  <2>2. lw[j] = lv[j] /\ lw[j + 1].path = lv[j + 1].path
    BY <1>3, <1>f, <2>1
  <2> QED
    BY <1>4, <2>2 DEF Calls
<1> QED
  BY <1>3, <1>5, <1>6 DEF Chain

\* A level that goes on when the next one returns.
Resumed(l) == [l EXCEPT !.step = "search"]

LEMMA ChainDown ==
  ASSUME NEW c, c.path \in TreePaths, NEW lv, Chain(c, lv), lv # <<>>, lv[Len(lv)].step = "entry",
         NEW fr \in LevelRecords, fr.path = lv[Len(lv)].entry, LevelOK(c, fr),
         NEW lu, Stepped(lv, "search", lu), NEW lw, Pushed(lu, fr, lw)
  PROVE  /\ Chain(c, lw) /\ Len(lw) = Len(lv) + 1 /\ lw[Len(lv) + 1] = fr
         /\ lw[Len(lv)] = Resumed(lv[Len(lv)])
         /\ \A i \in 1 .. Len(lv) - 1 : lw[i] = lv[i]
<1> DEFINE n == Len(lv)
           l == lv[n]
           m == [l EXCEPT !.step = "search"]
<1>1. lv \in Stack
  BY DEF Chain
<1>2. n \in Nat /\ n >= 1 /\ l \in LevelRecords
  BY <1>1, StackLen
<1>3. /\ m \in LevelRecords /\ m.path = l.path /\ m.newPath = l.newPath /\ m.step = "search"
      /\ m.listed = l.listed /\ m.seen = l.seen
  BY <1>2 DEF LevelRecords, LevelSteps
<1>4. TopSet(lv, m, lu)
  <2>1. "search" \in LevelSteps
    BY DEF LevelSteps
  <2> QED
    BY <1>1, <2>1, SteppedIs
<1>l. /\ LevelOK(c, l) /\ Len(l.path) = Len(c.path) + n - 1
      /\ fr.path = l.entry /\ l.step = "entry"
  BY <1>2 DEF Chain, Deep
<1> HIDE DEF m
<1>5. LevelOK(c, m)
  BY <1>3, <1>l DEF LevelOK
<1>6. Chain(c, lu)
  BY <1>3, <1>4, <1>5, ChainTop
<1>7. lu \in Stack /\ Len(lu) = n /\ lu[n] = m /\ \A i \in 1 .. n - 1 : lu[i] = lv[i]
  BY <1>1, <1>3, <1>4, TopSetIs
<1>8. /\ lw \in Stack /\ Len(lw) = n + 1 /\ lw[n + 1] = fr
      /\ \A i \in 1 .. n : lw[i] = lu[i]
  BY <1>7, PushedIs
<1>9. /\ \A j \in 1 .. n : Deep(c, lu[j], j)
      /\ \A j \in 1 .. n - 1 : Calls(lu[j], lu[j + 1])
  BY <1>6, <1>7 DEF Chain
<1>10. Child(l.path, l.entry) /\ l.entry \in l.seen
  BY <1>l DEF LevelOK
<1>11. Len(fr.path) = Len(c.path) + (n + 1) - 1
  <2>1. Len(l.entry) = Len(l.path) + 1
    BY <1>10 DEF Child
  <2> QED
    BY <1>2, <1>l, <2>1, LenIs
<1> HIDE DEF n, l
<1>12. ASSUME NEW j \in 1 .. n + 1
       PROVE  Deep(c, lw[j], j)
  <2>1. j \in 1 .. n \/ j = n + 1
    BY <1>2
  <2> QED
    BY <1>8, <1>9, <1>11, <2>1 DEF Deep
<1>13. ASSUME NEW j \in 1 .. n + 1 - 1 PROVE Calls(lw[j], lw[j + 1])
  <2>1. CASE j \in 1 .. n - 1
    <3>1. j \in 1 .. n /\ j + 1 \in 1 .. n
      BY <1>2, <2>1
    <3> QED
      BY <1>8, <1>9, <2>1, <3>1
  <2>2. CASE j = n
    <3>1. lw[j] = m /\ lw[j + 1] = fr
      BY <1>2, <1>7, <1>8, <2>2
    <3> QED
      BY <1>3, <1>10, <1>l, <3>1 DEF Calls
  <2>3. j \in 1 .. n - 1 \/ j = n
    BY <1>2
  <2> QED
    BY <2>1, <2>2, <2>3
<1>14. \A i \in 1 .. n - 1 : lw[i] = lv[i]
  <2>1. \A i \in 1 .. n - 1 : i \in 1 .. n
    BY <1>2
  <2> QED
    BY <1>7, <1>8, <2>1
<1>15. lw[n] = m
  <2>1. n \in 1 .. n
    BY <1>2
  <2> QED
    BY <1>7, <1>8, <2>1
<1>16. Chain(c, lw)
  <2>1. n + 1 - 1 = Len(lw) - 1 /\ n + 1 = Len(lw)
    BY <1>2, <1>8
  <2>2. \A j \in 1 .. Len(lw) - 1 : Calls(lw[j], lw[j + 1])
    BY <1>13, <2>1
  <2>3. \A j \in 1 .. Len(lw) : Deep(c, lw[j], j)
    BY <1>12, <2>1
  <2> QED
    BY <1>8, <2>2, <2>3 DEF Chain
<1> QED
  BY <1>8, <1>14, <1>15, <1>16 DEF Resumed, m, n, l

LEMMA ChainUp ==
  ASSUME NEW c, NEW lv, Chain(c, lv), lv # <<>>, NEW lw, Popped(lv, lw)
  PROVE  Chain(c, lw)
<1> DEFINE n == Len(lv)
<1>1. lv \in Stack
  BY DEF Chain
<1>2. n \in Nat /\ n >= 1
  BY <1>1, StackLen
<1>3. lw \in Stack /\ Len(lw) = n - 1 /\ \A i \in 1 .. n - 1 : lw[i] = lv[i]
  BY <1>1, PoppedIs
<1>4. /\ \A j \in 1 .. n : Deep(c, lv[j], j)
      /\ \A j \in 1 .. n - 1 : Calls(lv[j], lv[j + 1])
  BY DEF Chain
<1> HIDE DEF n
<1>5. \A j \in 1 .. n - 1 : j \in 1 .. n
  BY <1>2
<1>6. \A j \in 1 .. n - 1 - 1 : j \in 1 .. n - 1 /\ j + 1 \in 1 .. n - 1
  BY <1>2
<1> QED
  BY <1>3, <1>4, <1>5, <1>6 DEF Chain

LEMMA ChainOne ==
  ASSUME NEW c, NEW fr \in LevelRecords, LevelOK(c, fr), fr.path = c.path, c.path \in TreePaths
  PROVE  Chain(c, <<fr>>) /\ Chain(c, <<>>)
<1> DEFINE lv == <<fr>>
<1>1. lv \in Stack /\ Len(lv) = 1 /\ lv[1] = fr
  BY DEF Stack
<1> HIDE DEF lv
<1>2. Len(c.path) = Len(c.path) + 1 - 1
  BY LenIs
<1>3. \A j \in 1 .. Len(lv) : lv[j] = fr /\ j = 1
  BY <1>1
<1>4. 1 .. Len(lv) - 1 = {}
  BY <1>1
<1>5. Chain(c, lv)
  BY <1>1, <1>2, <1>3, <1>4 DEF Chain, Deep
<1>6. Chain(c, <<>>)
  BY DEF Chain, Stack
<1> QED
  BY <1>5, <1>6 DEF lv

\* A call has paths; a deletion has the one directory as both.
CallOK(c) == /\ c.path \in TreePaths /\ c.newPath \in TreePaths
             /\ c.op = "delete_directory" => c.newPath = c.path

OpenOf(step) == IF step \in {"search", "entry"} THEN 1 ELSE 0
Open(lv) == Len(lv) - 1 + OpenOf(lv[Len(lv)].step)

\* Every level has its search open, the innermost one only while it goes on.
Counted(lv, r, s) ==
    s \in Nat /\ (lv # <<>> => s = Open(lv)) /\ (lv = <<>> /\ r => s = 0)

\* Only the two recursive opcodes have levels.
Deepest ==
    levels # <<>> => call.op \in {"delete_directory", "copy_directory"}

\* What holds however others meddle.
TreesBase ==
    /\ Stands(fs, busy) /\ IsTree(before)
    /\ CallOK(call) /\ reply \in BOOLEAN
    /\ Chain(call, levels) /\ Deepest
    /\ Counted(levels, reply, searches)

LEMMA LevelIs ==
  ASSUME TreesBase, ~ Idle
  PROVE  /\ levels \in Stack /\ levels # <<>> /\ Len(levels) \in Nat /\ Len(levels) >= 1
         /\ Level = levels[Len(levels)] /\ Level \in LevelRecords /\ LevelOK(call, Level)
         /\ Deep(call, Level, Len(levels))
<1>1. levels # <<>> /\ Chain(call, levels)
  BY DEF Idle, TreesBase
<1>2. levels \in Stack
  BY <1>1 DEF Chain
<1>3. /\ Len(levels) \in Nat /\ Len(levels) >= 1
      /\ \A i \in 1 .. Len(levels) : levels[i] \in LevelRecords
  BY <1>1, <1>2, StackLen
<1>4. Len(levels) \in 1 .. Len(levels)
  BY <1>3
<1>5. Deep(call, levels[Len(levels)], Len(levels))
  BY <1>1, <1>4 DEF Chain
<1> QED
  BY <1>1, <1>2, <1>3, <1>4, <1>5 DEF Level, Deep

\* The innermost level goes to another step.
LEMMA CountTop ==
  ASSUME NEW lv \in Stack, lv # <<>>, NEW fr \in LevelRecords, NEW lw, TopSet(lv, fr, lw),
         NEW r, NEW s, Counted(lv, r, s), NEW t, NEW x,
         t = s + (OpenOf(fr.step) - OpenOf(lv[Len(lv)].step))
  PROVE  Counted(lw, x, t)
<1>1. Len(lv) \in Nat /\ Len(lv) >= 1
  BY StackLen
<1>2. lw \in Stack /\ Len(lw) = Len(lv) /\ lw[Len(lv)] = fr
  BY TopSetIs
<1>3. lw # <<>>
  BY <1>1, <1>2
<1>4. s \in Nat /\ s = Len(lv) - 1 + OpenOf(lv[Len(lv)].step)
  BY DEF Counted, Open
<1>5. OpenOf(lv[Len(lv)].step) \in {0, 1} /\ OpenOf(fr.step) \in {0, 1}
  BY DEF OpenOf
<1>6. t = Len(lw) - 1 + OpenOf(lw[Len(lw)].step) /\ t \in Nat
  BY <1>1, <1>2, <1>4, <1>5
<1> QED
  BY <1>3, <1>6 DEF Counted, Open

LEMMA SearchOpens ==
  ASSUME TreesBase, ~ Idle, Level.step = "enter", Stands(fs', busy), OpenSearch,
         UNCHANGED <<call, before, busy, reply>>
  PROVE  TreesBase'
<1> DEFINE l == Level
           a == [l EXCEPT !.step = "search", !.listed = Children(fs', l.path)]
           b == [l EXCEPT !.step = "leave"]
<1>1. /\ levels \in Stack /\ levels # <<>> /\ l = levels[Len(levels)] /\ l \in LevelRecords
      /\ LevelOK(call, l) /\ Chain(call, levels) /\ Counted(levels, reply, searches)
  BY LevelIs DEF TreesBase
<1>2. \A e \in Children(fs', l.path) : Child(l.path, e) /\ e \in TreePaths
  BY ChildrenAre, TreeIs DEF Stands
<1>3. /\ a \in LevelRecords /\ a.path = l.path /\ a.newPath = l.newPath /\ a.step = "search"
      /\ a.listed = Children(fs', l.path)
  BY <1>1, <1>2 DEF LevelRecords, LevelSteps
<1>4. /\ b \in LevelRecords /\ b.path = l.path /\ b.newPath = l.newPath /\ b.step = "leave"
      /\ b.listed = l.listed
  BY <1>1 DEF LevelRecords, LevelSteps
<1>5. \/ TopSet(levels, a, levels') /\ searches' = searches + 1
      \/ TopSet(levels, b, levels') /\ searches' = searches
  BY DEF OpenSearch, SetTop, TopSet
<1>6. LevelOK(call, a) /\ LevelOK(call, b)
  <2> HIDE DEF a, b
  <2> QED
    BY <1>1, <1>2, <1>3, <1>4 DEF LevelOK
<1>7. Level.step = "enter"
  OBVIOUS
<1>8. /\ OpenOf("enter") = 0 /\ OpenOf("search") = 1 /\ OpenOf("leave") = 0
      /\ searches \in Nat
  BY <1>1 DEF OpenOf, Counted
<1> HIDE DEF a, b, l
<1>9. Chain(call, levels') /\ Counted(levels', reply, searches')
  <2>1. CASE TopSet(levels, a, levels') /\ searches' = searches + 1
    <3>1. searches' = searches + (OpenOf(a.step) - OpenOf(levels[Len(levels)].step))
      BY <1>1, <1>3, <1>7, <1>8, <2>1 DEF l
    <3> QED
      BY <1>1, <1>3, <1>6, <2>1, <3>1, ChainTop, CountTop
  <2>2. CASE TopSet(levels, b, levels') /\ searches' = searches
    <3>1. searches' = searches + (OpenOf(b.step) - OpenOf(levels[Len(levels)].step))
      BY <1>1, <1>4, <1>7, <1>8, <2>2 DEF l
    <3> QED
      BY <1>1, <1>4, <1>6, <2>2, <3>1, ChainTop, CountTop
  <2> QED
    BY <1>5, <2>1, <2>2
<1> QED
  BY <1>9 DEF TreesBase, Deepest, Idle

LEMMA FailBase ==
  ASSUME TreesBase, Stands(fs', busy), Fail, UNCHANGED <<call, before, busy, searches>>
  PROVE  TreesBase'
<1>1. levels' = <<>> /\ reply' = FALSE
  BY DEF Fail
<1>2. Chain(call, <<>>)
  BY DEF Chain, Stack
<1>3. searches \in Nat
  BY DEF TreesBase, Counted
<1>4. Counted(levels', reply', searches')
  BY <1>1, <1>3 DEF Counted
<1> QED
  BY <1>1, <1>2, <1>4 DEF TreesBase, Deepest

LEMMA StepBase ==
  ASSUME TreesBase, ~ Idle, Stands(fs', busy), NEW fr \in LevelRecords, SetTop(fr),
         fr.path = Level.path, LevelOK(call, fr),
         searches' = searches + (OpenOf(fr.step) - OpenOf(Level.step)),
         UNCHANGED <<call, before, busy, reply>>
  PROVE  TreesBase'
<1>1. /\ levels \in Stack /\ levels # <<>> /\ Level = levels[Len(levels)]
      /\ Chain(call, levels) /\ Counted(levels, reply, searches)
  BY LevelIs DEF TreesBase
<1>2. TopSet(levels, fr, levels')
  BY DEF SetTop, TopSet
<1>3. Chain(call, levels')
  BY <1>1, <1>2, ChainTop
<1>4. Counted(levels', reply, searches')
  BY <1>1, <1>2, CountTop
<1> QED
  BY <1>1, <1>3, <1>4 DEF TreesBase, Deepest

LEMMA DescendIs ==
  ASSUME TreesBase, ~ Idle, Level.step = "entry", NEW q \in TreePaths, Descend(Level.entry, q),
         LevelOK(call, Frame(Level.entry, q))
  PROVE  LET fr == Frame(Level.entry, q)
             n == Len(levels)
         IN  /\ fr \in LevelRecords /\ fr.path = Level.entry /\ fr.newPath = q /\ fr.step = "enter"
             /\ Chain(call, levels') /\ Len(levels') = n + 1 /\ levels'[n + 1] = fr
             /\ levels'[n] = Resumed(levels[n]) /\ \A i \in 1 .. n - 1 : levels'[i] = levels[i]
             /\ UNCHANGED <<fs, reply>>
<1> DEFINE n == Len(levels)
           fr == Frame(Level.entry, q)
           lu == [levels EXCEPT ![n].step = "search"]
<1>1. /\ levels \in Stack /\ levels # <<>> /\ n \in Nat /\ n >= 1 /\ Level = levels[n]
      /\ Level \in LevelRecords /\ Chain(call, levels) /\ call.path \in TreePaths
  BY LevelIs DEF TreesBase, CallOK
<1>2. Level.entry \in TreePaths
  BY <1>1 DEF LevelRecords
<1>3. fr \in LevelRecords /\ fr.path = Level.entry /\ fr.newPath = q /\ fr.step = "enter"
  BY <1>2, FrameIs
<1>4. Stepped(levels, "search", lu)
  BY DEF Stepped
<1>5. Pushed(lu, fr, levels') /\ UNCHANGED <<fs, reply>>
  BY DEF Descend, Pushed
<1>6. LevelOK(call, fr) /\ Level.step = "entry"
  OBVIOUS
<1> HIDE DEF n, fr, lu
<1>7. fr.path = levels[Len(levels)].entry /\ levels[Len(levels)].step = "entry"
  BY <1>1, <1>3, <1>6 DEF n
<1>8. /\ Chain(call, levels') /\ Len(levels') = Len(levels) + 1
      /\ levels'[Len(levels) + 1] = fr
      /\ levels'[Len(levels)] = Resumed(levels[Len(levels)])
      /\ \A i \in 1 .. Len(levels) - 1 : levels'[i] = levels[i]
  BY ONLY <1>1, <1>3, <1>4, <1>5, <1>6, <1>7, ChainDown
<1> QED
  BY <1>3, <1>5, <1>8 DEF n, fr

LEMMA DescendBase ==
  ASSUME TreesBase, ~ Idle, Level.step = "entry", NEW q \in TreePaths, Descend(Level.entry, q),
         LevelOK(call, Frame(Level.entry, q)),
         UNCHANGED <<call, before, busy, searches>>
  PROVE  TreesBase'
<1> DEFINE n == Len(levels)
           fr == Frame(Level.entry, q)
<1>1. /\ levels \in Stack /\ levels # <<>> /\ n \in Nat /\ n >= 1 /\ Level = levels[n]
      /\ Counted(levels, reply, searches)
  BY LevelIs DEF TreesBase
<1>2. /\ fr.step = "enter" /\ Chain(call, levels') /\ Len(levels') = n + 1
      /\ levels'[n + 1] = fr /\ UNCHANGED <<fs, reply>>
  BY DescendIs
<1>3. Level.step = "entry"
  OBVIOUS
<1> HIDE DEF n, fr
<1>4. Counted(levels', reply', searches')
  <2>1. searches \in Nat /\ searches = n - 1 + 1
    BY <1>1, <1>3 DEF Counted, Open, OpenOf, n
  <2>2. levels' # <<>>
    BY <1>1, <1>2
  <2>3. OpenOf(levels'[Len(levels')].step) = 0
    BY <1>2 DEF OpenOf
  <2>4. searches' = Len(levels') - 1 + OpenOf(levels'[Len(levels')].step)
    BY <1>1, <1>2, <2>1, <2>3
  <2> QED
    BY <2>1, <2>2, <2>4 DEF Counted, Open
<1> QED
  BY <1>1, <1>2, <1>4 DEF TreesBase, Deepest

LEMMA ReturnBase ==
  ASSUME TreesBase, ~ Idle, Level.step = "leave", Stands(fs', busy), ReturnTrue,
         UNCHANGED <<call, before, busy, searches>>
  PROVE  TreesBase'
<1> DEFINE n == Len(levels)
<1>1. /\ levels \in Stack /\ levels # <<>> /\ n \in Nat /\ n >= 1 /\ Level = levels[n]
      /\ Chain(call, levels) /\ Counted(levels, reply, searches)
  BY LevelIs DEF TreesBase
<1>2. Popped(levels, levels') /\ reply' = IF n = 1 THEN TRUE ELSE reply
  BY DEF ReturnTrue, Popped
<1>3. /\ levels' \in Stack /\ Len(levels') = n - 1
      /\ \A i \in 1 .. n - 1 : levels'[i] = levels[i]
  BY <1>1, <1>2, PoppedIs
<1>4. Chain(call, levels')
  BY <1>1, <1>2, ChainUp
<1>5. searches \in Nat /\ searches = n - 1
  BY <1>1 DEF Counted, Open, OpenOf
<1>6. ASSUME levels' # <<>> PROVE searches' = Open(levels')
  <2>1. Len(levels') # 0
    BY <1>3, <1>6 DEF Stack
  <2>2. n - 1 \in 1 .. n - 1 /\ n - 1 + 1 = n
    BY <1>1, <1>3, <2>1
  <2>3. Calls(levels[n - 1], levels[n - 1 + 1])
    BY <1>1, <2>2 DEF Chain
  <2>4. levels'[Len(levels')].step = "search"
    BY <1>3, <2>2, <2>3 DEF Calls
  <2>5. OpenOf(levels'[Len(levels')].step) = 1
    BY <2>4 DEF OpenOf
  <2> QED
    BY <1>1, <1>3, <1>5, <2>5 DEF Open
<1>7. ASSUME levels' = <<>> PROVE searches' = 0
  <2>1. Len(levels') = 0
    BY <1>7
  <2> QED
    BY <1>1, <1>3, <1>5, <2>1
<1>8. Counted(levels', reply', searches')
  BY <1>5, <1>6, <1>7 DEF Counted
<1>9. reply' \in BOOLEAN
  BY <1>2 DEF TreesBase
<1>10. Deepest'
  BY <1>1 DEF TreesBase, Deepest
<1> QED
  BY <1>4, <1>8, <1>9, <1>10 DEF TreesBase

LEMMA SingleBase ==
  ASSUME TreesBase, NEW op, NEW p \in TreePaths, NEW q \in TreePaths, Begins(op, p, q),
         op # "delete_directory", Stands(fs', busy), reply' \in BOOLEAN, UNCHANGED levels
  PROVE  TreesBase'
<1>1. /\ levels = <<>> /\ call' = [op |-> op, path |-> p, newPath |-> q] /\ before' = fs
      /\ searches' = 0 /\ busy' = busy
  BY DEF Begins, Idle
<1>2. CallOK(call')
  BY <1>1 DEF CallOK
<1>3. Chain(call', levels') /\ Deepest' /\ Counted(levels', reply', searches')
  BY <1>1 DEF Chain, Stack, Deepest, Counted
<1>4. IsTree(before') /\ Stands(fs', busy')
  BY <1>1 DEF TreesBase, Stands
<1> QED
  BY <1>2, <1>3, <1>4 DEF TreesBase

LEMMA RecursiveBase ==
  ASSUME TreesBase, NEW op \in {"delete_directory", "copy_directory"},
         NEW p \in TreePaths, NEW q \in TreePaths, Recursive(op, p, q),
         op = "delete_directory" => q = p
  PROVE  TreesBase'
<1> DEFINE fr == Frame(p, q)
           c == [op |-> op, path |-> p, newPath |-> q]
<1>1. /\ call' = c /\ before' = fs /\ searches' = 0 /\ busy' = busy
      /\ levels' = <<fr>> /\ fs' = fs /\ reply' = reply
  BY DEF Begins, Recursive
<1>2. CallOK(c) /\ c.path = p /\ c.newPath = q /\ c.op = op
  BY DEF CallOK
<1>3. /\ fr \in LevelRecords /\ fr.path = p /\ fr.newPath = q /\ fr.step = "enter"
      /\ fr.listed = {} /\ fr.seen = {}
  BY FrameIs
<1>4. IsPrefix(p, p) /\ IsPrefix(q, q) /\ Onto(p, q, p) = q
  BY PrefixSelf, OntoSelf
<1> HIDE DEF fr, c
<1>5. LevelOK(c, fr)
  BY <1>2, <1>3, <1>4 DEF LevelOK
<1>6. Chain(c, <<fr>>)
  BY <1>2, <1>3, <1>5, ChainOne
<1>7. Counted(<<fr>>, reply, 0)
  BY <1>3 DEF Counted, Open, OpenOf
<1>8. call'.op \in {"delete_directory", "copy_directory"}
  BY <1>1, <1>2
<1>9. Stands(fs, busy) /\ IsTree(fs) /\ reply \in BOOLEAN
  BY DEF TreesBase, Stands
<1> QED
  BY <1>1, <1>2, <1>6, <1>7, <1>8, <1>9 DEF TreesBase, Deepest

LEMMA OpcodeBase ==
  ASSUME FileSystemAssumption, TreesBase, Opcode
  PROVE  TreesBase'
<1>1. /\ \A p \in Sources : p \in TreePaths
      /\ \A p \in Targets : p \in TreePaths
      /\ Stands(fs, busy) /\ reply \in BOOLEAN
  BY DEF FileSystemAssumption, TreePaths, TreesBase
<1>2. ASSUME NEW op, op # "delete_directory", NEW p \in TreePaths, NEW q \in TreePaths, NEW ok \in BOOLEAN, NEW g,
             Single(op, p, q, ok, g), ok => Stands(g, busy)
      PROVE  TreesBase'
  <2>1. Stands(fs', busy) /\ reply' \in BOOLEAN
    BY <1>1, <1>2 DEF Single
  <2> QED
    BY <1>2, <2>1, SingleBase DEF Single
<1>3. ASSUME NEW p \in Sources, Script_FS_DeleteFile(p) PROVE TreesBase'
  <2>1. CanDeleteFile(fs, busy, p) \in BOOLEAN
    BY DEF CanDeleteFile
  <2>2. CanDeleteFile(fs, busy, p) => Stands(Lacks(fs, p), busy)
    BY <1>1, FileLacks
  <2>3. Single("delete_file", p, p, CanDeleteFile(fs, busy, p), Lacks(fs, p))
    BY <1>3 DEF Script_FS_DeleteFile
  <2> QED
    BY <1>1, <1>2, <2>1, <2>2, <2>3
<1>4. ASSUME NEW p \in Sources, Script_FS_RemoveDirectory(p) PROVE TreesBase'
  <2>1. CanRemoveDirectory(fs, p) \in BOOLEAN
    BY DEF CanRemoveDirectory
  <2>2. CanRemoveDirectory(fs, p) => Stands(Lacks(fs, p), busy)
    BY <1>1, DirectoryLacks
  <2>3. Single("remove_directory", p, p, CanRemoveDirectory(fs, p), Lacks(fs, p))
    BY <1>4 DEF Script_FS_RemoveDirectory
  <2> QED
    BY <1>1, <1>2, <2>1, <2>2, <2>3
<1>5. ASSUME NEW p \in Sources, Script_FS_DeleteDirectory(p) PROVE TreesBase'
  BY <1>1, <1>5, RecursiveBase DEF Script_FS_DeleteDirectory
<1>6. ASSUME NEW p \in Sources, NEW q \in Targets, Script_FS_MoveFile(p, q) PROVE TreesBase'
  <2>1. Begins("move_file", p, q) /\ UNCHANGED levels
    BY <1>6 DEF Script_FS_MoveFile
  <2>2. fs' = fs \/ (fs' = TreeMoved(fs, p, q) /\ CanMove(fs, busy, p, q))
    BY <1>6 DEF Script_FS_MoveFile
  <2>3. reply' \in BOOLEAN
    BY <1>6 DEF Script_FS_MoveFile
  <2>4. Stands(fs', busy)
    BY <1>1, <2>2, MovedStands
  <2> QED
    BY <1>1, <2>1, <2>3, <2>4, SingleBase
<1>7. ASSUME NEW p \in Sources, NEW q \in Targets, Script_FS_MoveDir(p, q) PROVE TreesBase'
  <2> DEFINE ok == DirectoryBit(p) /\ CanMove(fs, busy, p, q)
  <2>1. ok \in BOOLEAN
    OBVIOUS
  <2>2. ok => Stands(TreeMoved(fs, p, q), busy)
    BY <1>1, MovedStands
  <2>3. Single("move_directory", p, q, ok, TreeMoved(fs, p, q))
    BY <1>7 DEF Script_FS_MoveDir
  <2> HIDE DEF ok
  <2> QED
    BY <1>1, <1>2, <2>1, <2>2, <2>3
<1>8. ASSUME NEW p \in Sources, NEW q \in Targets, Script_FS_CopyFile(p, q) PROVE TreesBase'
  <2>1. CanCopyFile(fs, busy, p, q) \in BOOLEAN
    BY DEF CanCopyFile
  <2>2. CanCopyFile(fs, busy, p, q) => Stands(Holds(fs, q, fs[p]), busy)
    BY <1>1, FileHeld
  <2>3. Single("copy_file", p, q, CanCopyFile(fs, busy, p, q), Holds(fs, q, fs[p]))
    BY <1>8 DEF Script_FS_CopyFile
  <2> QED
    BY <1>1, <1>2, <2>1, <2>2, <2>3
<1>9. ASSUME NEW p \in Sources, NEW q \in Targets, Script_FS_CopyDir(p, q) PROVE TreesBase'
  BY <1>1, <1>9, RecursiveBase DEF Script_FS_CopyDir
<1> QED
  BY <1>3, <1>4, <1>5, <1>6, <1>7, <1>8, <1>9 DEF Opcode

LEMMA OthersBase ==
  ASSUME TreesBase, Others
  PROVE  TreesBase'
<1>1. ASSUME Meddles, Stands(fs', busy') PROVE TreesBase'
  BY <1>1 DEF Meddles, TreesBase, Deepest
<1>2. Stands(fs, busy)
  BY DEF TreesBase
<1>3. ASSUME NEW p, OtherOpens(p) PROVE TreesBase'
  <2>1. Stands(fs', busy')
    BY <1>2, <1>3 DEF OtherOpens, Stands, Opened
  <2> QED
    BY <1>1, <1>3, <2>1 DEF OtherOpens
<1>4. ASSUME NEW p, OtherCloses(p) PROVE TreesBase'
  <2>1. Stands(fs', busy')
    BY <1>2, <1>4 DEF OtherCloses, Stands, Opened
  <2> QED
    BY <1>1, <1>4, <2>1 DEF OtherCloses
<1>5. ASSUME NEW p, OtherDeletes(p) PROVE TreesBase'
  <2>1. Stands(fs', busy')
    BY <1>2, <1>5, FileLacks DEF OtherDeletes
  <2> QED
    BY <1>1, <1>5, <2>1 DEF OtherDeletes
<1>6. ASSUME NEW d \in DOMAIN fs, NEW n \in Names, OtherCreates(Append(d, n)) PROVE TreesBase'
  <2> DEFINE p == Append(d, n)
  <2>1. d \in TreePaths
    BY <1>2, TreeIs DEF Stands
  <2>2. Appended(p, d, n)
    BY DEF Appended
  <2>3. OtherCreates(p)
    BY <1>6
  <2> HIDE DEF p
  <2>4. p \in TreePaths
    BY <2>1, <2>2, AppendPath
  <2>5. p # <<>> /\ IsDir(fs, Parent(p)) /\ p \notin DOMAIN fs
    BY <2>3 DEF OtherCreates, Place, Exists
  <2>6. PICK c \in Contents : fs' = Holds(fs, p, [dir |-> FALSE, data |-> c, readonly |-> FALSE])
    BY <2>3 DEF OtherCreates
  <2>7. [dir |-> FALSE, data |-> c, readonly |-> FALSE] \in Nodes
    BY DEF Nodes
  <2>8. p \notin busy
    BY <1>2, <2>5 DEF Stands, Opened, IsFile, Exists
  <2>9. Stands(fs', busy)
    BY <1>2, <2>4, <2>5, <2>6, <2>7, <2>8, HoldsStands
  <2> QED
    BY <1>1, <2>3, <2>9 DEF OtherCreates
<1> QED
  BY <1>3, <1>4, <1>5, <1>6 DEF Others

LEMMA EntryIs ==
  ASSUME TreesBase, ~ Idle, Level.step = "entry"
  PROVE  /\ Level.entry \in TreePaths /\ Level.path \in TreePaths /\ Child(Level.path, Level.entry)
         /\ IsPrefix(call.path, Level.entry) /\ Level.entry \in Level.seen
         /\ Level.entry # <<>>
<1>1. Level \in LevelRecords /\ LevelOK(call, Level)
  BY LevelIs
<1>2. /\ Level.entry \in TreePaths /\ Level.path \in TreePaths /\ call.path \in TreePaths
      /\ Child(Level.path, Level.entry) /\ IsPrefix(call.path, Level.path)
      /\ Level.entry \in Level.seen
  BY <1>1 DEF LevelRecords, LevelOK, TreesBase, CallOK
<1>3. IsPrefix(Level.path, Level.entry) /\ Level.entry # <<>>
  BY <1>2, ParentOfChild
<1>4. IsPrefix(call.path, Level.entry)
  BY ONLY <1>2, <1>3, PrefixOver
<1> QED
  BY <1>2, <1>3, <1>4

LEMMA NewIs ==
  ASSUME TreesBase, InCopy, Level.step = "entry"
  PROVE  /\ NewSubPath = Onto(call.path, call.newPath, Level.entry) /\ NewSubPath \in TreePaths
         /\ IsPrefix(call.newPath, NewSubPath) /\ Child(Level.newPath, NewSubPath)
         /\ Level.newPath = Onto(call.path, call.newPath, Level.path)
<1>1. /\ Level.entry \in TreePaths /\ Level.path \in TreePaths /\ Child(Level.path, Level.entry)
      /\ IsPrefix(call.path, Level.entry)
  BY EntryIs DEF InCopy
<1>2. /\ Level.newPath = Onto(call.path, call.newPath, Level.path)
      /\ IsPrefix(call.path, Level.path) /\ call.path \in TreePaths /\ call.newPath \in TreePaths
  BY LevelIs DEF InCopy, LevelOK, TreesBase, CallOK
<1>3. NewSubPath = Onto(call.path, call.newPath, Level.entry)
  <2>1. Append(Onto(call.path, call.newPath, Level.path), Level.entry[Len(Level.entry)])
          = Onto(call.path, call.newPath, Level.entry)
    BY ONLY <1>1, <1>2, OntoAppend, SMTT(30)
  <2> QED
    BY <1>2, <2>1 DEF NewSubPath
<1>4. /\ Onto(call.path, call.newPath, Level.entry) \in TreePaths
      /\ IsPrefix(call.newPath, Onto(call.path, call.newPath, Level.entry))
  BY ONLY <1>1, <1>2, OntoPrefix
<1>5. Child(Onto(call.path, call.newPath, Level.path), Onto(call.path, call.newPath, Level.entry))
  BY ONLY <1>1, <1>2, OntoChild
<1> QED
  BY <1>2, <1>3, <1>4, <1>5

\* The innermost level with another step, and perhaps another entry.
LEMMA FrameStep ==
  ASSUME TreesBase, ~ Idle, NEW s \in LevelSteps, s \notin {"enter", "entry"}
  PROVE  LET fr == [Level EXCEPT !.step = s]
         IN  /\ fr \in LevelRecords /\ fr.path = Level.path /\ LevelOK(call, fr) /\ fr.step = s
             /\ fr.newPath = Level.newPath /\ fr.listed = Level.listed /\ fr.seen = Level.seen
<1> DEFINE fr == [Level EXCEPT !.step = s]
<1>1. Level \in LevelRecords /\ LevelOK(call, Level)
  BY LevelIs
<1>2. /\ fr \in LevelRecords /\ fr.path = Level.path /\ fr.step = s
      /\ fr.newPath = Level.newPath /\ fr.listed = Level.listed /\ fr.seen = Level.seen
  BY <1>1 DEF LevelRecords
<1> HIDE DEF fr
<1>3. LevelOK(call, fr)
  BY <1>1, <1>2 DEF LevelOK
<1> QED
  BY <1>2, <1>3 DEF fr

\* FindNextFile has returned e.
Found(l, e, d) == [l EXCEPT !.step = "entry", !.seen = @ \cup {e}, !.entry = e, !.isDir = d]

LEMMA FrameEntry ==
  ASSUME TreesBase, ~ Idle, NEW e \in Level.listed \cup Children(fs, Level.path), NEW d \in BOOLEAN
  PROVE  /\ Found(Level, e, d) \in LevelRecords /\ Found(Level, e, d).path = Level.path
         /\ LevelOK(call, Found(Level, e, d)) /\ Found(Level, e, d).step = "entry"
         /\ Found(Level, e, d).newPath = Level.newPath
         /\ Found(Level, e, d).listed = Level.listed
         /\ Found(Level, e, d).seen = Level.seen \cup {e}
         /\ Found(Level, e, d).entry = e /\ Found(Level, e, d).isDir = d
<1> DEFINE fr == Found(Level, e, d)
<1>1. Level \in LevelRecords /\ LevelOK(call, Level)
  BY LevelIs
<1>2. e \in TreePaths /\ Child(Level.path, e)
  <2>1. CASE e \in Level.listed
    BY <1>1, <2>1 DEF LevelOK, LevelRecords
  <2>2. CASE e \in Children(fs, Level.path)
    BY <2>2, ChildrenAre, TreeIs DEF TreesBase, Stands
  <2> QED
    BY <2>1, <2>2
<1>3. /\ fr \in LevelRecords /\ fr.path = Level.path /\ fr.step = "entry"
      /\ fr.newPath = Level.newPath /\ fr.listed = Level.listed /\ fr.seen = Level.seen \cup {e}
      /\ fr.entry = e /\ fr.isDir = d
  BY <1>1, <1>2 DEF LevelRecords, LevelSteps, Found
<1> HIDE DEF fr
<1>4. LevelOK(call, fr)
  BY <1>1, <1>2, <1>3 DEF LevelOK
<1> QED
  BY <1>3, <1>4 DEF fr

LEMMA WorkBase ==
  ASSUME TreesBase, Work
  PROVE  TreesBase'
<1>1. Stands(fs, busy) /\ call.path \in TreePaths /\ call.newPath \in TreePaths /\ searches \in Int
  BY DEF TreesBase, CallOK, Counted
<1>s. "search" \in LevelSteps /\ "leave" \in LevelSteps
  BY DEF LevelSteps
<1>o. OpenOf("search") = 1 /\ OpenOf("entry") = 1 /\ OpenOf("leave") = 0
  BY DEF OpenOf
<1>2. ASSUME DeleteEnter PROVE TreesBase'
  BY <1>1, <1>2, SearchOpens DEF DeleteEnter, InDelete, SameCall
<1>3. ASSUME CopyEnter PROVE TreesBase'
  <2>1. /\ ~ Idle /\ Level.step = "enter" /\ UNCHANGED <<busy, call, before>>
    BY <1>3 DEF CopyEnter, InCopy, SameCall
  <2>2. CASE CanCreateDirectory(fs, Level.newPath)
    <3>1. fs' = Holds(fs, Level.newPath, Directory) /\ OpenSearch /\ UNCHANGED reply
      BY <1>3, <2>2 DEF CopyEnter
    <3>2. Level.newPath \in TreePaths
      BY <2>1, LevelIs DEF LevelRecords
    <3>3. Stands(fs', busy)
      BY <1>1, <2>2, <3>1, <3>2, DirectoryHeld
    <3> QED
      BY <2>1, <3>1, <3>3, SearchOpens
  <2>3. CASE ~ CanCreateDirectory(fs, Level.newPath)
    BY <1>1, <1>3, <2>1, <2>3, FailBase DEF CopyEnter
  <2> QED
    BY <2>2, <2>3
<1>4. ASSUME SearchNext PROVE TreesBase'
  <2>1. ~ Idle /\ Level.step = "search" /\ UNCHANGED <<fs, reply, searches, busy, call, before>>
    BY <1>4 DEF SearchNext, SameCall
  <2>2. PICK e \in Unseen \cup (Children(fs, Level.path) \ Level.seen) :
          SetTop([Level EXCEPT !.step = "entry", !.seen = @ \cup {e}, !.entry = e,
                               !.isDir = IsDir(fs, e)])
    BY <1>4 DEF SearchNext
  <2>3. SetTop(Found(Level, e, IsDir(fs, e)))
    BY <2>2 DEF Found
  <2>4. e \in Level.listed \cup Children(fs, Level.path) /\ IsDir(fs, e) \in BOOLEAN
    <3>1. e \in Level.listed \cup Children(fs, Level.path)
      BY <2>2 DEF Unseen
    <3>2. CASE e = <<>>
      BY <3>1, <3>2 DEF IsDir
    <3>3. CASE e # <<>> /\ e \notin DOMAIN fs
      BY <3>1, <3>3 DEF IsDir, Exists
    <3>4. CASE e # <<>> /\ e \in DOMAIN fs
      <4>1. fs[e].dir \in BOOLEAN
        BY <1>1, <3>4, TreeIs, NodeIs DEF Stands
      <4> QED
        BY <3>1, <3>4, <4>1 DEF IsDir, Exists
    <3> QED
      BY <3>2, <3>3, <3>4
  <2> DEFINE fr == Found(Level, e, IsDir(fs, e))
  <2>5. fr \in LevelRecords /\ fr.path = Level.path /\ LevelOK(call, fr) /\ fr.step = "entry"
    BY <2>1, <2>4, FrameEntry
  <2>6. SetTop(fr)
    BY <2>3
  <2> HIDE DEF fr
  <2>7. searches' = searches + (OpenOf(fr.step) - OpenOf(Level.step))
    BY <1>1, <1>o, <2>1, <2>5
  <2> QED
    BY <1>1, <2>1, <2>5, <2>6, <2>7, StepBase
<1>5. ASSUME SearchEnds PROVE TreesBase'
  <2> DEFINE fr == [Level EXCEPT !.step = "leave"]
  <2>1. /\ ~ Idle /\ Level.step = "search" /\ UNCHANGED <<fs, reply, busy, call, before>>
        /\ SetTop(fr) /\ searches' = searches - 1
    BY <1>5 DEF SearchEnds, SameCall
  <2>2. fr \in LevelRecords /\ fr.path = Level.path /\ LevelOK(call, fr) /\ fr.step = "leave"
    BY <1>s, <2>1, FrameStep
  <2> HIDE DEF fr
  <2>3. searches' = searches + (OpenOf(fr.step) - OpenOf(Level.step))
    BY <1>1, <1>o, <2>1, <2>2
  <2> QED
    BY <1>1, <2>1, <2>2, <2>3, StepBase
<1>c. ASSUME ~ Idle, Level.step = "entry", Continue, Stands(fs', busy),
             UNCHANGED <<busy, call, before, searches>>
      PROVE  TreesBase'
  <2> DEFINE fr == [Level EXCEPT !.step = "search"]
  <2>1. SetTop(fr) /\ UNCHANGED reply
    BY <1>c DEF Continue
  <2>2. fr \in LevelRecords /\ fr.path = Level.path /\ LevelOK(call, fr) /\ fr.step = "search"
    BY <1>s, <1>c, FrameStep
  <2> HIDE DEF fr
  <2>3. searches' = searches + (OpenOf(fr.step) - OpenOf(Level.step))
    BY <1>1, <1>o, <1>c, <2>2
  <2> QED
    BY <1>c, <2>1, <2>2, <2>3, StepBase
<1>6. ASSUME DeleteEntry PROVE TreesBase'
  <2> DEFINE e == Level.entry
             g == WithoutReadonly(fs, e)
  <2>1. /\ ~ Idle /\ Level.step = "entry" /\ call.op = "delete_directory"
        /\ UNCHANGED <<busy, call, before, searches>>
    BY <1>6 DEF DeleteEntry, InDelete, SameCall
  <2>2. e \in TreePaths /\ IsPrefix(call.path, e) /\ call.newPath = call.path
    BY <2>1, EntryIs DEF TreesBase, CallOK
  <2>3. CASE Level.isDir
    <3>1. Descend(e, e)
      BY <1>6, <2>3 DEF DeleteEntry
    <3>2. LevelOK(call, Frame(e, e))
      BY <2>1, <2>2, FrameIs DEF LevelOK
    <3> QED
      BY <2>1, <2>2, <3>1, <3>2, DescendBase
  <2>4. Stands(g, busy)
    BY <1>1, WritableStands
  <2>5. CASE ~ Level.isDir /\ CanDeleteFile(g, busy, e)
    <3>1. fs' = Lacks(g, e) /\ Continue
      BY <1>6, <2>5 DEF DeleteEntry
    <3>2. Stands(fs', busy)
      BY <2>4, <2>5, <3>1, FileLacks
    <3> QED
      BY <1>c, <2>1, <3>1, <3>2
  <2>6. CASE ~ Level.isDir /\ ~ CanDeleteFile(g, busy, e)
    <3>1. fs' = g /\ Fail
      BY <1>6, <2>6 DEF DeleteEntry
    <3> QED
      BY <2>1, <2>4, <3>1, FailBase
  <2> QED
    BY <2>3, <2>5, <2>6
<1>7. ASSUME CopyEntry PROVE TreesBase'
  <2> DEFINE e == Level.entry
  <2>1. /\ ~ Idle /\ Level.step = "entry" /\ call.op = "copy_directory" /\ InCopy
        /\ UNCHANGED <<busy, call, before, searches>>
    BY <1>7 DEF CopyEntry, InCopy, SameCall
  <2>2. e \in TreePaths /\ IsPrefix(call.path, e)
    BY <2>1, EntryIs
  <2>n. /\ NewSubPath \in TreePaths /\ NewSubPath = Onto(call.path, call.newPath, e)
        /\ IsPrefix(call.newPath, NewSubPath)
    BY <2>1, NewIs
  <2>3. CASE Level.isDir
    <3>1. Descend(e, NewSubPath)
      BY <1>7, <2>3 DEF CopyEntry
    <3>2. LevelOK(call, Frame(e, NewSubPath))
      BY <2>1, <2>2, <2>n, FrameIs DEF LevelOK
    <3> QED
      BY <2>1, <2>n, <3>1, <3>2, DescendBase
  <2>5. CASE ~ Level.isDir /\ CanCopyFile(fs, busy, e, NewSubPath)
    <3>1. fs' = Holds(fs, NewSubPath, fs[e]) /\ Continue
      BY <1>7, <2>5 DEF CopyEntry
    <3>2. Stands(fs', busy)
      BY <1>1, <2>n, <2>5, <3>1, FileHeld
    <3> QED
      BY <1>c, <2>1, <3>1, <3>2
  <2>6. CASE ~ Level.isDir /\ ~ CanCopyFile(fs, busy, e, NewSubPath)
    <3>1. fs' = fs /\ Fail
      BY <1>7, <2>6 DEF CopyEntry
    <3> QED
      BY <1>1, <2>1, <3>1, FailBase
  <2> QED
    BY <2>3, <2>5, <2>6
<1>8. ASSUME DeleteLeave PROVE TreesBase'
  <2>1. /\ ~ Idle /\ Level.step = "leave" /\ UNCHANGED <<busy, call, before, searches>>
    BY <1>8 DEF DeleteLeave, InDelete, SameCall
  <2>2. CASE CanRemoveDirectory(fs, Level.path)
    <3>1. fs' = Lacks(fs, Level.path) /\ ReturnTrue
      BY <1>8, <2>2 DEF DeleteLeave
    <3>2. Stands(fs', busy)
      BY <1>1, <2>2, <3>1, DirectoryLacks
    <3> QED
      BY <2>1, <3>1, <3>2, ReturnBase
  <2>3. CASE ~ CanRemoveDirectory(fs, Level.path)
    <3>1. fs' = fs /\ Fail
      BY <1>8, <2>3 DEF DeleteLeave
    <3> QED
      BY <1>1, <2>1, <3>1, FailBase
  <2> QED
    BY <2>2, <2>3
<1>9. ASSUME CopyLeave PROVE TreesBase'
  BY <1>1, <1>9, ReturnBase DEF CopyLeave, InCopy, SameCall
<1> QED
  BY <1>2, <1>3, <1>4, <1>5, <1>6, <1>7, <1>8, <1>9 DEF Work

LEMMA OutsideSame ==
  ASSUME NEW f, NEW g, NEW p,
         \A x : ~ IsPrefix(p, x) => /\ x \in DOMAIN g <=> x \in DOMAIN f
                                    /\ x \in DOMAIN f => g[x] = f[x]
  PROVE  Outside(g, p) = Outside(f, p)
<1>1. {r \in DOMAIN g : ~ IsPrefix(p, r)} = {r \in DOMAIN f : ~ IsPrefix(p, r)}
  OBVIOUS
<1>2. \A r \in {s \in DOMAIN f : ~ IsPrefix(p, s)} : g[r] = f[r]
  OBVIOUS
<1> QED
  BY <1>1, <1>2 DEF Outside

LEMMA HoldsOutside ==
  ASSUME NEW f, NEW p, NEW q, NEW n, IsPrefix(p, q)
  PROVE  Outside(Holds(f, q, n), p) = Outside(f, p)
<1> DEFINE g == Holds(f, q, n)
<1>1. /\ DOMAIN g = DOMAIN f \cup {q}
      /\ \A x \in DOMAIN f : x # q => g[x] = f[x]
  BY DEF Holds
<1> HIDE DEF g
<1>2. Outside(g, p) = Outside(f, p)
  BY <1>1, OutsideSame
<1> QED
  BY <1>2 DEF g

LEMMA LacksOutside ==
  ASSUME NEW f, NEW p, NEW q, IsPrefix(p, q)
  PROVE  Outside(Lacks(f, q), p) = Outside(f, p)
<1> DEFINE g == Lacks(f, q)
<1>1. DOMAIN g = DOMAIN f \ {q} /\ \A x \in DOMAIN f : x # q => g[x] = f[x]
  BY LacksIs
<1> HIDE DEF g
<1>2. Outside(g, p) = Outside(f, p)
  BY <1>1, OutsideSame
<1> QED
  BY <1>2 DEF g

LEMMA WritableOutside ==
  ASSUME NEW f, IsTree(f), NEW p, NEW q, IsPrefix(p, q)
  PROVE  Outside(WithoutReadonly(f, q), p) = Outside(f, p)
<1> DEFINE g == WithoutReadonly(f, q)
<1>1. DOMAIN g = DOMAIN f /\ \A x \in DOMAIN f : x # q => g[x] = f[x]
  BY WritableIs
<1> HIDE DEF g
<1>2. Outside(g, p) = Outside(f, p)
  BY <1>1, OutsideSame
<1> QED
  BY <1>2 DEF g

LEMMA WorkOutside ==
  ASSUME TreesBase, Work
  PROVE  Outside(fs', call.newPath) = Outside(fs, call.newPath)
<1> DEFINE Q == call.newPath
<1>1. IsTree(fs) /\ (call.op = "delete_directory" => Q = call.path)
  BY DEF TreesBase, Stands, CallOK
<1>2. ASSUME ~ Idle PROVE IsPrefix(call.path, Level.path) /\ IsPrefix(Q, Level.newPath)
  BY <1>2, LevelIs DEF LevelOK
<1>3. ASSUME CopyEnter PROVE Outside(fs', Q) = Outside(fs, Q)
  <2>1. ~ Idle
    BY <1>3 DEF CopyEnter, InCopy
  <2>2. fs' = fs \/ fs' = Holds(fs, Level.newPath, Directory)
    BY <1>3 DEF CopyEnter
  <2> QED
    BY <1>2, <2>1, <2>2, HoldsOutside
<1>4. ASSUME DeleteEntry PROVE Outside(fs', Q) = Outside(fs, Q)
  <2> DEFINE e == Level.entry
             g == WithoutReadonly(fs, e)
  <2>1. ~ Idle /\ Level.step = "entry" /\ call.op = "delete_directory"
    BY <1>4 DEF DeleteEntry, InDelete
  <2>2. IsPrefix(Q, e)
    BY <1>1, <2>1, EntryIs
  <2>3. fs' = fs \/ fs' = g \/ fs' = Lacks(g, e)
    BY <1>4 DEF DeleteEntry, Descend
  <2>4. Outside(g, Q) = Outside(fs, Q) /\ Outside(Lacks(g, e), Q) = Outside(g, Q)
    BY <1>1, <2>2, WritableOutside, LacksOutside
  <2> QED
    BY <2>3, <2>4
<1>5. ASSUME CopyEntry PROVE Outside(fs', Q) = Outside(fs, Q)
  <2>1. InCopy /\ Level.step = "entry"
    BY <1>5 DEF CopyEntry
  <2>2. IsPrefix(Q, NewSubPath)
    BY <2>1, NewIs
  <2>3. fs' = fs \/ fs' = Holds(fs, NewSubPath, fs[Level.entry])
    BY <1>5 DEF CopyEntry, Descend
  <2> QED
    BY <2>2, <2>3, HoldsOutside
<1>6. ASSUME DeleteLeave PROVE Outside(fs', Q) = Outside(fs, Q)
  <2>1. ~ Idle /\ call.op = "delete_directory"
    BY <1>6 DEF DeleteLeave, InDelete
  <2>2. fs' = fs \/ fs' = Lacks(fs, Level.path)
    BY <1>6 DEF DeleteLeave
  <2> QED
    BY <1>1, <1>2, <2>1, <2>2, LacksOutside
<1>7. ASSUME DeleteEnter \/ SearchNext \/ SearchEnds \/ CopyLeave PROVE fs' = fs
  BY <1>7 DEF DeleteEnter, SearchNext, SearchEnds, CopyLeave
<1> QED
  BY <1>3, <1>4, <1>5, <1>6, <1>7 DEF Work

(***************************************************************************)
(* Directories: deletion.                                                  *)
(***************************************************************************)

\* What the level j is busy with.
Current(lv, j) == IF j < Len(lv) THEN lv[j + 1].path
                  ELSE IF lv[j].step = "entry" THEN lv[j].entry ELSE <<>>
CurrentOf(l) == IF l.step = "entry" THEN l.entry ELSE <<>>

LEMMA CurrentTop ==
  ASSUME NEW lv \in Stack, lv # <<>>, NEW fr \in LevelRecords, NEW lw, TopSet(lv, fr, lw),
         fr.path = lv[Len(lv)].path
  PROVE  /\ Len(lw) = Len(lv) /\ lw[Len(lv)] = fr /\ Current(lw, Len(lv)) = CurrentOf(fr)
         /\ Current(lv, Len(lv)) = CurrentOf(lv[Len(lv)])
         /\ \A j \in 1 .. Len(lv) - 1 : lw[j] = lv[j] /\ Current(lw, j) = Current(lv, j)
<1>1. Len(lv) \in Nat /\ Len(lv) >= 1
  BY StackLen
<1>2. /\ Len(lw) = Len(lv) /\ lw[Len(lv)] = fr
      /\ \A i \in 1 .. Len(lv) - 1 : lw[i] = lv[i]
  BY TopSetIs
<1>3. ASSUME NEW j \in 1 .. Len(lv) - 1 PROVE Current(lw, j) = Current(lv, j)
  <2>1. j < Len(lv) /\ (j + 1 \in 1 .. Len(lv) - 1 \/ j + 1 = Len(lv))
    BY <1>1
  <2>2. lw[j + 1].path = lv[j + 1].path
    BY <1>2, <2>1
  <2> QED
    BY <1>2, <2>1, <2>2 DEF Current
<1>4. ~ (Len(lv) < Len(lv))
  BY <1>1
<1> QED
  BY <1>2, <1>3, <1>4 DEF Current, CurrentOf

LEMMA CurrentDown ==
  ASSUME NEW lv \in Stack, lv # <<>>, NEW fr \in LevelRecords, NEW lw, Len(lw) = Len(lv) + 1,
         lw[Len(lv) + 1] = fr, lw[Len(lv)] = Resumed(lv[Len(lv)]),
         \A i \in 1 .. Len(lv) - 1 : lw[i] = lv[i], fr.step = "enter"
  PROVE  /\ Current(lw, Len(lv)) = fr.path /\ Current(lw, Len(lv) + 1) = <<>>
         /\ \A j \in 1 .. Len(lv) - 1 : Current(lw, j) = Current(lv, j)
<1>1. Len(lv) \in Nat /\ Len(lv) >= 1 /\ \A i \in 1 .. Len(lv) : lv[i] \in LevelRecords
  BY StackLen
<1>2. Resumed(lv[Len(lv)]).path = lv[Len(lv)].path
  BY <1>1 DEF Resumed, LevelRecords
<1>3. ASSUME NEW j \in 1 .. Len(lv) - 1 PROVE Current(lw, j) = Current(lv, j)
  <2>1. j < Len(lv) /\ j < Len(lw) /\ (j + 1 \in 1 .. Len(lv) - 1 \/ j + 1 = Len(lv))
    BY <1>1
  <2>2. lw[j + 1].path = lv[j + 1].path
    BY <1>2, <2>1
  <2> QED
    BY <2>1, <2>2 DEF Current
<1>4. Len(lv) < Len(lw) /\ ~ (Len(lv) + 1 < Len(lw))
  BY <1>1
<1> QED
  BY <1>3, <1>4 DEF Current

LEMMA CurrentUp ==
  ASSUME NEW lv \in Stack, lv # <<>>, NEW lw, Popped(lv, lw),
         \A j \in 1 .. Len(lv) - 1 : lv[j].step = "search"
  PROVE  /\ Len(lw) = Len(lv) - 1
         /\ \A j \in 1 .. Len(lv) - 1 :
               /\ lw[j] = lv[j]
               /\ Current(lw, j) = IF j = Len(lv) - 1 THEN <<>> ELSE Current(lv, j)
               /\ j = Len(lv) - 1 => Current(lv, j) = lv[Len(lv)].path
<1>1. Len(lv) \in Nat /\ Len(lv) >= 1
  BY StackLen
<1>2. Len(lw) = Len(lv) - 1 /\ \A i \in 1 .. Len(lv) - 1 : lw[i] = lv[i]
  BY PoppedIs
<1>3. ASSUME NEW j \in 1 .. Len(lv) - 1
      PROVE  /\ Current(lw, j) = IF j = Len(lv) - 1 THEN <<>> ELSE Current(lv, j)
             /\ j = Len(lv) - 1 => Current(lv, j) = lv[Len(lv)].path
  <2>1. CASE j = Len(lv) - 1
    <3>1. ~ (j < Len(lw)) /\ lw[j].step # "entry"
      BY <1>1, <1>2, <2>1
    <3>2. j < Len(lv) /\ j + 1 = Len(lv)
      BY <1>1, <2>1
    <3> QED
      BY <2>1, <3>1, <3>2 DEF Current
  <2>2. CASE j # Len(lv) - 1
    <3>1. j < Len(lw) /\ j < Len(lv) /\ j + 1 \in 1 .. Len(lv) - 1
      BY <1>1, <1>2, <2>2
    <3> QED
      BY <1>2, <2>2, <3>1 DEF Current
  <2> QED
    BY <2>1, <2>2
<1> QED
  BY <1>2, <1>3

\* A level of a deletion: what is still in its directory has been listed and was not yet returned by
\* FindNextFile, or is the entry cur the level is busy with; so at the end nothing is left.
DelLevel(f, l, cur) ==
    /\ l.path \in DOMAIN f /\ f[l.path].dir
    /\ l.step \in {"search", "entry"} =>
          /\ Children(f, l.path) \subseteq l.listed
          /\ (l.listed \ l.seen) \subseteq DOMAIN f
          /\ (Children(f, l.path) \cap l.seen) \subseteq {cur}
    /\ l.step = "entry" => l.entry \in DOMAIN f /\ l.isDir = f[l.entry].dir
    /\ l.step = "leave" => Children(f, l.path) = {}

DelLevels(f, lv) == \A j \in 1 .. Len(lv) : DelLevel(f, lv[j], Current(lv, j))

\* The directory of the call existed.
WasThere == call.path \in DOMAIN before /\ before[call.path].dir

\* Holds at every level of a deletion that is left alone.
Deleting ==
    (call.op = "delete_directory" /\ ~ Idle /\ ~ meddled.now /\ WasThere) => DelLevels(fs, levels)

\* A deletion that is left alone keeps what is outside its directory.
OutsideKept ==
    (call.op = "delete_directory" /\ ~ meddled.now)
        => Outside(fs, call.path) = Outside(before, call.path)

DelInv == OutsideKept /\ Deleting /\ DeleteIsExact

LEMMA DelTop ==
  ASSUME NEW f, NEW lv \in Stack, lv # <<>>, DelLevels(f, lv), NEW fr \in LevelRecords,
         fr.path = lv[Len(lv)].path, NEW lw, TopSet(lv, fr, lw), DelLevel(f, fr, CurrentOf(fr))
  PROVE  DelLevels(f, lw)
<1>1. /\ Len(lw) = Len(lv) /\ lw[Len(lv)] = fr /\ Current(lw, Len(lv)) = CurrentOf(fr)
      /\ \A j \in 1 .. Len(lv) - 1 : lw[j] = lv[j] /\ Current(lw, j) = Current(lv, j)
  BY CurrentTop
<1>2. ASSUME NEW j \in 1 .. Len(lw) PROVE DelLevel(f, lw[j], Current(lw, j))
  <2>1. j \in 1 .. Len(lv) /\ (j \in 1 .. Len(lv) - 1 \/ j = Len(lv))
    BY <1>1, StackLen
  <2> QED
    BY <1>1, <2>1 DEF DelLevels
<1> QED
  BY <1>2 DEF DelLevels

\* g is f without e, attributes of files apart.
Shrunk(f, g, e) == DOMAIN g = DOMAIN f \ {e} /\ \A q \in DOMAIN g : g[q].dir = f[q].dir

LEMMA DelShrunk ==
  ASSUME NEW f, NEW g, NEW e, Shrunk(f, g, e), NEW l, NEW cur, DelLevel(f, l, cur),
         l.step = "search", e # l.path, e \notin l.listed \ l.seen, NEW cur2,
         cur2 = cur \/ cur = e
  PROVE  DelLevel(g, l, cur2)
<1>1. l.path \in DOMAIN g /\ g[l.path].dir
  BY DEF DelLevel, Shrunk
<1>2. Children(g, l.path) \subseteq Children(f, l.path) \ {e}
  BY DEF Shrunk, Children
<1>3. Children(g, l.path) \subseteq l.listed /\ (l.listed \ l.seen) \subseteq DOMAIN g
  BY <1>2 DEF DelLevel, Shrunk
<1>4. (Children(g, l.path) \cap l.seen) \subseteq {cur2}
  BY <1>2 DEF DelLevel
<1> QED
  BY <1>1, <1>3, <1>4 DEF DelLevel

\* What the innermost level takes away concerns no other one.
LEMMA Above ==
  ASSUME TreesBase, ~ Idle, NEW j \in 1 .. Len(levels) - 1, NEW e \in TreePaths,
         e = Level.path \/ Child(Level.path, e)
  PROVE  levels[j].step = "search" /\ e # levels[j].path /\ e \notin levels[j].listed \ levels[j].seen
<1> DEFINE n == Len(levels)
           l == levels[j]
<1>1. /\ levels \in Stack /\ n \in Nat /\ n >= 1 /\ Deep(call, Level, n) /\ Level \in LevelRecords
      /\ Level = levels[n]
  BY LevelIs
<1>2. /\ Chain(call, levels) /\ call.path \in TreePaths
  BY DEF TreesBase, CallOK
<1>3. Len(call.path) \in Nat /\ Level.path \in TreePaths
  BY <1>1, <1>2, LenIs DEF LevelRecords
<1>4. j \in 1 .. n /\ j < n /\ j \in Nat
  BY <1>1
<1>5. Deep(call, l, j) /\ Calls(l, levels[j + 1])
  BY <1>2, <1>4 DEF Chain
<1> HIDE DEF n, l
<1>6. Len(l.path) = Len(call.path) + j - 1 /\ \A x \in l.listed : Child(l.path, x)
  BY <1>5 DEF Deep, LevelOK
<1>7. Len(Level.path) = Len(call.path) + n - 1
  BY <1>1 DEF Deep
<1>8. Len(e) = Len(Level.path) \/ Len(e) = Len(Level.path) + 1
  BY DEF Child
<1>9. e # l.path
  BY <1>3, <1>4, <1>6, <1>7, <1>8, <1>1
<1>10. ASSUME e \in l.listed PROVE e \in l.seen
  <2>1. Len(e) = Len(l.path) + 1
    BY <1>6, <1>10 DEF Child
  <2>2. j + 1 = n /\ Len(e) = Len(Level.path)
    BY <1>1, <1>3, <1>4, <1>6, <1>7, <1>8, <2>1, SMTT(30)
  <2>3. e = Level.path
    <3>1. CASE Child(Level.path, e)
      <4>1. Len(e) = Len(Level.path) + 1
        BY <3>1 DEF Child
      <4> QED
        BY <1>3, <2>2, <4>1, LenIs
    <3> QED
      BY <3>1
  <2>4. levels[j + 1].path = e
    BY <1>1, <2>2, <2>3
  <2> QED
    BY <1>5, <2>4 DEF Calls
<1> QED
  BY <1>5, <1>9, <1>10 DEF Calls, l

LEMMA DelWork ==
  ASSUME TreesBase, DelInv, Work, call.op = "delete_directory", ~ meddled.now, ~ Idle
  PROVE  OutsideKept' /\ Deleting'
<1>1. UNCHANGED <<call, before, busy, meddled>>
  BY DEF Work, DeleteEnter, CopyEnter, SearchNext, SearchEnds, DeleteEntry, CopyEntry,
         DeleteLeave, CopyLeave, SameCall
<1>2. OutsideKept'
  <2>1. call.newPath = call.path
    BY DEF TreesBase, CallOK
  <2>2. Outside(fs', call.path) = Outside(fs, call.path)
    BY <2>1, WorkOutside
  <2> QED
    BY <1>1, <2>2 DEF DelInv, OutsideKept
<1>3. SUFFICES ASSUME ~ Idle', WasThere PROVE DelLevels(fs', levels')
  BY <1>1, <1>2 DEF Deleting, WasThere
<1> DEFINE n == Len(levels)
<1>4. /\ levels \in Stack /\ levels # <<>> /\ n \in Nat /\ n >= 1 /\ Level = levels[n]
      /\ Level \in LevelRecords /\ LevelOK(call, Level) /\ Chain(call, levels) /\ IsTree(fs)
  BY LevelIs DEF TreesBase, Stands
<1>5. DelLevels(fs, levels)
  BY <1>3 DEF DelInv, Deleting
<1>6. n \in 1 .. n /\ \A j \in 1 .. n - 1 : j \in 1 .. n
  BY <1>4
<1>7. Current(levels, n) = CurrentOf(Level)
  BY <1>4 DEF Current, CurrentOf
<1>8. DelLevel(fs, Level, CurrentOf(Level))
  BY <1>4, <1>5, <1>6, <1>7 DEF DelLevels
<1>9. levels' # <<>>
  BY <1>3 DEF Idle
<1> HIDE DEF n
<1>s. "search" \in LevelSteps /\ "leave" \in LevelSteps
  BY DEF LevelSteps
<1>t. ASSUME NEW fr \in LevelRecords, SetTop(fr), fr.path = Level.path, DelLevel(fs, fr, CurrentOf(fr)),
             fs' = fs
      PROVE  DelLevels(fs', levels')
  <2>1. TopSet(levels, fr, levels')
    BY <1>t DEF SetTop, TopSet
  <2>2. fr.path = levels[Len(levels)].path
    BY <1>4, <1>t DEF n
  <2> QED
    BY <1>4, <1>5, <1>t, <2>1, <2>2, DelTop
<1>10. ASSUME DeleteEnter PROVE DelLevels(fs', levels')
  <2> DEFINE fr == [Level EXCEPT !.step = "search", !.listed = Children(fs, Level.path)]
  <2>1. Level.step = "enter" /\ fs' = fs /\ OpenSearch
    BY <1>10 DEF DeleteEnter
  <2>2. IsDir(fs, Level.path)
    BY <1>8 DEF DelLevel, IsDir, Exists
  <2>3. SetTop(fr)
    BY <2>1, <2>2 DEF OpenSearch
  <2>4. \A e \in Children(fs, Level.path) : e \in TreePaths /\ e \in DOMAIN fs
    BY <1>4, ChildrenAre, TreeIs
  <2>5. /\ fr \in LevelRecords /\ fr.path = Level.path /\ fr.step = "search"
        /\ fr.listed = Children(fs, Level.path) /\ fr.seen = Level.seen
    BY <1>4, <2>4 DEF LevelRecords, LevelSteps
  <2> HIDE DEF fr
  <2>6. fr.seen = {}
    BY <1>4, <2>1, <2>5 DEF LevelOK
  <2>7. DelLevel(fs, fr, CurrentOf(fr))
    BY <1>8, <2>4, <2>5, <2>6 DEF DelLevel
  <2> QED
    BY <1>t, <2>1, <2>3, <2>5, <2>7
<1>e. ASSUME Level.step = "search"
      PROVE  /\ Children(fs, Level.path) \subseteq Level.listed
             /\ (Level.listed \ Level.seen) \subseteq DOMAIN fs
             /\ Children(fs, Level.path) \cap Level.seen = {}
             /\ Children(fs, Level.path) \subseteq DOMAIN fs
  <2>1. CurrentOf(Level) = <<>>
    BY <1>e DEF CurrentOf
  <2>2. \A x \in Children(fs, Level.path) : x \in DOMAIN fs /\ x # <<>>
    BY <1>4, ChildrenAre, TreeIs
  <2> QED
    BY <1>8, <1>e, <2>1, <2>2 DEF DelLevel
<1>11. ASSUME SearchNext PROVE DelLevels(fs', levels')
  <2>1. fs' = fs /\ Level.step = "search"
    BY <1>11 DEF SearchNext
  <2>2. PICK e \in Unseen \cup (Children(fs, Level.path) \ Level.seen) :
          SetTop([Level EXCEPT !.step = "entry", !.seen = @ \cup {e}, !.entry = e,
                               !.isDir = IsDir(fs, e)])
    BY <1>11 DEF SearchNext
  <2> DEFINE d == IsDir(fs, e)
             fr == Found(Level, e, d)
  <2>3. e \in Level.listed \cup Children(fs, Level.path) /\ e \in DOMAIN fs
    BY <1>e, <2>1, <2>2 DEF Unseen
  <2>4. fs[e].dir \in BOOLEAN /\ e # <<>>
    BY <1>4, <2>3, TreeIs, NodeIs
  <2>5. d = fs[e].dir
    BY <2>3, <2>4 DEF IsDir, Exists
  <2>6. SetTop(fr)
    BY <2>2 DEF Found
  <2> HIDE DEF d
  <2>7. /\ fr \in LevelRecords /\ fr.path = Level.path /\ fr.step = "entry"
        /\ fr.listed = Level.listed /\ fr.seen = Level.seen \cup {e}
        /\ fr.entry = e /\ fr.isDir = d
    BY <2>3, <2>4, <2>5, FrameEntry
  <2> HIDE DEF fr
  <2>8. CurrentOf(fr) = e
    BY <2>7 DEF CurrentOf
  <2>9. DelLevel(fs, fr, CurrentOf(fr))
    BY <1>8, <1>e, <2>1, <2>3, <2>5, <2>7, <2>8 DEF DelLevel
  <2> QED
    BY <1>t, <2>1, <2>6, <2>7, <2>9
<1>12. ASSUME SearchEnds PROVE DelLevels(fs', levels')
  <2> DEFINE fr == [Level EXCEPT !.step = "leave"]
  <2>1. fs' = fs /\ Level.step = "search" /\ SetTop(fr) /\ Unseen \cap DOMAIN fs = {}
    BY <1>12 DEF SearchEnds
  <2>2. fr \in LevelRecords /\ fr.path = Level.path /\ fr.step = "leave"
    BY <1>s, FrameStep
  <2> HIDE DEF fr
  <2>3. Children(fs, Level.path) = {}
    BY <1>e, <2>1 DEF Unseen
  <2>4. DelLevel(fs, fr, CurrentOf(fr))
    BY <1>8, <2>2, <2>3 DEF DelLevel
  <2> QED
    BY <1>t, <2>1, <2>2, <2>4
<1>13. ASSUME DeleteEntry PROVE DelLevels(fs', levels')
  <2> DEFINE e == Level.entry
             g == WithoutReadonly(fs, e)
  <2>1. Level.step = "entry" /\ levels' # <<>> /\ InDelete
    BY <1>9, <1>13 DEF DeleteEntry
  <2>2. /\ e \in TreePaths /\ Level.path \in TreePaths /\ Child(Level.path, e)
        /\ IsPrefix(call.path, e) /\ e # <<>> /\ e \in Level.seen
    BY <2>1, EntryIs
  <2>3. e \in DOMAIN fs /\ Level.isDir = fs[e].dir /\ CurrentOf(Level) = e
    BY <1>8, <2>1 DEF DelLevel, CurrentOf
  <2>4. CASE Level.isDir
    <3> DEFINE fr == Frame(e, e)
    <3>1. Descend(e, e)
      BY <1>13, <2>4 DEF DeleteEntry
    <3>2. call.newPath = call.path /\ call.op = "delete_directory" /\ ~ Idle
      BY DEF TreesBase, CallOK
    <3>3. LevelOK(call, fr)
      BY <2>2, <3>2, FrameIs DEF LevelOK
    <3>4. /\ fr \in LevelRecords /\ fr.path = e /\ fr.step = "enter"
          /\ Len(levels') = n + 1 /\ levels'[n + 1] = fr
          /\ levels'[n] = Resumed(levels[n]) /\ \A i \in 1 .. n - 1 : levels'[i] = levels[i]
          /\ fs' = fs
      BY <2>1, <2>2, <3>1, <3>2, <3>3, DescendIs DEF n
    <3> HIDE DEF fr
    <3>5. /\ Current(levels', n) = e /\ Current(levels', n + 1) = <<>>
          /\ \A j \in 1 .. n - 1 : Current(levels', j) = Current(levels, j)
      BY <1>4, <3>4, CurrentDown DEF n
    <3>6. DelLevel(fs, fr, <<>>)
      BY <2>3, <2>4, <3>4 DEF DelLevel
    <3>7. /\ Resumed(Level).path = Level.path /\ Resumed(Level).step = "search"
          /\ Resumed(Level).listed = Level.listed /\ Resumed(Level).seen = Level.seen
      BY <1>4 DEF Resumed, LevelRecords
    <3>8. DelLevel(fs, Resumed(Level), e)
      BY <1>8, <2>1, <2>3, <3>7 DEF DelLevel
    <3>9. ASSUME NEW j \in 1 .. Len(levels')
          PROVE  DelLevel(fs, levels'[j], Current(levels', j))
      <4>1. j \in 1 .. n - 1 \/ j = n \/ j = n + 1
        BY <1>4, <3>4
      <4>2. CASE j \in 1 .. n - 1
        BY <1>5, <1>6, <3>4, <3>5, <4>2 DEF DelLevels, n
      <4>3. CASE j = n
        BY <1>4, <3>4, <3>5, <3>8, <4>3
      <4>4. CASE j = n + 1
        BY <3>4, <3>5, <3>6, <4>4
      <4> QED
        BY <4>1, <4>2, <4>3, <4>4
    <3> QED
      BY <3>4, <3>9 DEF DelLevels
  <2>5. CASE ~ Level.isDir
    <3> DEFINE fr == [Level EXCEPT !.step = "search"]
    <3>1. fs' = Lacks(g, e) /\ Continue
      BY <1>13, <2>1, <2>5 DEF DeleteEntry, Fail
    <3>2. SetTop(fr)
      BY <3>1 DEF Continue
    <3>3. /\ fr \in LevelRecords /\ fr.path = Level.path /\ fr.step = "search"
          /\ fr.listed = Level.listed /\ fr.seen = Level.seen
      BY <1>s, FrameStep
    <3> HIDE DEF fr
    <3>4. TopSet(levels, fr, levels') /\ fr.path = levels[Len(levels)].path
      BY <1>4, <3>2, <3>3 DEF SetTop, TopSet, n
    <3>5. /\ Len(levels') = n /\ levels'[n] = fr /\ Current(levels', n) = CurrentOf(fr)
          /\ \A j \in 1 .. n - 1 :
                levels'[j] = levels[j] /\ Current(levels', j) = Current(levels, j)
      BY <1>4, <3>3, <3>4, CurrentTop DEF n
    <3>6. Shrunk(fs, fs', e)
      <4>1. DOMAIN g = DOMAIN fs /\ \A q \in DOMAIN fs : g[q].dir = fs[q].dir
        BY <1>4, WritableIs
      <4>2. DOMAIN fs' = DOMAIN g \ {e} /\ \A q \in DOMAIN g : q # e => fs'[q] = g[q]
        BY <3>1, LacksIs
      <4> HIDE DEF g
      <4> QED
        BY <4>1, <4>2 DEF Shrunk
    <3>7. DelLevel(fs, fr, e) /\ CurrentOf(fr) = <<>>
      BY <1>8, <2>1, <2>3, <3>3 DEF DelLevel, CurrentOf
    <3>8. DelLevel(fs', fr, <<>>)
      <4>1. e # fr.path /\ e \notin fr.listed \ fr.seen
        BY <2>2, <3>3, ParentOfChild
      <4> QED
        BY <3>3, <3>6, <3>7, <4>1, DelShrunk
    <3>9. ASSUME NEW j \in 1 .. n - 1 PROVE DelLevel(fs', levels[j], Current(levels, j))
      <4>1. DelLevel(fs, levels[j], Current(levels, j))
        BY <1>5, <1>6 DEF DelLevels, n
      <4>2. /\ levels[j].step = "search" /\ e # levels[j].path
            /\ e \notin levels[j].listed \ levels[j].seen
        BY <2>2, Above DEF n
      <4> QED
        BY <3>6, <4>1, <4>2, DelShrunk
    <3>10. ASSUME NEW j \in 1 .. Len(levels')
           PROVE  DelLevel(fs', levels'[j], Current(levels', j))
      <4>1. j \in 1 .. n - 1 \/ j = n
        BY <1>4, <3>5
      <4> QED
        BY <3>5, <3>7, <3>8, <3>9, <4>1
    <3> QED
      BY <3>10 DEF DelLevels
  <2> QED
    BY <2>4, <2>5
<1>14. ASSUME DeleteLeave PROVE DelLevels(fs', levels')
  <2> DEFINE e == Level.path
  <2>1. Level.step = "leave" /\ levels' # <<>> /\ e \in TreePaths
    BY <1>4, <1>9, <1>14 DEF DeleteLeave, LevelRecords
  <2>2. fs' = Lacks(fs, e) /\ Popped(levels, levels')
    BY <1>14, <2>1 DEF DeleteLeave, Fail, ReturnTrue, Popped
  <2>3. \A j \in 1 .. n - 1 :
          /\ levels[j].step = "search" /\ e # levels[j].path
          /\ e \notin levels[j].listed \ levels[j].seen
    BY <2>1, Above DEF n
  <2>4. /\ Len(levels') = n - 1
        /\ \A j \in 1 .. n - 1 :
              /\ levels'[j] = levels[j]
              /\ Current(levels', j) = IF j = n - 1 THEN <<>> ELSE Current(levels, j)
              /\ j = n - 1 => Current(levels, j) = e
    BY <1>4, <2>2, <2>3, CurrentUp DEF n
  <2>5. Shrunk(fs, fs', e)
    <3>1. DOMAIN fs' = DOMAIN fs \ {e} /\ \A q \in DOMAIN fs : q # e => fs'[q] = fs[q]
      BY <2>2, LacksIs
    <3> QED
      BY <3>1 DEF Shrunk
  <2> HIDE DEF e
  <2>6. ASSUME NEW j \in 1 .. Len(levels')
        PROVE  DelLevel(fs', levels'[j], Current(levels', j))
    <3>1. j \in 1 .. n - 1
      BY <2>4
    <3>2. DelLevel(fs, levels[j], Current(levels, j))
      BY <1>5, <1>6, <3>1 DEF DelLevels, n
    <3>3. DelLevel(fs', levels[j], Current(levels, j))
      BY <2>3, <2>5, <3>1, <3>2, DelShrunk
    <3>4. j = n - 1 => DelLevel(fs', levels[j], <<>>)
      <4>1. ASSUME j = n - 1 PROVE DelLevel(fs', levels[j], <<>>)
        <5>1. DelLevel(fs, levels[j], e)
          BY <2>4, <3>1, <3>2, <4>1
        <5> QED
          BY <2>3, <2>5, <3>1, <5>1, DelShrunk
      <4> QED
        BY <4>1
    <3> QED
      BY <2>4, <3>1, <3>3, <3>4
  <2> QED
    BY <2>6 DEF DelLevels
<1>15. ~ (CopyEnter \/ CopyEntry \/ CopyLeave)
  BY DEF CopyEnter, CopyEntry, CopyLeave, InCopy
<1> QED
  BY <1>10, <1>11, <1>12, <1>13, <1>14, <1>15 DEF Work

LEMMA OutsideAll ==
  ASSUME NEW f, IsTree(f), NEW p \in TreePaths, p # <<>>, p \notin DOMAIN f
  PROVE  Outside(f, p) = f
<1>1. \A q \in DOMAIN f : ~ IsPrefix(p, q)
  BY UnderNothing
<1>2. {r \in DOMAIN f : ~ IsPrefix(p, r)} = DOMAIN f
  BY <1>1
<1>3. f \in [DOMAIN f -> Nodes]
  BY DEF IsTree
<1> QED
  BY <1>2, <1>3 DEF Outside

LEMMA WorkSame ==
  ASSUME Work
  PROVE  UNCHANGED <<call, before, busy, meddled>> /\ ~ Idle
BY DEF Work, DeleteEnter, CopyEnter, SearchNext, SearchEnds, DeleteEntry, CopyEntry,
       DeleteLeave, CopyLeave, SameCall, InDelete, InCopy

\* Only the end of the opcode leaves no level.
LEMMA NoneLeft ==
  ASSUME TreesBase, ~ Idle, Idle'
  PROVE  /\ \A fr : ~ SetTop(fr)
         /\ \A p, q : ~ Descend(p, q)
         /\ ~ OpenSearch /\ ~ Continue
         /\ ReturnTrue => Len(levels) = 1 /\ reply' = TRUE
<1>1. levels' = <<>>
  BY DEF Idle
<1>2. levels \in Stack /\ levels # <<>> /\ Len(levels) \in Nat /\ Len(levels) >= 1
  BY LevelIs
<1>3. ASSUME NEW fr, SetTop(fr) PROVE FALSE
  BY <1>1, <1>2, <1>3 DEF SetTop, Stack
<1>4. ASSUME NEW p, NEW q, Descend(p, q) PROVE FALSE
  <2> DEFINE lu == [levels EXCEPT ![Len(levels)].step = "search"]
  <2>1. levels' = Append(lu, Frame(p, q))
    BY <1>4 DEF Descend
  <2>2. Len(lu) = Len(levels)
    BY <1>2 DEF Stack
  <2> HIDE DEF lu
  <2>3. Len(Append(lu, Frame(p, q))) = Len(lu) + 1
    OBVIOUS
  <2> QED
    BY <1>1, <1>2, <2>1, <2>2, <2>3
<1>5. ~ OpenSearch /\ ~ Continue
  BY <1>3 DEF OpenSearch, Continue
<1>6. ASSUME ReturnTrue PROVE Len(levels) = 1 /\ reply' = TRUE
  <2>1. Popped(levels, levels')
    BY <1>6 DEF ReturnTrue, Popped
  <2>2. Len(levels') = Len(levels) - 1
    BY <1>2, <2>1, PoppedIs
  <2>3. Len(levels) = 1
    BY <1>1, <1>2, <2>2
  <2> QED
    BY <1>6, <2>3 DEF ReturnTrue
<1> QED
  BY <1>3, <1>4, <1>5, <1>6

LEMMA WorkEnds ==
  ASSUME TreesBase, Work, Idle'
  PROVE  \/ /\ Len(levels) = 1 /\ reply' = TRUE /\ UNCHANGED searches
            /\ \/ DeleteLeave /\ CanRemoveDirectory(fs, Level.path) /\ fs' = Lacks(fs, Level.path)
               \/ CopyLeave /\ fs' = fs
         \/ /\ DeleteLeave /\ ~ CanRemoveDirectory(fs, Level.path)
            /\ fs' = fs /\ reply' = FALSE
         \/ /\ DeleteEntry /\ ~ Level.isDir /\ reply' = FALSE
            /\ ~ CanDeleteFile(WithoutReadonly(fs, Level.entry), busy, Level.entry)
         \/ (CopyEnter \/ CopyEntry) /\ reply' = FALSE
<1>1. ~ Idle
  BY WorkSame
<1>2. /\ \A fr : ~ SetTop(fr)
      /\ \A p, q : ~ Descend(p, q)
      /\ ~ OpenSearch /\ ~ Continue
      /\ ReturnTrue => Len(levels) = 1 /\ reply' = TRUE
  BY <1>1, NoneLeft
<1>3. CASE DeleteEnter
  BY <1>2, <1>3 DEF DeleteEnter
<1>4. CASE CopyEnter
  BY <1>2, <1>4 DEF CopyEnter, Fail
<1>5. CASE SearchNext
  BY <1>2, <1>5 DEF SearchNext
<1>6. CASE SearchEnds
  BY <1>2, <1>6 DEF SearchEnds
<1>7. CASE DeleteEntry
  BY <1>2, <1>7 DEF DeleteEntry, Fail
<1>8. CASE CopyEntry
  BY <1>2, <1>8 DEF CopyEntry, Fail
<1>9. CASE DeleteLeave
  BY <1>2, <1>9 DEF DeleteLeave, Fail
<1>10. CASE CopyLeave
  BY <1>2, <1>10 DEF CopyLeave
<1> QED
  BY <1>3, <1>4, <1>5, <1>6, <1>7, <1>8, <1>9, <1>10 DEF Work

LEMMA DelEnds ==
  ASSUME TreesBase, TreesBase', DelInv, Work
  PROVE  DeleteIsExact'
<1>1. UNCHANGED <<call, before, busy, meddled>> /\ ~ Idle
  BY WorkSame
<1>2. SUFFICES ASSUME call.op = "delete_directory", Idle', ~ meddled.now
               PROVE  IF reply' THEN fs' = Outside(before, call.path)
                      ELSE \/ ~ (Exists(before, call.path) /\ IsDir(before, call.path))
                           \/ \E p \in busy : IsStrictPrefix(call.path, p)
  BY <1>1 DEF DeleteIsExact, Ended
<1>3. /\ levels \in Stack /\ levels # <<>> /\ Len(levels) \in Nat /\ Len(levels) >= 1
      /\ Level = levels[Len(levels)] /\ Level \in LevelRecords /\ LevelOK(call, Level)
      /\ Deep(call, Level, Len(levels)) /\ IsTree(fs) /\ IsTree(fs') /\ IsTree(before)
      /\ call.path \in TreePaths /\ call.newPath = call.path
  BY <1>1, <1>2, LevelIs DEF TreesBase, Stands, CallOK
<1>4. Level.path \in TreePaths /\ IsPrefix(call.path, Level.path)
  BY <1>3 DEF LevelRecords, LevelOK
<1>5. CASE /\ Len(levels) = 1 /\ reply' = TRUE
           /\ CanRemoveDirectory(fs, Level.path) /\ fs' = Lacks(fs, Level.path)
  <2>1. Level.path = call.path
    <3>1. Len(Level.path) = Len(call.path)
      BY <1>3, <1>5, LenIs DEF Deep
    <3> QED
      BY <1>3, <1>4, <3>1, PrefixLen
  <2>2. DOMAIN fs' = DOMAIN fs \ {Level.path}
    BY <1>5, LacksIs
  <2>3. call.path \notin DOMAIN fs' /\ call.path # <<>>
    BY <1>5, <2>1, <2>2 DEF CanRemoveDirectory
  <2>4. Outside(fs', call.path) = fs'
    BY <1>3, <2>3, OutsideAll
  <2>5. Outside(fs', call.path) = Outside(fs, call.path)
    BY <1>3, WorkOutside
  <2>6. Outside(fs, call.path) = Outside(before, call.path)
    BY <1>2 DEF DelInv, OutsideKept
  <2> QED
    BY <1>5, <2>4, <2>5, <2>6
<1>6. ASSUME WasThere
      PROVE  DelLevel(fs, Level, CurrentOf(Level))
  <2>1. DelLevels(fs, levels)
    BY <1>1, <1>2, <1>6 DEF DelInv, Deleting
  <2>2. Len(levels) \in 1 .. Len(levels) /\ Current(levels, Len(levels)) = CurrentOf(Level)
    BY <1>3 DEF Current, CurrentOf
  <2> QED
    BY <1>3, <2>1, <2>2 DEF DelLevels
<1>7. ASSUME Exists(before, call.path) /\ IsDir(before, call.path)
      PROVE  WasThere
  <2>1. call.path # <<>>
    BY <1>3, <1>7, TreeIs DEF Exists
  <2> QED
    BY <1>7, <2>1 DEF WasThere, Exists, IsDir
<1>8. CASE DeleteLeave /\ ~ CanRemoveDirectory(fs, Level.path) /\ reply' = FALSE
  <2>1. ASSUME WasThere PROVE FALSE
    <3>1. Level.step = "leave" /\ DelLevel(fs, Level, CurrentOf(Level))
      BY <1>6, <1>8, <2>1 DEF DeleteLeave
    <3>2. /\ Level.path \in DOMAIN fs /\ fs[Level.path].dir /\ Children(fs, Level.path) = {}
      BY <3>1 DEF DelLevel
    <3>3. Level.path # <<>>
      BY <1>3, <3>2, TreeIs
    <3> QED
      BY <1>8, <3>2, <3>3 DEF CanRemoveDirectory, Exists, IsDir
  <2> QED
    BY <1>7, <1>8, <2>1
<1>9. CASE /\ DeleteEntry /\ ~ Level.isDir /\ reply' = FALSE
           /\ ~ CanDeleteFile(WithoutReadonly(fs, Level.entry), busy, Level.entry)
  <2> DEFINE e == Level.entry
             g == WithoutReadonly(fs, e)
  <2>1. Level.step = "entry"
    BY <1>9 DEF DeleteEntry
  <2>2. e \in TreePaths /\ IsPrefix(call.path, e) /\ Child(Level.path, e)
    BY <1>1, <2>1, EntryIs
  <2>3. call.path # e
    <3>1. Len(e) = Len(Level.path) + 1
      BY <2>2 DEF Child
    <3>2. Len(call.path) <= Len(Level.path)
      BY <1>3, <1>4, PrefixLen
    <3> QED
      BY <1>3, <1>4, <3>1, <3>2, LenIs
  <2>4. ASSUME WasThere PROVE e \in busy
    <3>1. e \in DOMAIN fs /\ ~ fs[e].dir
      BY <1>6, <1>9, <2>1, <2>4 DEF DelLevel
    <3>2. IsFile(fs, e)
      BY <3>1 DEF IsFile, Exists
    <3>3. /\ DOMAIN g = DOMAIN fs /\ ~ g[e].readonly
          /\ \A q \in DOMAIN fs : g[q].dir = fs[q].dir
      BY <1>3, <3>2, WritableIs
    <3>4. ~ CanDeleteFile(g, busy, e)
      BY <1>9
    <3> HIDE DEF g, e
    <3>5. IsFile(g, e)
      BY <3>1, <3>3 DEF IsFile, Exists
    <3> QED
      BY <3>3, <3>4, <3>5 DEF CanDeleteFile
  <2> QED
    BY <1>7, <1>9, <2>2, <2>3, <2>4 DEF IsStrictPrefix
<1>10. ~ (CopyEnter \/ CopyEntry \/ CopyLeave)
  BY <1>2 DEF CopyEnter, CopyEntry, CopyLeave, InCopy
<1> QED
  BY <1>2, <1>5, <1>8, <1>9, <1>10, WorkEnds

LEMMA DelStep ==
  ASSUME TreesBase, TreesBase', DelInv, Work \/ Opcode \/ Others
  PROVE  DelInv'
<1>1. CASE Work
  <2>1. DeleteIsExact' /\ UNCHANGED <<call, before, busy, meddled>> /\ ~ Idle
    BY <1>1, DelEnds, WorkSame
  <2>2. CASE call.op = "delete_directory" /\ ~ meddled.now
    BY <1>1, <2>1, <2>2, DelWork DEF DelInv
  <2>3. CASE ~ (call.op = "delete_directory" /\ ~ meddled.now)
    BY <2>1, <2>3 DEF DelInv, OutsideKept, Deleting
  <2> QED
    BY <2>2, <2>3
<1>2. CASE Others
  <2>1. meddled'.now
    BY <1>2 DEF Others, OtherOpens, OtherCloses, OtherDeletes, OtherCreates, Meddles
  <2> QED
    BY <2>1 DEF DelInv, OutsideKept, Deleting, DeleteIsExact, Ended
<1>3. ASSUME NEW p, Script_FS_DeleteDirectory(p) PROVE DelInv'
  <2> DEFINE fr == Frame(p, p)
  <2>1. /\ levels' = <<fr>> /\ before' = fs /\ fs' = fs /\ call'.path = p
    BY <1>3 DEF Script_FS_DeleteDirectory, Recursive, Begins
  <2>2. fr.path = p /\ fr.step = "enter"
    BY DEF Frame
  <2> HIDE DEF fr
  <2>3. Len(levels') = 1 /\ levels'[1] = fr /\ levels' # <<>>
    BY <2>1
  <2>4. WasThere' => DelLevels(fs', levels')
    <3>1. ASSUME WasThere' PROVE \A c : DelLevel(fs', fr, c)
      BY <2>1, <2>2, <3>1 DEF WasThere, DelLevel
    <3> QED
      BY <2>3, <3>1 DEF DelLevels
  <2>5. OutsideKept' /\ ~ Idle'
    BY <2>1, <2>3 DEF OutsideKept, Idle
  <2> QED
    BY <2>4, <2>5 DEF DelInv, Deleting, DeleteIsExact, Ended
<1>4. ASSUME call'.op # "delete_directory" PROVE DelInv'
  BY <1>4 DEF DelInv, OutsideKept, Deleting, DeleteIsExact, Ended
<1>5. CASE Opcode
  <2>1. ASSUME NEW op, NEW p, NEW q, Begins(op, p, q) PROVE call'.op = op
    BY <2>1 DEF Begins
  <2>2. ASSUME NEW op, NEW p, NEW q, NEW ok, NEW g, Single(op, p, q, ok, g)
        PROVE  call'.op = op
    BY <2>1, <2>2 DEF Single
  <2>3. (\E p \in Sources : Script_FS_DeleteDirectory(p)) \/ call'.op # "delete_directory"
    BY <1>5, <2>1, <2>2 DEF Opcode, Script_FS_DeleteFile, Script_FS_RemoveDirectory,
       Script_FS_MoveFile, Script_FS_MoveDir, Script_FS_CopyFile, Script_FS_CopyDir, Recursive
  <2> QED
    BY <1>3, <1>4, <2>3
<1> QED
  BY <1>1, <1>2, <1>5

(***************************************************************************)
(* Directories: a directory is not copied into itself.                     *)
(***************************************************************************)

\* The entry of the level that leads to its own new directory.
Towards(l) == Cut(l.newPath, Len(l.path) + 1)

\* A level that copies into its own directory: the entry that leads to the new directory was listed
\* after CreateDirectory, and is not passed without going down into it, where the same holds.  So
\* such a level never ends well.
NestLevel(f, l, cur) ==
    /\ l.step = "entry" /\ l.isDir => IsDir(f, l.entry)
    /\ IsPrefix(l.path, l.newPath) =>
          /\ IsDir(f, l.path) /\ l.step # "leave"
          /\ l.step # "enter" =>
                /\ l.newPath \in DOMAIN f /\ f[l.newPath].dir /\ l.path # l.newPath
                /\ Towards(l) \in l.listed \ l.seen \/ Towards(l) = cur
          /\ l.step = "entry" /\ l.entry = Towards(l) => l.isDir

NestLevels(f, lv) == \A j \in 1 .. Len(lv) : NestLevel(f, lv[j], Current(lv, j))

Nesting ==
    (call.op = "copy_directory" /\ ~ Idle /\ ~ meddled.now /\ IsDir(before, call.path))
        => NestLevels(fs, levels)

\* Directories stay.
Grows(f, g) == \A q \in DOMAIN f : f[q].dir => q \in DOMAIN g /\ g[q].dir

LEMMA NestGrows ==
  ASSUME NEW f, NEW g, Grows(f, g), NEW l, NEW cur, NestLevel(f, l, cur)
  PROVE  NestLevel(g, l, cur)
<1>1. \A q : IsDir(f, q) => IsDir(g, q)
  BY DEF IsDir, Exists, Grows
<1> QED
  BY <1>1 DEF NestLevel, Grows

LEMMA GrowsSelf == ASSUME NEW f PROVE Grows(f, f)
BY DEF Grows

\* The innermost level takes another step.
LEMMA NestTop ==
  ASSUME NEW f, NEW g, Grows(f, g), NEW lv \in Stack, lv # <<>>, NestLevels(f, lv),
         NEW fr \in LevelRecords, fr.path = lv[Len(lv)].path, NEW lw, TopSet(lv, fr, lw),
         NestLevel(g, fr, CurrentOf(fr))
  PROVE  NestLevels(g, lw)
<1>1. /\ Len(lw) = Len(lv) /\ lw[Len(lv)] = fr /\ Current(lw, Len(lv)) = CurrentOf(fr)
      /\ \A j \in 1 .. Len(lv) - 1 : lw[j] = lv[j] /\ Current(lw, j) = Current(lv, j)
  BY CurrentTop
<1>2. ASSUME NEW j \in 1 .. Len(lw) PROVE NestLevel(g, lw[j], Current(lw, j))
  <2>1. j \in 1 .. Len(lv) /\ (j \in 1 .. Len(lv) - 1 \/ j = Len(lv))
    BY <1>1, StackLen
  <2>2. NestLevel(f, lv[j], Current(lv, j))
    BY <2>1 DEF NestLevels
  <2>3. NestLevel(g, lv[j], Current(lv, j))
    BY <2>2, NestGrows
  <2> QED
    BY <1>1, <2>1, <2>3
<1> QED
  BY <1>2 DEF NestLevels

\* What leads to the new directory is a directory.
LEMMA TowardsIs ==
  ASSUME NEW f, IsTree(f), NEW l \in LevelRecords, IsPrefix(l.path, l.newPath),
         l.newPath \in DOMAIN f, f[l.newPath].dir, l.path # l.newPath
  PROVE  /\ Towards(l) \in Children(f, l.path) /\ IsDir(f, Towards(l))
         /\ Towards(l) # <<>> /\ Towards(l) \in DOMAIN f
<1> DEFINE c == Towards(l)
<1>1. l.path \in TreePaths /\ l.newPath \in TreePaths
  BY DEF LevelRecords
<1>2. c \in TreePaths /\ Child(l.path, c) /\ IsPrefix(c, l.newPath)
  BY <1>1, ChildTowards DEF Towards
<1> HIDE DEF c
<1>3. c # <<>>
  BY <1>1, <1>2, ParentOfChild
<1>4. IsDir(f, c)
  <2>1. CASE c = l.newPath
    BY <2>1 DEF IsDir, Exists
  <2>2. CASE c # l.newPath
    BY <1>2, <2>2, Ancestors
  <2> QED
    BY <2>1, <2>2
<1>5. c \in DOMAIN f
  BY <1>3, <1>4 DEF IsDir, Exists
<1>6. c \in Children(f, l.path)
  BY <1>2, <1>5, ChildrenAre
<1> QED
  BY <1>3, <1>4, <1>5, <1>6 DEF c

LEMMA NestWork ==
  ASSUME TreesBase, Nesting, Work, call.op = "copy_directory", ~ meddled.now, ~ Idle
  PROVE  Nesting'
<1>1. UNCHANGED <<call, before, busy, meddled>>
  BY WorkSame
<1>2. SUFFICES ASSUME ~ Idle', IsDir(before, call.path) PROVE NestLevels(fs', levels')
  BY <1>1 DEF Nesting
<1> DEFINE n == Len(levels)
<1>3. /\ levels \in Stack /\ levels # <<>> /\ n \in Nat /\ n >= 1 /\ Level = levels[n]
      /\ Level \in LevelRecords /\ LevelOK(call, Level) /\ Chain(call, levels)
      /\ IsTree(fs) /\ Stands(fs, busy)
  BY LevelIs DEF TreesBase, Stands
<1>4. NestLevels(fs, levels)
  BY <1>2 DEF Nesting
<1>5. n \in 1 .. n /\ \A j \in 1 .. n - 1 : j \in 1 .. n
  BY <1>3
<1>6. Current(levels, n) = CurrentOf(Level)
  BY <1>3 DEF Current, CurrentOf
<1>7. NestLevel(fs, Level, CurrentOf(Level))
  BY <1>3, <1>4, <1>5, <1>6 DEF NestLevels
<1>8. levels' # <<>>
  BY <1>2 DEF Idle
<1> HIDE DEF n
<1>s. "search" \in LevelSteps /\ "leave" \in LevelSteps
  BY DEF LevelSteps
<1>t. ASSUME NEW fr \in LevelRecords, SetTop(fr), fr.path = Level.path, Grows(fs, fs'),
             NestLevel(fs', fr, CurrentOf(fr))
      PROVE  NestLevels(fs', levels')
  <2>1. TopSet(levels, fr, levels')
    BY <1>t DEF SetTop, TopSet
  <2>2. fr.path = levels[Len(levels)].path
    BY <1>3, <1>t DEF n
  <2> QED
    BY <1>3, <1>4, <1>t, <2>1, <2>2, NestTop
<1>9. ASSUME CopyEnter PROVE NestLevels(fs', levels')
  <2> DEFINE q == Level.newPath
             fr == [Level EXCEPT !.step = "search", !.listed = Children(fs', Level.path)]
             gr == [Level EXCEPT !.step = "leave"]
  <2>1. Level.step = "enter"
    BY <1>9 DEF CopyEnter
  <2>2. fs' = Holds(fs, q, Directory) /\ OpenSearch /\ CanCreateDirectory(fs, q)
    BY <1>8, <1>9 DEF CopyEnter, Fail
  <2>3. q \in TreePaths /\ Level.path \in TreePaths
    BY <1>3 DEF LevelRecords
  <2>4. Stands(fs', busy)
    BY <1>3, <2>2, <2>3, DirectoryHeld
  <2>5. IsTree(fs')
    BY <2>4 DEF Stands
  <2>6. q \notin DOMAIN fs /\ q # <<>>
    BY <2>2 DEF CanCreateDirectory, Exists, Place
  <2>7. /\ q \in DOMAIN fs' /\ fs'[q].dir
        /\ \A x \in DOMAIN fs : x \in DOMAIN fs' /\ fs'[x] = fs[x]
    BY <2>2, <2>6, DirectoryIs DEF Holds
  <2>8. Grows(fs, fs')
    BY <2>7 DEF Grows
  <2>9. IF IsDir(fs', Level.path) THEN SetTop(fr) ELSE SetTop(gr)
    BY <2>2 DEF OpenSearch
  <2>10. \A e \in Children(fs', Level.path) : e \in TreePaths
    BY <2>5, ChildrenAre, TreeIs
  <2>11. /\ fr \in LevelRecords /\ fr.path = Level.path /\ fr.newPath = q /\ fr.step = "search"
         /\ fr.listed = Children(fs', Level.path) /\ fr.seen = Level.seen
    BY <1>3, <2>10 DEF LevelRecords, LevelSteps
  <2>12. gr \in LevelRecords /\ gr.path = Level.path /\ gr.newPath = q /\ gr.step = "leave"
    BY <1>3 DEF LevelRecords, LevelSteps
  <2> HIDE DEF fr, gr
  <2>13. fr.seen = {}
    BY <1>3, <2>1, <2>11 DEF LevelOK
  <2>14. ASSUME IsPrefix(Level.path, q) PROVE IsDir(fs', Level.path) /\ Level.path # q
    <3>1. IsDir(fs, Level.path)
      BY <1>7, <2>14 DEF NestLevel
    <3> QED
      BY <2>6, <2>8, <3>1 DEF IsDir, Exists, Grows
  <2> HIDE DEF q
  <2>15. NestLevel(fs', fr, CurrentOf(fr))
    <3>1. SUFFICES ASSUME IsPrefix(fr.path, fr.newPath)
                   PROVE  /\ IsDir(fs', fr.path) /\ fr.path # fr.newPath
                          /\ Towards(fr) \in fr.listed \ fr.seen
      BY <2>7, <2>11 DEF NestLevel
    <3>2. IsDir(fs', fr.path) /\ fr.path # fr.newPath
      BY <2>11, <2>14, <3>1
    <3>3. Towards(fr) \in Children(fs', fr.path)
      BY <2>5, <2>7, <2>11, <3>1, <3>2, TowardsIs
    <3> QED
      BY <2>11, <2>13, <3>2, <3>3
  <2>16. ASSUME ~ IsDir(fs', Level.path) PROVE NestLevel(fs', gr, CurrentOf(gr))
    <3>1. ~ IsPrefix(gr.path, gr.newPath)
      BY <2>12, <2>14, <2>16
    <3> QED
      BY <2>12, <3>1 DEF NestLevel
  <2> QED
    BY <1>t, <2>8, <2>9, <2>11, <2>12, <2>15, <2>16
<1>e. ASSUME Level.step \in {"search", "entry"}, IsPrefix(Level.path, Level.newPath)
      PROVE  /\ Towards(Level) \in Level.listed \ Level.seen \/ Towards(Level) = CurrentOf(Level)
             /\ IsDir(fs, Towards(Level)) /\ Towards(Level) \in DOMAIN fs
             /\ Towards(Level) # <<>>
  <2>1. /\ Level.newPath \in DOMAIN fs /\ fs[Level.newPath].dir /\ Level.path # Level.newPath
        /\ Towards(Level) \in Level.listed \ Level.seen \/ Towards(Level) = CurrentOf(Level)
    BY <1>7, <1>e DEF NestLevel
  <2> QED
    BY <1>3, <1>e, <2>1, TowardsIs
<1>10. ASSUME SearchNext PROVE NestLevels(fs', levels')
  <2>1. fs' = fs /\ Level.step = "search"
    BY <1>10 DEF SearchNext
  <2>2. PICK e \in Unseen \cup (Children(fs, Level.path) \ Level.seen) :
          SetTop([Level EXCEPT !.step = "entry", !.seen = @ \cup {e}, !.entry = e,
                               !.isDir = IsDir(fs, e)])
    BY <1>10 DEF SearchNext
  <2> DEFINE d == IsDir(fs, e)
             fr == Found(Level, e, d)
  <2>3. e \in Level.listed \cup Children(fs, Level.path)
    BY <2>2 DEF Unseen
  <2>4. d \in BOOLEAN
    <3>1. CASE e \in DOMAIN fs
      <4>1. fs[e].dir \in BOOLEAN
        BY <1>3, <3>1, TreeIs, NodeIs
      <4> QED
        BY <3>1, <4>1 DEF IsDir, Exists
    <3>2. CASE e \notin DOMAIN fs
      BY <3>2 DEF IsDir, Exists
    <3> QED
      BY <3>1, <3>2
  <2>5. SetTop(fr)
    BY <2>2 DEF Found
  <2>d. d => IsDir(fs, e)
    OBVIOUS
  <2>e. IsDir(fs, e) => d
    OBVIOUS
  <2> HIDE DEF d
  <2>6. /\ fr \in LevelRecords /\ fr.path = Level.path /\ fr.step = "entry"
        /\ fr.newPath = Level.newPath
        /\ fr.listed = Level.listed /\ fr.seen = Level.seen \cup {e}
        /\ fr.entry = e /\ fr.isDir = d
    BY <2>3, <2>4, FrameEntry
  <2> HIDE DEF fr
  <2>7. CurrentOf(fr) = e /\ CurrentOf(Level) = <<>> /\ Towards(fr) = Towards(Level)
    BY <2>1, <2>6 DEF CurrentOf, Towards
  <2>8. ASSUME IsPrefix(fr.path, fr.newPath)
        PROVE  /\ IsDir(fs, fr.path)
               /\ fr.newPath \in DOMAIN fs /\ fs[fr.newPath].dir /\ fr.path # fr.newPath
               /\ Towards(fr) \in fr.listed \ fr.seen \/ Towards(fr) = CurrentOf(fr)
               /\ fr.entry = Towards(fr) => fr.isDir
    <3>1. IsPrefix(Level.path, Level.newPath)
      BY <2>6, <2>8
    <3>2. /\ Towards(Level) \in Level.listed \ Level.seen \/ Towards(Level) = <<>>
          /\ IsDir(fs, Towards(Level)) /\ Towards(Level) # <<>>
      BY <1>e, <2>1, <2>7, <3>1
    <3>3. /\ IsDir(fs, Level.path) /\ Level.newPath \in DOMAIN fs /\ fs[Level.newPath].dir
          /\ Level.path # Level.newPath
      BY <1>7, <2>1, <3>1 DEF NestLevel
    <3> QED
      BY <2>6, <2>7, <2>e, <3>2, <3>3
  <2>9. fr.isDir => IsDir(fs, fr.entry)
    BY <2>6, <2>d
  <2>10. NestLevel(fs, fr, CurrentOf(fr))
    BY <2>6, <2>8, <2>9 DEF NestLevel
  <2> QED
    BY <1>t, <2>1, <2>5, <2>6, <2>10, GrowsSelf
<1>11. ASSUME SearchEnds PROVE NestLevels(fs', levels')
  <2> DEFINE fr == [Level EXCEPT !.step = "leave"]
  <2>1. fs' = fs /\ Level.step = "search" /\ SetTop(fr) /\ Unseen \cap DOMAIN fs = {}
    BY <1>11 DEF SearchEnds
  <2>2. fr \in LevelRecords /\ fr.path = Level.path /\ fr.newPath = Level.newPath /\ fr.step = "leave"
    BY <1>s, FrameStep
  <2> HIDE DEF fr
  <2>3. ~ IsPrefix(Level.path, Level.newPath)
    <3>1. CurrentOf(Level) = <<>>
      BY <2>1 DEF CurrentOf
    <3> QED
      BY <1>e, <2>1, <3>1 DEF Unseen
  <2>4. NestLevel(fs, fr, CurrentOf(fr))
    BY <2>2, <2>3 DEF NestLevel
  <2> QED
    BY <1>t, <2>1, <2>2, <2>4, GrowsSelf
<1>12. ASSUME CopyEntry PROVE NestLevels(fs', levels')
  <2> DEFINE e == Level.entry
  <2>1. Level.step = "entry" /\ InCopy
    BY <1>12 DEF CopyEntry
  <2>2. e \in TreePaths /\ CurrentOf(Level) = e /\ IsPrefix(call.path, e)
    BY <2>1, EntryIs DEF CurrentOf
  <2>3. /\ NewSubPath = Onto(call.path, call.newPath, e) /\ NewSubPath \in TreePaths
        /\ IsPrefix(call.newPath, NewSubPath)
    BY <2>1, NewIs
  <2>4. CASE Level.isDir
    <3> DEFINE fr == Frame(e, NewSubPath)
    <3>1. Descend(e, NewSubPath)
      BY <1>12, <2>4 DEF CopyEntry
    <3>2. LevelOK(call, fr)
      BY <2>2, <2>3, FrameIs DEF LevelOK
    <3>3. /\ fr \in LevelRecords /\ fr.path = e /\ fr.step = "enter"
          /\ Len(levels') = n + 1 /\ levels'[n + 1] = fr
          /\ levels'[n] = Resumed(levels[n]) /\ \A i \in 1 .. n - 1 : levels'[i] = levels[i]
          /\ fs' = fs
      BY <2>1, <2>3, <3>1, <3>2, DescendIs DEF n
    <3> HIDE DEF fr
    <3>4. /\ Current(levels', n) = e /\ Current(levels', n + 1) = <<>>
          /\ \A j \in 1 .. n - 1 : Current(levels', j) = Current(levels, j)
      BY <1>3, <3>3, CurrentDown DEF n
    <3>5. NestLevel(fs, fr, <<>>)
      <4>1. IsDir(fs, fr.path)
        BY <1>7, <2>1, <2>4, <3>3 DEF NestLevel
      <4> QED
        BY <3>3, <4>1 DEF NestLevel
    <3>6. /\ Resumed(Level).path = Level.path /\ Resumed(Level).step = "search"
          /\ Resumed(Level).newPath = Level.newPath
          /\ Resumed(Level).listed = Level.listed /\ Resumed(Level).seen = Level.seen
      BY <1>3 DEF Resumed, LevelRecords
    <3>7. NestLevel(fs, Resumed(Level), e)
      BY <1>7, <2>1, <2>2, <3>6 DEF NestLevel, Towards
    <3>8. ASSUME NEW j \in 1 .. Len(levels')
          PROVE  NestLevel(fs, levels'[j], Current(levels', j))
      <4>1. j \in 1 .. n - 1 \/ j = n \/ j = n + 1
        BY <1>3, <3>3
      <4>2. CASE j \in 1 .. n - 1
        BY <1>4, <1>5, <3>3, <3>4, <4>2 DEF NestLevels, n
      <4>3. CASE j = n
        BY <1>3, <3>3, <3>4, <3>7, <4>3
      <4>4. CASE j = n + 1
        BY <3>3, <3>4, <3>5, <4>4
      <4> QED
        BY <4>1, <4>2, <4>3, <4>4
    <3> QED
      BY <3>3, <3>8 DEF NestLevels
  <2>5. CASE ~ Level.isDir
    <3> DEFINE fr == [Level EXCEPT !.step = "search"]
               q == NewSubPath
               x == fs[e]
    <3>1. fs' = Holds(fs, q, x) /\ SetTop(fr) /\ CanCopyFile(fs, busy, e, q)
      BY <1>8, <1>12, <2>5 DEF CopyEntry, Continue, Fail
    <3>2. /\ fr \in LevelRecords /\ fr.path = Level.path /\ fr.step = "search"
          /\ fr.newPath = Level.newPath /\ fr.listed = Level.listed /\ fr.seen = Level.seen
      BY <1>s, FrameStep
    <3> HIDE DEF fr
    <3>3. Grows(fs, fs')
      <4>1. q \in DOMAIN fs => ~ fs[q].dir
        BY <3>1 DEF CanCopyFile, IsFile, Exists
      <4> HIDE DEF q, x
      <4>2. DOMAIN fs' = DOMAIN fs \cup {q} /\ \A y \in DOMAIN fs : y # q => fs'[y] = fs[y]
        BY <3>1 DEF Holds
      <4> QED
        BY <4>1, <4>2 DEF Grows
    <3>4. NestLevel(fs, fr, CurrentOf(fr))
      <4>1. SUFFICES ASSUME IsPrefix(Level.path, Level.newPath)
                     PROVE  /\ IsDir(fs, Level.path)
                            /\ Level.newPath \in DOMAIN fs /\ fs[Level.newPath].dir
                            /\ Level.path # Level.newPath
                            /\ Towards(Level) \in Level.listed \ Level.seen
        BY <3>2 DEF NestLevel, Towards
      <4>2. Towards(Level) \in Level.listed \ Level.seen \/ Towards(Level) = e
        BY <1>e, <2>1, <2>2, <4>1
      <4>3. Towards(Level) # e
        BY <1>7, <2>1, <2>5, <4>1 DEF NestLevel
      <4> QED
        BY <1>7, <2>1, <4>1, <4>2, <4>3 DEF NestLevel
    <3>5. NestLevel(fs', fr, CurrentOf(fr))
      BY <3>3, <3>4, NestGrows
    <3> QED
      BY <1>t, <3>1, <3>2, <3>3, <3>5
  <2> QED
    BY <2>4, <2>5
<1>13. ASSUME CopyLeave PROVE NestLevels(fs', levels')
  <2> DEFINE e == Level.path
  <2>1. Level.step = "leave" /\ fs' = fs /\ Popped(levels, levels') /\ e \in TreePaths
    BY <1>3, <1>13 DEF CopyLeave, ReturnTrue, Popped, LevelRecords
  <2>2. \A j \in 1 .. n - 1 : Calls(levels[j], levels[j + 1])
    BY <1>3 DEF Chain, n
  <2>3. \A j \in 1 .. n - 1 : levels[j].step = "search"
    BY <2>2 DEF Calls
  <2>4. /\ Len(levels') = n - 1
        /\ \A j \in 1 .. n - 1 :
              /\ levels'[j] = levels[j]
              /\ Current(levels', j) = IF j = n - 1 THEN <<>> ELSE Current(levels, j)
              /\ j = n - 1 => Current(levels, j) = e
    BY <1>3, <2>1, <2>3, CurrentUp DEF n
  <2>5. ~ IsPrefix(e, Level.newPath)
    BY <1>7, <2>1 DEF NestLevel
  <2>6. ASSUME NEW j \in 1 .. Len(levels')
        PROVE  NestLevel(fs, levels'[j], Current(levels', j))
    <3> DEFINE l == levels[j]
    <3>1. j \in 1 .. n - 1
      BY <2>4
    <3>2. NestLevel(fs, l, Current(levels, j))
      BY <1>4, <1>5, <3>1 DEF NestLevels, n
    <3>3. CASE j = n - 1
      <4>1. /\ NestLevel(fs, l, e) /\ l.step = "search" /\ levels'[j] = l
            /\ Current(levels', j) = <<>>
        BY <2>3, <2>4, <3>1, <3>2, <3>3
      <4>2. /\ l \in LevelRecords /\ LevelOK(call, l) /\ Child(l.path, e)
        <5>1. j \in 1 .. n /\ j + 1 = n
          BY <1>3, <3>1, <3>3
        <5>2. Deep(call, l, j) /\ l \in LevelRecords
          BY <1>3, <5>1, StackLen DEF Chain, n
        <5> QED
          BY <1>3, <2>2, <3>1, <5>1, <5>2 DEF Deep, Calls
      <4>3. ASSUME IsPrefix(l.path, l.newPath) PROVE Towards(l) # e
        <5>1. /\ l.newPath \in DOMAIN fs /\ fs[l.newPath].dir /\ l.path # l.newPath
          BY <4>1, <4>3 DEF NestLevel
        <5>2. /\ l.path \in TreePaths /\ l.newPath \in TreePaths /\ call.path \in TreePaths
              /\ call.newPath \in TreePaths /\ Level.newPath \in TreePaths
          BY <1>3, <4>2 DEF LevelRecords, TreesBase, CallOK
        <5>3. IsPrefix(Towards(l), l.newPath)
          BY <4>3, <5>1, <5>2, ChildTowards DEF Towards
        <5>4. /\ l.newPath = Onto(call.path, call.newPath, l.path)
              /\ Level.newPath = Onto(call.path, call.newPath, e)
              /\ IsPrefix(call.path, l.path) /\ IsPrefix(l.path, e)
          BY <1>3, <4>2 DEF LevelOK, Child
        <5>5. IsPrefix(Onto(call.path, call.newPath, l.path), Onto(call.path, call.newPath, e))
          BY ONLY <2>1, <5>2, <5>4, OntoUnder
        <5>6. IsPrefix(l.newPath, Level.newPath)
          BY <5>4, <5>5
        <5>7. ASSUME Towards(l) = e PROVE FALSE
          <6>1. IsPrefix(e, l.newPath)
            BY <5>3, <5>7
          <6>2. IsPrefix(e, Level.newPath)
            BY ONLY <2>1, <5>2, <5>6, <6>1, PrefixOver
          <6> QED
            BY <2>5, <6>2
        <5> QED
          BY <5>7
      <4>4. NestLevel(fs, l, <<>>)
        BY <4>1, <4>3 DEF NestLevel
      <4> QED
        BY <4>1, <4>4
    <3>4. CASE j # n - 1
      BY <2>4, <3>1, <3>2, <3>4
    <3> QED
      BY <3>3, <3>4
  <2> QED
    BY <2>1, <2>6 DEF NestLevels
<1>14. ~ (DeleteEnter \/ DeleteEntry \/ DeleteLeave)
  BY DEF DeleteEnter, DeleteEntry, DeleteLeave, InDelete
<1> QED
  BY <1>9, <1>10, <1>11, <1>12, <1>13, <1>14 DEF Work

(***************************************************************************)
(* Directories: what is copied.                                            *)
(***************************************************************************)
Image(c, r) == Onto(c.path, c.newPath, r)

\* f is b and copies of what is under the path of c.
Copies(c, f, b) ==
    /\ \A q \in DOMAIN b : q \in DOMAIN f /\ f[q] = b[q]
    /\ \A q \in DOMAIN f : \/ q \in DOMAIN b
                           \/ \E r \in DOMAIN b : /\ IsPrefix(c.path, r)
                                                  /\ q = Image(c, r) /\ f[q] = b[r]

\* What was under s has its copy.
Copied(c, f, b, s) == \A r \in DOMAIN b : IsPrefix(s, r) => Image(c, r) \in DOMAIN f

\* A level of a copy: it lists what was there before, and all it was given has its copy, except
\* perhaps the entry cur it is busy with.
CopyLevel(c, f, b, l, cur) ==
    /\ l.path \in DOMAIN b /\ b[l.path].dir
    /\ l.step # "enter" => l.newPath \in DOMAIN f
    /\ l.step \in {"search", "entry"} =>
          /\ l.listed = Children(b, l.path) /\ l.seen \subseteq l.listed
          /\ \A s \in l.seen : s # cur => Copied(c, f, b, s)
    /\ l.step = "entry" => l.entry \in DOMAIN b /\ l.isDir = b[l.entry].dir
    /\ l.step = "leave" => Copied(c, f, b, l.path)

CopyLevels(c, f, b, lv) == \A j \in 1 .. Len(lv) : CopyLevel(c, f, b, lv[j], Current(lv, j))

\* The new directory was not there.
Fresh(c, b, lv) == lv[1].step # "enter" => c.newPath \notin DOMAIN b /\ c.newPath # <<>>

\* The directory is not copied into itself.
Elsewhere(c, b) == IsDir(b, c.path) /\ ~ IsPrefix(c.path, c.newPath)

\* Holds at every level of a copy that is left alone and goes elsewhere.
Copying ==
    (call.op = "copy_directory" /\ ~ Idle /\ ~ meddled.now /\ Elsewhere(call, before))
        => /\ Copies(call, fs, before) /\ Fresh(call, before, levels)
           /\ CopyLevels(call, fs, before, levels)

LEMMA CopyGrows ==
  ASSUME NEW c, NEW f, NEW g, DOMAIN f \subseteq DOMAIN g, NEW b, NEW l, NEW cur,
         CopyLevel(c, f, b, l, cur)
  PROVE  CopyLevel(c, g, b, l, cur)
<1>1. \A s : Copied(c, f, b, s) => Copied(c, g, b, s)
  BY DEF Copied
<1> QED
  BY <1>1 DEF CopyLevel

LEMMA CopyTop ==
  ASSUME NEW c, NEW f, NEW g, DOMAIN f \subseteq DOMAIN g, NEW b,
         NEW lv \in Stack, lv # <<>>, CopyLevels(c, f, b, lv),
         NEW fr \in LevelRecords, fr.path = lv[Len(lv)].path, NEW lw, TopSet(lv, fr, lw),
         CopyLevel(c, g, b, fr, CurrentOf(fr))
  PROVE  CopyLevels(c, g, b, lw)
<1>1. /\ Len(lw) = Len(lv) /\ lw[Len(lv)] = fr /\ Current(lw, Len(lv)) = CurrentOf(fr)
      /\ \A j \in 1 .. Len(lv) - 1 : lw[j] = lv[j] /\ Current(lw, j) = Current(lv, j)
  BY CurrentTop
<1>2. ASSUME NEW j \in 1 .. Len(lw) PROVE CopyLevel(c, g, b, lw[j], Current(lw, j))
  <2>1. j \in 1 .. Len(lv) /\ (j \in 1 .. Len(lv) - 1 \/ j = Len(lv))
    BY <1>1, StackLen
  <2>2. CopyLevel(c, f, b, lv[j], Current(lv, j))
    BY <2>1 DEF CopyLevels
  <2>3. CopyLevel(c, g, b, lv[j], Current(lv, j))
    BY <2>2, CopyGrows
  <2> QED
    BY <1>1, <2>1, <2>3
<1> QED
  BY <1>2 DEF CopyLevels

\* Nothing is both in the directory that is copied and in the new one.
LEMMA ApartIs ==
  ASSUME NEW c, c.path \in TreePaths, c.newPath \in TreePaths, NEW b, IsTree(b), Elsewhere(c, b),
         c.newPath \notin DOMAIN b, c.newPath # <<>>, NEW q \in TreePaths, IsPrefix(c.path, q)
  PROVE  ~ IsPrefix(c.newPath, q)
<1> SUFFICES ASSUME IsPrefix(c.newPath, q) PROVE FALSE
  OBVIOUS
<1>1. Len(c.path) \in Nat /\ Len(c.newPath) \in Nat /\ ~ IsPrefix(c.path, c.newPath)
  BY LenIs DEF Elsewhere
<1>2. CASE Len(c.path) <= Len(c.newPath)
  BY <1>1, <1>2, PrefixesMeet
<1>3. CASE Len(c.newPath) <= Len(c.path)
  <2>1. IsPrefix(c.newPath, c.path)
    BY <1>3, PrefixesMeet
  <2>2. c.path # <<>>
    BY <1>1, PrefixSelf
  <2>3. c.path \in DOMAIN b
    BY <2>2 DEF Elsewhere, IsDir, Exists
  <2> QED
    BY <2>1, <2>3, UnderNothing
<1> QED
  BY <1>1, <1>2, <1>3

\* The directory that is copied stays as it was.
LEMMA SourceSame ==
  ASSUME NEW c, c.path \in TreePaths, c.newPath \in TreePaths, NEW b, IsTree(b), Elsewhere(c, b),
         c.newPath \notin DOMAIN b, c.newPath # <<>>, NEW f, IsTree(f), Copies(c, f, b)
  PROVE  /\ \A q \in DOMAIN f : IsPrefix(c.path, q) => q \in DOMAIN b
         /\ \A p \in TreePaths : IsPrefix(c.path, p) => Children(f, p) = Children(b, p)
<1>1. ASSUME NEW q \in DOMAIN f, IsPrefix(c.path, q) PROVE q \in DOMAIN b
  <2> SUFFICES ASSUME NEW r \in DOMAIN b, IsPrefix(c.path, r), q = Image(c, r)
               PROVE  FALSE
    BY DEF Copies
  <2>1. r \in TreePaths /\ q \in TreePaths
    BY TreeIs
  <2>2. IsPrefix(c.newPath, Onto(c.path, c.newPath, r))
    BY <2>1, OntoPrefix
  <2>3. IsPrefix(c.newPath, q)
    BY <2>2 DEF Image
  <2> QED
    BY <1>1, <2>1, <2>3, ApartIs
<1>2. ASSUME NEW p \in TreePaths, IsPrefix(c.path, p), NEW q
      PROVE  q \in Children(f, p) <=> q \in Children(b, p)
  <2>1. q \in Children(f, p) <=> q \in DOMAIN f /\ Child(p, q)
    BY ChildrenAre
  <2>2. q \in Children(b, p) <=> q \in DOMAIN b /\ Child(p, q)
    BY ChildrenAre
  <2>3. q \in DOMAIN b => q \in DOMAIN f
    BY DEF Copies
  <2>4. ASSUME q \in DOMAIN f, Child(p, q) PROVE IsPrefix(c.path, q)
    <3>1. q \in TreePaths /\ IsPrefix(p, q)
      BY <2>4, TreeIs DEF Child
    <3> QED
      BY ONLY <1>2, <3>1, c.path \in TreePaths, p \in TreePaths, PrefixOver
  <2> QED
    BY <1>1, <2>1, <2>2, <2>3, <2>4
<1>3. ASSUME NEW p \in TreePaths, IsPrefix(c.path, p) PROVE Children(f, p) = Children(b, p)
  BY <1>2, <1>3
<1> QED
  BY <1>1, <1>3

\* Another copy is made.
LEMMA CopyMore ==
  ASSUME NEW c, NEW f, NEW b, Copies(c, f, b), NEW r \in DOMAIN b, IsPrefix(c.path, r),
         Image(c, r) \notin DOMAIN b
  PROVE  LET g == Holds(f, Image(c, r), b[r])
         IN  /\ Copies(c, g, b) /\ DOMAIN f \subseteq DOMAIN g /\ Image(c, r) \in DOMAIN g
<1> DEFINE z == Image(c, r)
           g == Holds(f, z, b[r])
<1>1. /\ DOMAIN g = DOMAIN f \cup {z} /\ g[z] = b[r]
      /\ \A q \in DOMAIN f : q # z => g[q] = f[q]
  BY DEF Holds
<1>2. z = Image(c, r) /\ z \notin DOMAIN b
  OBVIOUS
<1> HIDE DEF g, z
<1>3. ASSUME NEW q \in DOMAIN b PROVE q \in DOMAIN g /\ g[q] = b[q]
  BY <1>1, <1>2 DEF Copies
<1>4. ASSUME NEW q \in DOMAIN g, q \notin DOMAIN b
      PROVE  \E s \in DOMAIN b : IsPrefix(c.path, s) /\ q = Image(c, s) /\ g[q] = b[s]
  <2>1. CASE q = z
    BY <1>1, <1>2, <2>1
  <2>2. CASE q # z
    <3>1. q \in DOMAIN f /\ g[q] = f[q]
      BY <1>1, <2>2
    <3> QED
      BY <1>4, <3>1 DEF Copies
  <2> QED
    BY <2>1, <2>2
<1>5. Copies(c, g, b)
  BY <1>3, <1>4 DEF Copies
<1> QED
  BY <1>1, <1>5 DEF g, z

LEMMA CopyWork ==
  ASSUME TreesBase, TreesBase', Copying, Work, call.op = "copy_directory", ~ meddled.now, ~ Idle
  PROVE  Copying'
<1>1. UNCHANGED <<call, before, busy, meddled>>
  BY WorkSame
<1>2. SUFFICES ASSUME ~ Idle', Elsewhere(call, before)
               PROVE  /\ Copies(call, fs', before) /\ Fresh(call, before, levels')
                      /\ CopyLevels(call, fs', before, levels')
  BY <1>1 DEF Copying
<1> DEFINE n == Len(levels)
           b == before
           P == call.path
           Q == call.newPath
           Goal == /\ Copies(call, fs', b) /\ Fresh(call, b, levels')
                   /\ CopyLevels(call, fs', b, levels')
<1>3. /\ levels \in Stack /\ levels # <<>> /\ n \in Nat /\ n >= 1 /\ Level = levels[n]
      /\ Level \in LevelRecords /\ LevelOK(call, Level) /\ Deep(call, Level, n)
      /\ Chain(call, levels) /\ IsTree(fs) /\ Stands(fs, busy) /\ IsTree(fs') /\ IsTree(b)
      /\ P \in TreePaths /\ Q \in TreePaths
  BY LevelIs DEF TreesBase, Stands, CallOK
<1>4. Copies(call, fs, b) /\ Fresh(call, b, levels) /\ CopyLevels(call, fs, b, levels)
  BY <1>2 DEF Copying
<1>5. n \in 1 .. n /\ \A j \in 1 .. n - 1 : j \in 1 .. n
  BY <1>3
<1>6. Current(levels, n) = CurrentOf(Level)
  BY <1>3 DEF Current, CurrentOf
<1>7. CopyLevel(call, fs, b, Level, CurrentOf(Level))
  BY <1>3, <1>4, <1>5, <1>6 DEF CopyLevels
<1>8. levels' # <<>>
  BY <1>2 DEF Idle
<1>9. /\ Level.path \in TreePaths /\ Level.newPath \in TreePaths /\ IsPrefix(P, Level.path)
      /\ Level.newPath = Image(call, Level.path)
      /\ Level.path \in DOMAIN b /\ b[Level.path].dir
  BY <1>3, <1>7 DEF LevelRecords, LevelOK, Image, CopyLevel
<1>10. \A j \in 1 .. n - 1 : Calls(levels[j], levels[j + 1])
  BY <1>3 DEF Chain, n
<1>e. Elsewhere(call, b)
  BY <1>2
<1> HIDE DEF n, b, P, Q
<1>s. "search" \in LevelSteps /\ "leave" \in LevelSteps
  BY DEF LevelSteps
<1>u. n > 1 => levels[1].step = "search"
  <2>1. n > 1 => 1 \in 1 .. n - 1
    BY <1>3
  <2> QED
    BY <1>10, <2>1 DEF Calls
<1>f. Level.step # "enter" => Q \notin DOMAIN b /\ Q # <<>>
  <2>1. n = 1 \/ n > 1
    BY <1>3
  <2> QED
    BY <1>3, <1>4, <1>u, <2>1 DEF Fresh, Q
<1>t. ASSUME NEW fr \in LevelRecords, SetTop(fr), fr.path = Level.path, DOMAIN fs \subseteq DOMAIN fs',
             CopyLevel(call, fs', b, fr, CurrentOf(fr))
      PROVE  CopyLevels(call, fs', b, levels')
  <2>1. TopSet(levels, fr, levels')
    BY <1>t DEF SetTop, TopSet
  <2>2. fr.path = levels[Len(levels)].path
    BY <1>3, <1>t DEF n
  <2> QED
    BY <1>3, <1>4, <1>t, <2>1, <2>2, CopyTop
<1>h. ASSUME NEW r \in DOMAIN b, IsPrefix(P, r), Q \notin DOMAIN b, Q # <<>>
      PROVE  Image(call, r) \in TreePaths /\ Image(call, r) \notin DOMAIN b
  <2>1. r \in TreePaths
    BY <1>3, TreeIs
  <2>2. Onto(P, Q, r) \in TreePaths /\ IsPrefix(Q, Onto(P, Q, r))
    BY <1>3, <1>h, <2>1, OntoPrefix
  <2>3. Onto(P, Q, r) \notin DOMAIN b
    BY <1>3, <1>h, <2>2, UnderNothing
  <2> QED
    BY <2>2, <2>3 DEF Image, P, Q
<1>11. ASSUME CopyEnter PROVE Goal
  <2> DEFINE q == Level.newPath
             fr == [Level EXCEPT !.step = "search", !.listed = Children(fs', Level.path)]
  <2>1. Level.step = "enter"
    BY <1>11 DEF CopyEnter
  <2>2. fs' = Holds(fs, q, Directory) /\ OpenSearch /\ CanCreateDirectory(fs, q)
    BY <1>8, <1>11 DEF CopyEnter, Fail
  <2>3. q \notin DOMAIN fs /\ q # <<>>
    BY <2>2 DEF CanCreateDirectory, Exists, Place
  <2>4. q \notin DOMAIN b
    BY <1>4, <2>3 DEF Copies
  <2>5. Q \notin DOMAIN b /\ Q # <<>>
    <3>1. CASE n > 1
      BY <1>4, <1>u, <3>1 DEF Fresh, Q
    <3>2. CASE n = 1
      <4>1. Len(Level.path) = Len(P)
        BY <1>3, <3>2, LenIs DEF Deep, P
      <4>2. Level.path = P
        BY <1>3, <1>9, <4>1, PrefixLen
      <4>3. q = Q
        BY <1>3, <1>9, <4>2, OntoSelf DEF Image, P, Q
      <4> QED
        BY <2>3, <2>4, <4>3
    <3> QED
      BY <1>3, <3>1, <3>2
  <2>6. b[Level.path] = Directory /\ q = Image(call, Level.path)
    BY <1>3, <1>9, TreeIs, NodeIs
  <2>7. /\ Copies(call, fs', b) /\ DOMAIN fs \subseteq DOMAIN fs' /\ q \in DOMAIN fs'
    <3>1. Image(call, Level.path) \notin DOMAIN b /\ IsPrefix(call.path, Level.path)
      BY <1>9, <2>4, <2>6 DEF P
    <3>2. LET g == Holds(fs, Image(call, Level.path), b[Level.path])
          IN  /\ Copies(call, g, b) /\ DOMAIN fs \subseteq DOMAIN g
              /\ Image(call, Level.path) \in DOMAIN g
      BY <1>4, <1>9, <3>1, CopyMore
    <3> QED
      BY <2>2, <2>6, <3>2
  <2>8. Children(fs', Level.path) = Children(b, Level.path)
    BY <1>3, <1>9, <1>e, <2>5, <2>7, SourceSame DEF P, Q
  <2>9. IsDir(fs', Level.path)
    BY <1>9, <2>7 DEF IsDir, Exists, Copies
  <2>10. SetTop(fr)
    BY <2>2, <2>9 DEF OpenSearch
  <2>11. \A e \in Children(fs', Level.path) : e \in TreePaths
    BY <1>3, ChildrenAre, TreeIs
  <2>12. /\ fr \in LevelRecords /\ fr.path = Level.path /\ fr.newPath = q /\ fr.step = "search"
         /\ fr.listed = Children(fs', Level.path) /\ fr.seen = Level.seen
    BY <1>3, <2>11 DEF LevelRecords, LevelSteps
  <2> HIDE DEF fr
  <2>13. fr.seen = {}
    BY <1>3, <2>1, <2>12 DEF LevelOK
  <2>14. CopyLevel(call, fs', b, fr, CurrentOf(fr))
    BY <1>9, <2>7, <2>8, <2>12, <2>13 DEF CopyLevel
  <2>15. CopyLevels(call, fs', b, levels')
    BY <1>t, <2>7, <2>10, <2>12, <2>14
  <2> QED
    BY <2>5, <2>7, <2>15 DEF Fresh, Q
<1>m. Level.step # "enter" => Fresh(call, b, levels')
  BY <1>f DEF Fresh, Q
<1>c. ASSUME Level.step # "enter"
      PROVE  /\ Children(fs, Level.path) = Children(b, Level.path)
             /\ \A q \in DOMAIN b : q \in DOMAIN fs /\ fs[q] = b[q]
             /\ \A q \in Children(b, Level.path) :
                   q \in DOMAIN b /\ q \in TreePaths /\ q # <<>> /\ Child(Level.path, q)
  <2>1. Children(fs, Level.path) = Children(b, Level.path)
    BY <1>3, <1>4, <1>9, <1>c, <1>e, <1>f, SourceSame DEF P, Q
  <2> QED
    BY <1>3, <1>4, <2>1, ChildrenAre, TreeIs DEF Copies
<1>12. ASSUME SearchNext PROVE Goal
  <2>1. fs' = fs /\ Level.step = "search"
    BY <1>12 DEF SearchNext
  <2>2. PICK e \in Unseen \cup (Children(fs, Level.path) \ Level.seen) :
          SetTop([Level EXCEPT !.step = "entry", !.seen = @ \cup {e}, !.entry = e,
                               !.isDir = IsDir(fs, e)])
    BY <1>12 DEF SearchNext
  <2> DEFINE d == IsDir(fs, e)
             fr == Found(Level, e, d)
  <2>3. /\ Level.listed = Children(b, Level.path) /\ Level.seen \subseteq Level.listed
        /\ \A s \in Level.seen : s # <<>> => Copied(call, fs, b, s)
    BY <1>7, <2>1 DEF CopyLevel, CurrentOf
  <2>4. e \in Level.listed /\ e \in Children(b, Level.path)
    BY <1>c, <2>1, <2>2, <2>3 DEF Unseen
  <2>5. e \in DOMAIN b /\ e # <<>> /\ e \in DOMAIN fs /\ fs[e] = b[e] /\ b[e].dir \in BOOLEAN
    BY <1>3, <1>c, <2>1, <2>4, TreeIs, NodeIs
  <2>6. d = b[e].dir
    BY <2>5 DEF IsDir, Exists
  <2>7. SetTop(fr)
    BY <2>2 DEF Found
  <2> HIDE DEF d
  <2>8. /\ fr \in LevelRecords /\ fr.path = Level.path /\ fr.step = "entry"
        /\ fr.newPath = Level.newPath
        /\ fr.listed = Level.listed /\ fr.seen = Level.seen \cup {e}
        /\ fr.entry = e /\ fr.isDir = d
    BY <2>4, <2>5, <2>6, FrameEntry
  <2> HIDE DEF fr
  <2>9. CurrentOf(fr) = e
    BY <2>8 DEF CurrentOf
  <2>10. \A s \in fr.seen : s # e => Copied(call, fs, b, s)
    BY <1>c, <2>1, <2>3, <2>8
  <2>11. fr.seen \subseteq fr.listed /\ fr.listed = Children(b, fr.path)
    BY <2>3, <2>4, <2>8
  <2>12. Level.newPath \in DOMAIN fs
    BY <1>7, <2>1 DEF CopyLevel
  <2>13. CopyLevel(call, fs, b, fr, e)
    BY <1>9, <2>5, <2>6, <2>8, <2>10, <2>11, <2>12 DEF CopyLevel
  <2> QED
    BY <1>4, <1>m, <1>t, <2>1, <2>7, <2>8, <2>9, <2>13
<1>13. ASSUME SearchEnds PROVE Goal
  <2> DEFINE fr == [Level EXCEPT !.step = "leave"]
  <2>1. fs' = fs /\ Level.step = "search" /\ SetTop(fr) /\ Unseen \cap DOMAIN fs = {}
    BY <1>13 DEF SearchEnds
  <2>2. fr \in LevelRecords /\ fr.path = Level.path /\ fr.newPath = Level.newPath /\ fr.step = "leave"
    BY <1>s, FrameStep
  <2> HIDE DEF fr
  <2>3. /\ Level.listed = Children(b, Level.path) /\ Level.newPath \in DOMAIN fs
        /\ \A s \in Level.seen : s # <<>> => Copied(call, fs, b, s)
    BY <1>7, <2>1 DEF CopyLevel, CurrentOf
  <2>4. ASSUME NEW s \in Children(b, Level.path) PROVE Copied(call, fs, b, s)
    <3>1. s \in DOMAIN fs /\ s # <<>>
      BY <1>c, <2>1, <2>4
    <3>2. s \in Level.seen
      BY <2>1, <2>3, <2>4, <3>1 DEF Unseen
    <3> QED
      BY <2>3, <3>1, <3>2
  <2>5. ASSUME NEW r \in DOMAIN b, IsPrefix(Level.path, r)
        PROVE  Image(call, r) \in DOMAIN fs
    <3>1. r \in TreePaths
      BY <1>3, TreeIs
    <3>2. CASE r = Level.path
      BY <1>9, <2>3, <3>2
    <3>3. CASE r # Level.path
      <4> DEFINE x == Cut(r, Len(Level.path) + 1)
      <4>1. x \in TreePaths /\ Child(Level.path, x) /\ IsPrefix(x, r)
        BY <1>9, <2>5, <3>1, <3>3, ChildTowards
      <4> HIDE DEF x
      <4>2. x # <<>>
        BY <1>9, <4>1, ParentOfChild
      <4>3. x \in DOMAIN b
        BY <1>3, <3>1, <4>1, <4>2, Ancestors DEF IsDir, Exists
      <4>4. x \in Children(b, Level.path)
        BY <1>3, <4>1, <4>3, ChildrenAre
      <4> QED
        BY <2>4, <2>5, <4>1, <4>4 DEF Copied
    <3> QED
      BY <3>2, <3>3
  <2>6. Copied(call, fs, b, Level.path)
    BY <2>5 DEF Copied
  <2>7. CopyLevel(call, fs, b, fr, CurrentOf(fr))
    BY <1>9, <2>2, <2>3, <2>6 DEF CopyLevel
  <2> QED
    BY <1>4, <1>m, <1>t, <2>1, <2>2, <2>7
<1>14. ASSUME CopyEntry PROVE Goal
  <2> DEFINE e == Level.entry
             z == NewSubPath
  <2>1. Level.step = "entry" /\ InCopy
    BY <1>14 DEF CopyEntry
  <2>2. /\ e \in TreePaths /\ CurrentOf(Level) = e /\ IsPrefix(P, e) /\ Child(Level.path, e)
        /\ e # <<>>
    BY <2>1, EntryIs DEF CurrentOf, P
  <2>3. /\ z = Image(call, e) /\ z \in TreePaths /\ z = Onto(call.path, call.newPath, e)
        /\ IsPrefix(call.newPath, z)
    BY <2>1, NewIs DEF Image
  <2>4. /\ e \in DOMAIN b /\ Level.isDir = b[e].dir /\ Level.newPath \in DOMAIN fs
        /\ Level.listed = Children(b, Level.path) /\ Level.seen \subseteq Level.listed
        /\ \A s \in Level.seen : s # e => Copied(call, fs, b, s)
    BY <1>7, <2>1, <2>2 DEF CopyLevel
  <2>5. CASE Level.isDir
    <3> DEFINE fr == Frame(e, z)
    <3>1. Descend(e, z)
      BY <1>14, <2>5 DEF CopyEntry
    <3>2. LevelOK(call, fr)
      BY <2>1, <2>2, <2>3, FrameIs DEF LevelOK, InCopy, P
    <3>3. /\ fr \in LevelRecords /\ fr.path = e /\ fr.step = "enter"
          /\ Len(levels') = n + 1 /\ levels'[n + 1] = fr
          /\ levels'[n] = Resumed(levels[n]) /\ \A i \in 1 .. n - 1 : levels'[i] = levels[i]
          /\ fs' = fs
      BY <2>1, <2>3, <3>1, <3>2, DescendIs DEF n, InCopy
    <3> HIDE DEF fr
    <3>4. /\ Current(levels', n) = e /\ Current(levels', n + 1) = <<>>
          /\ \A j \in 1 .. n - 1 : Current(levels', j) = Current(levels, j)
      BY <1>3, <3>3, CurrentDown DEF n
    <3>5. CopyLevel(call, fs, b, fr, <<>>)
      BY <2>4, <2>5, <3>3 DEF CopyLevel
    <3>6. /\ Resumed(Level).path = Level.path /\ Resumed(Level).step = "search"
          /\ Resumed(Level).newPath = Level.newPath
          /\ Resumed(Level).listed = Level.listed /\ Resumed(Level).seen = Level.seen
      BY <1>3 DEF Resumed, LevelRecords
    <3>7. CopyLevel(call, fs, b, Resumed(Level), e)
      BY <1>9, <2>4, <3>6 DEF CopyLevel
    <3>8. ASSUME NEW j \in 1 .. Len(levels')
          PROVE  CopyLevel(call, fs, b, levels'[j], Current(levels', j))
      <4>1. j \in 1 .. n - 1 \/ j = n \/ j = n + 1
        BY <1>3, <3>3
      <4>2. CASE j \in 1 .. n - 1
        BY <1>4, <1>5, <3>3, <3>4, <4>2 DEF CopyLevels, n
      <4>3. CASE j = n
        BY <1>3, <3>3, <3>4, <3>7, <4>3
      <4>4. CASE j = n + 1
        BY <3>3, <3>4, <3>5, <4>4
      <4> QED
        BY <4>1, <4>2, <4>3, <4>4
    <3> QED
      BY <1>4, <1>m, <2>1, <3>3, <3>8 DEF CopyLevels
  <2>6. CASE ~ Level.isDir
    <3> DEFINE fr == [Level EXCEPT !.step = "search"]
    <3>1. fs' = Holds(fs, z, fs[e]) /\ SetTop(fr)
      BY <1>8, <1>14, <2>6 DEF CopyEntry, Continue, Fail
    <3>2. /\ fr \in LevelRecords /\ fr.path = Level.path /\ fr.step = "search"
          /\ fr.newPath = Level.newPath /\ fr.listed = Level.listed /\ fr.seen = Level.seen
      BY <1>s, FrameStep
    <3> HIDE DEF fr, z
    <3>3. fs[e] = b[e]
      BY <1>4, <2>4 DEF Copies
    <3>4. /\ Copies(call, fs', b) /\ DOMAIN fs \subseteq DOMAIN fs' /\ z \in DOMAIN fs'
      <4>1. Image(call, e) \notin DOMAIN b /\ IsPrefix(call.path, e)
        BY <1>f, <1>h, <2>1, <2>2, <2>4 DEF P
      <4>2. LET g == Holds(fs, Image(call, e), b[e])
            IN  /\ Copies(call, g, b) /\ DOMAIN fs \subseteq DOMAIN g
                /\ Image(call, e) \in DOMAIN g
        BY <1>4, <2>4, <4>1, CopyMore
      <4> QED
        BY <2>3, <3>1, <3>3, <4>2
    <3>5. ASSUME NEW s \in fr.seen PROVE Copied(call, fs', b, s)
      <4>1. CASE s # e
        BY <2>4, <3>2, <3>4, <3>5, <4>1 DEF Copied
      <4>2. CASE s = e
        <5>1. IsFile(b, e)
          BY <2>4, <2>6 DEF IsFile, Exists
        <5>2. \A r \in DOMAIN b : IsPrefix(e, r) => r = e
          BY <1>3, <5>1, UnderFile
        <5> QED
          BY <2>3, <3>4, <4>2, <5>2 DEF Copied
      <4> QED
        BY <4>1, <4>2
    <3>6. CopyLevel(call, fs', b, fr, CurrentOf(fr))
      BY <1>9, <2>4, <3>2, <3>4, <3>5 DEF CopyLevel
    <3>7. CopyLevels(call, fs', b, levels')
      BY <1>t, <3>1, <3>2, <3>4, <3>6
    <3> QED
      BY <1>m, <2>1, <3>4, <3>7
  <2> QED
    BY <2>5, <2>6
<1>15. ASSUME CopyLeave PROVE Goal
  <2> DEFINE e == Level.path
  <2>1. Level.step = "leave" /\ fs' = fs /\ Popped(levels, levels')
    BY <1>15 DEF CopyLeave, ReturnTrue, Popped
  <2>2. \A j \in 1 .. n - 1 : levels[j].step = "search"
    BY <1>10 DEF Calls
  <2>3. /\ Len(levels') = n - 1
        /\ \A j \in 1 .. n - 1 :
              /\ levels'[j] = levels[j]
              /\ Current(levels', j) = IF j = n - 1 THEN <<>> ELSE Current(levels, j)
              /\ j = n - 1 => Current(levels, j) = e
    BY <1>3, <2>1, <2>2, CurrentUp DEF n
  <2>4. Copied(call, fs, b, e)
    BY <1>7, <2>1 DEF CopyLevel
  <2>5. ASSUME NEW j \in 1 .. Len(levels')
        PROVE  CopyLevel(call, fs, b, levels'[j], Current(levels', j))
    <3>1. j \in 1 .. n - 1
      BY <2>3
    <3>2. CopyLevel(call, fs, b, levels[j], Current(levels, j))
      BY <1>4, <1>5, <3>1 DEF CopyLevels, n
    <3>3. CASE j = n - 1
      <4>1. CopyLevel(call, fs, b, levels[j], e) /\ levels[j].step = "search"
        BY <2>2, <2>3, <3>1, <3>2, <3>3
      <4>2. CopyLevel(call, fs, b, levels[j], <<>>)
        BY <2>4, <4>1 DEF CopyLevel
      <4> QED
        BY <2>3, <3>1, <3>3, <4>2
    <3>4. CASE j # n - 1
      BY <2>3, <3>1, <3>2, <3>4
    <3> QED
      BY <3>3, <3>4
  <2>6. CopyLevels(call, fs', b, levels')
    BY <2>1, <2>5 DEF CopyLevels
  <2> QED
    BY <1>4, <1>m, <2>1, <2>6
<1>16. ~ (DeleteEnter \/ DeleteEntry \/ DeleteLeave)
  BY DEF DeleteEnter, DeleteEntry, DeleteLeave, InDelete
<1>17. Goal
  BY <1>11, <1>12, <1>13, <1>14, <1>15, <1>16 DEF Work
<1> QED
  BY <1>17 DEF b

CopyInv == Nesting /\ Copying /\ CopyIsExact

LEMMA CopyEnds ==
  ASSUME TreesBase, CopyInv, Work
  PROVE  CopyIsExact'
<1> DEFINE b == before
           P == call.path
           Q == call.newPath
           S == {s \in DOMAIN b : IsPrefix(P, s)}
           R == {Onto(P, Q, r) : r \in S}
           g == [q \in DOMAIN b \cup R |-> IF q \in DOMAIN b THEN b[q] ELSE b[Onto(Q, P, q)]]
<1>1. UNCHANGED <<call, before, busy, meddled>> /\ ~ Idle
  BY WorkSame
<1>2. SUFFICES ASSUME call.op = "copy_directory", Idle', ~ meddled.now, reply', IsDir(before, call.path)
               PROVE  fs' = TreeCopied(b, P, Q)
  BY <1>1 DEF CopyIsExact, Ended
<1>3. Len(levels) = 1 /\ CopyLeave /\ fs' = fs
  <2>1. ~ DeleteLeave
    BY <1>2 DEF DeleteLeave, InDelete
  <2> QED
    BY <1>2, <2>1, WorkEnds
<1>4. /\ levels # <<>> /\ Level = levels[1] /\ Level \in LevelRecords /\ LevelOK(call, Level)
      /\ Deep(call, Level, 1) /\ IsTree(fs) /\ IsTree(b) /\ P \in TreePaths /\ Q \in TreePaths
      /\ Level.step = "leave"
  BY <1>1, <1>3, LevelIs DEF TreesBase, Stands, CallOK, CopyLeave
<1>5. Level.path = P /\ Level.newPath = Q
  <2>1. /\ Level.path \in TreePaths /\ IsPrefix(P, Level.path) /\ Len(Level.path) = Len(P) + 1 - 1
        /\ Level.newPath = Onto(P, Q, Level.path)
    BY <1>2, <1>4 DEF LevelRecords, LevelOK, Deep
  <2>2. Len(Level.path) = Len(P)
    BY <1>4, <2>1, LenIs
  <2>3. Level.path = P
    BY <1>4, <2>1, <2>2, PrefixLen
  <2> QED
    BY <1>4, <2>1, <2>3, OntoSelf
<1>6. ~ IsPrefix(P, Q)
  <2>1. NestLevels(fs, levels)
    BY <1>1, <1>2 DEF CopyInv, Nesting
  <2>2. NestLevel(fs, Level, Current(levels, 1))
    BY <1>3, <1>4, <2>1 DEF NestLevels
  <2> QED
    BY <1>4, <1>5, <2>2 DEF NestLevel
<1>7. /\ Copies(call, fs, b) /\ Q \notin DOMAIN b /\ Q # <<>> /\ Copied(call, fs, b, P)
  <2>1. Elsewhere(call, before)
    BY <1>2, <1>6 DEF Elsewhere
  <2>2. Copies(call, fs, b) /\ Fresh(call, b, levels) /\ CopyLevels(call, fs, b, levels)
    BY <1>1, <1>2, <2>1 DEF CopyInv, Copying
  <2>3. CopyLevel(call, fs, b, Level, Current(levels, 1))
    BY <1>3, <1>4, <2>2 DEF CopyLevels
  <2> QED
    BY <1>4, <1>5, <2>2, <2>3 DEF Fresh, CopyLevel
<1> HIDE DEF b, P, Q
<1>8. ASSUME NEW r \in S PROVE Onto(P, Q, r) \notin DOMAIN b /\ Onto(Q, P, Onto(P, Q, r)) = r
  <2>1. r \in TreePaths /\ IsPrefix(P, r)
    BY <1>4, TreeIs
  <2>2. /\ Onto(P, Q, r) \in TreePaths /\ IsPrefix(Q, Onto(P, Q, r))
        /\ Onto(Q, P, Onto(P, Q, r)) = r
    BY <1>4, <2>1, OntoPrefix
  <2> QED
    BY <1>4, <1>7, <2>2, UnderNothing
<1>9. ASSUME NEW q PROVE q \in DOMAIN fs <=> q \in DOMAIN b \cup R
  <2>1. q \in DOMAIN b => q \in DOMAIN fs
    BY <1>7 DEF Copies
  <2>2. q \in R => q \in DOMAIN fs
    BY <1>7 DEF Copied, Image, P, Q
  <2>3. q \in DOMAIN fs => q \in DOMAIN b \/ q \in R
    BY <1>7 DEF Copies, Image, P, Q
  <2> QED
    BY <2>1, <2>2, <2>3
<1>10. ASSUME NEW q \in DOMAIN fs, q \notin DOMAIN b PROVE fs[q] = b[Onto(Q, P, q)]
  <2>1. PICK r \in DOMAIN b : IsPrefix(P, r) /\ q = Onto(P, Q, r) /\ fs[q] = b[r]
    BY <1>7, <1>10 DEF Copies, Image, P, Q
  <2>2. r \in S
    BY <2>1
  <2>3. Onto(Q, P, q) = r
    BY <1>8, <2>1, <2>2
  <2> QED
    BY <2>1, <2>3
<1>11. \A q \in DOMAIN b : fs[q] = b[q]
  BY <1>7 DEF Copies
<1>12. fs \in [DOMAIN fs -> Nodes]
  BY <1>4 DEF IsTree
<1> HIDE DEF R
<1>13. DOMAIN fs = DOMAIN b \cup R
  BY <1>9
<1>14. fs = g
  BY <1>10, <1>11, <1>12, <1>13
<1>15. g = TreeCopied(b, P, Q)
  BY ONLY DEF TreeCopied, Onto, R, S
<1> HIDE DEF g
<1> QED
  BY <1>3, <1>14, <1>15

LEMMA CopyStep ==
  ASSUME FileSystemAssumption, TreesBase, TreesBase', CopyInv, Work \/ Opcode \/ Others
  PROVE  CopyInv'
<1>1. CASE Work
  <2>1. CopyIsExact' /\ UNCHANGED <<call, before, busy, meddled>> /\ ~ Idle
    BY <1>1, CopyEnds, WorkSame
  <2>2. CASE call.op = "copy_directory" /\ ~ meddled.now
    BY <1>1, <2>1, <2>2, NestWork, CopyWork DEF CopyInv
  <2>3. CASE ~ (call.op = "copy_directory" /\ ~ meddled.now)
    BY <2>1, <2>3 DEF CopyInv, Nesting, Copying
  <2> QED
    BY <2>2, <2>3
<1>2. CASE Others
  <2>1. meddled'.now
    BY <1>2 DEF Others, OtherOpens, OtherCloses, OtherDeletes, OtherCreates, Meddles
  <2> QED
    BY <2>1 DEF CopyInv, Nesting, Copying, CopyIsExact, Ended
<1>3. ASSUME NEW p \in TreePaths, NEW q \in TreePaths, Script_FS_CopyDir(p, q) PROVE CopyInv'
  <2> DEFINE fr == Frame(p, q)
  <2>1. /\ levels' = <<fr>> /\ before' = fs /\ fs' = fs /\ call'.path = p /\ call'.newPath = q
    BY <1>3 DEF Script_FS_CopyDir, Recursive, Begins
  <2>2. fr.path = p /\ fr.step = "enter"
    BY DEF Frame
  <2> HIDE DEF fr
  <2>3. Len(levels') = 1 /\ levels'[1] = fr /\ levels' # <<>>
    BY <2>1
  <2>4. IsDir(before', call'.path) => NestLevels(fs', levels')
    <3>1. ASSUME IsDir(before', call'.path) PROVE \A x : NestLevel(fs', fr, x)
      BY <2>1, <2>2, <3>1 DEF NestLevel
    <3> QED
      BY <2>3, <3>1 DEF NestLevels
  <2>5. ASSUME Elsewhere(call', before')
        PROVE  /\ Copies(call', fs', before') /\ Fresh(call', before', levels')
               /\ CopyLevels(call', fs', before', levels')
    <3>1. IsDir(fs, p) /\ ~ IsPrefix(p, q)
      BY <2>1, <2>5 DEF Elsewhere
    <3>2. p # <<>>
      BY <1>3, <3>1, PrefixSelf
    <3>3. p \in DOMAIN fs /\ fs[p].dir
      BY <3>1, <3>2 DEF IsDir, Exists
    <3>4. Copies(call', fs, fs)
      BY DEF Copies
    <3>5. \A x : CopyLevel(call', fs, fs, fr, x)
      BY <2>2, <3>3 DEF CopyLevel
    <3>6. Fresh(call', fs, levels')
      BY <2>2, <2>3 DEF Fresh
    <3>7. CopyLevels(call', fs, fs, levels')
      BY <2>3, <3>5 DEF CopyLevels
    <3> QED
      BY <2>1, <3>4, <3>6, <3>7
  <2>6. ~ Idle'
    BY <2>3 DEF Idle
  <2>7. Copying'
    BY <2>5 DEF Copying
  <2> QED
    BY <2>4, <2>6, <2>7 DEF CopyInv, Nesting, CopyIsExact, Ended
<1>4. ASSUME call'.op # "copy_directory" PROVE CopyInv'
  BY <1>4 DEF CopyInv, Nesting, Copying, CopyIsExact, Ended
<1>5. CASE Opcode
  <2>1. ASSUME NEW op, NEW p, NEW q, Begins(op, p, q) PROVE call'.op = op
    BY <2>1 DEF Begins
  <2>2. ASSUME NEW op, NEW p, NEW q, NEW ok, NEW x, Single(op, p, q, ok, x)
        PROVE  call'.op = op
    BY <2>1, <2>2 DEF Single
  <2>3. \/ \E p \in Sources, q \in Targets : Script_FS_CopyDir(p, q)
        \/ call'.op # "copy_directory"
    BY <1>5, <2>1, <2>2 DEF Opcode, Script_FS_DeleteFile, Script_FS_RemoveDirectory,
       Script_FS_MoveFile, Script_FS_MoveDir, Script_FS_CopyFile, Script_FS_DeleteDirectory,
       Recursive
  <2>4. \A p \in Sources : p \in TreePaths
    BY DEF FileSystemAssumption, TreePaths
  <2>5. \A p \in Targets : p \in TreePaths
    BY DEF FileSystemAssumption, TreePaths
  <2> QED
    BY <1>3, <1>4, <2>3, <2>4, <2>5
<1> QED
  BY <1>1, <1>2, <1>5

\* The inductive invariant.
TreesInv == TreesBase /\ DelInv /\ CopyInv

LEMMA TreesStart ==
  ASSUME FileSystemAssumption, TreesInit
  PROVE  TreesInv
<1>1. /\ IsTree(fs) /\ before = fs /\ busy = {} /\ levels = <<>> /\ searches = 0
      /\ call = NoCall /\ reply = TRUE
  BY DEF TreesInit, FileSystemAssumption
<1>2. CallOK(call) /\ call.op = "none"
  BY <1>1, EmptyPath DEF NoCall, CallOK
<1>3. Chain(call, levels) /\ Deepest /\ Counted(levels, reply, searches)
  BY <1>1 DEF Chain, Stack, Deepest, Counted
<1>4. TreesBase
  BY <1>1, <1>2, <1>3 DEF TreesBase, Stands, Opened
<1>5. DelInv /\ CopyInv
  BY <1>2 DEF DelInv, CopyInv, OutsideKept, Deleting, DeleteIsExact, Nesting, Copying,
              CopyIsExact, Ended
<1> QED
  BY <1>4, <1>5 DEF TreesInv

LEMMA TreesStep ==
  ASSUME FileSystemAssumption, TreesInv, [TreesNext]_treeVars
  PROVE  TreesInv'
<1>1. CASE UNCHANGED treeVars
  <2>1. UNCHANGED <<fs, busy, levels, call, before, reply, searches, meddled>>
    BY <1>1 DEF treeVars
  <2>2. TreesBase'
    BY <2>1 DEF TreesInv, TreesBase, Deepest
  <2>3. OutsideKept' /\ Deleting'
    BY <2>1 DEF TreesInv, DelInv, OutsideKept, Deleting, Idle, WasThere
  <2>4. DeleteIsExact'
    BY <2>1 DEF TreesInv, DelInv, DeleteIsExact, Ended, Idle
  <2>5. Nesting' /\ Copying'
    BY <2>1 DEF TreesInv, CopyInv, Nesting, Copying, Idle
  <2>6. CopyIsExact'
    BY <2>1 DEF TreesInv, CopyInv, CopyIsExact, Ended, Idle
  <2> QED
    BY <2>2, <2>3, <2>4, <2>5, <2>6 DEF TreesInv, DelInv, CopyInv
<1>2. CASE TreesNext
  <2>1. Opcode \/ Work \/ Others
    BY <1>2 DEF TreesNext
  <2>2. TreesBase'
    BY <2>1, OpcodeBase, WorkBase, OthersBase DEF TreesInv
  <2> QED
    BY <2>1, <2>2, DelStep, CopyStep DEF TreesInv
<1> QED
  BY <1>1, <1>2

\* FileSystemOperations.cpp, for any names, file systems, arguments and whatever other programs do
\* between the calls of Win32: DeleteDir and CopyDir change nothing outside the directory that is
\* deleted or created, and an opcode that succeeds has closed every search.  If nobody else changes
\* anything meanwhile, DeleteDir removes the whole tree, and fails only when there is none or a file
\* in it is held open; and a CopyDir that succeeds has copied the whole tree, and no other.
THEOREM TreesAreExact == TreesSpec => TreesExact
<1>1. TreesInit => TreesInv
  BY FileSystemAssumed, TreesStart
<1>2. TreesInv /\ [TreesNext]_treeVars => TreesInv'
  BY FileSystemAssumed, TreesStep
<1>3. TreesInv => TreesTyped /\ DeleteIsExact /\ CopyIsExact /\ SearchesClosed
  <2>1. TreesInv => TreesTyped /\ SearchesClosed
    BY DEF TreesInv, TreesBase, Stands, Opened, IsFile, Exists, Counted, TreesTyped,
           SearchesClosed, Idle
  <2> QED
    BY <2>1 DEF TreesInv, DelInv, CopyInv
<1>4. TreesInv /\ [TreesNext]_treeVars
        => [Work => Outside(fs', call.newPath) = Outside(fs, call.newPath)]_treeVars
  BY WorkOutside DEF TreesInv
<1> QED
  BY <1>1, <1>2, <1>3, <1>4, PTL DEF TreesSpec, TreesExact
==============================================================================
