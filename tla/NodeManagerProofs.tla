-------------------------- MODULE NodeManagerProofs --------------------------
(***************************************************************************)
(* What the manager leaves in the core, for every panel.                   *)
(*                                                                         *)
(* Inv is the inductive invariant.  Typed and Known are about the          *)
(* controller; Left says which calls the present method may still have to  *)
(* make; Ours that outbounds and rules are this tag's or a relay's, a      *)
(* relay's rule with its outbound; Inbound and BlackholeInv how inbound,   *)
(* outbound and rule come and go together, by the place in the method.     *)
(* Types and NoDangling follow from it.  First adds the order of the rules *)
(* (BlocksApply), Inventory which relays are there (Clean), and Exits that *)
(* AddTag's calls are those its record asks for (OwnExit).                 *)
(*                                                                         *)
(* RelayAgrees, at the end, compares what two builders make of one record: *)
(* what their parsers have in common first, then port, transport and       *)
(* security one by one.                                                    *)
(***************************************************************************)
EXTENDS NodeManager, FiniteSetTheorems, SequenceTheorems, WellFoundedInduction, TLAPS

-----------------------------------------------------------------------------
(* FlattenSeq: what holds of every part, and is kept by joining, holds of the whole.*)

\* A set of numbers has a least one, by the order on the naturals being well-founded.
LEMMA Least ==
    ASSUME NEW T \in SUBSET Nat, T # {}
    PROVE  \E x \in T : \A y \in T : x <= y
<1>1. PICK n \in T : TRUE
  OBVIOUS
<1> DEFINE Up == {0..m : m \in {m \in T : m <= n}}
<1>2. Up \subseteq FiniteSubsetsOf(0..n) /\ 0..n \in Up
  <2>1. \A m \in T : m <= n => 0..m \subseteq 0..n
    OBVIOUS
  <2>2. \A m \in T : IsFiniteSet(0..m)
    BY FS_Interval
  <2> QED
    BY <1>1, <2>1, <2>2 DEF FiniteSubsetsOf
<1>3. PICK x \in Up : \A y \in Up : <<y, x>> \notin StrictSubsetOrdering(0..n)
  <2> HIDE DEF Up
  <2> QED
    BY <1>2, FS_StrictSubsetOrderingWellFounded, WFMin
<1>4. PICK k \in T : k <= n /\ x = 0..k
  OBVIOUS
<1>5. ASSUME NEW m \in T, m < k PROVE FALSE
  <2>1. 0..m \in Up
    BY <1>4, <1>5
  <2>2. <<0..m, x>> \in StrictSubsetOrdering(0..n)
    BY <1>4, <1>5 DEF StrictSubsetOrdering
  <2> QED
    BY <1>3, <2>1, <2>2
<1> QED
  BY <1>5

\* A set of numbers with zero and every successor has them all.
LEMMA Induction ==
    ASSUME NEW S, 0 \in S, \A n \in Nat : n \in S => n + 1 \in S
    PROVE  Nat \subseteq S
<1> SUFFICES ASSUME Nat \ S # {} PROVE FALSE
  OBVIOUS
<1>1. PICK x \in Nat \ S : \A y \in Nat \ S : x <= y
  BY Least
<1>2. x # 0 /\ x - 1 \in Nat
  OBVIOUS
<1>3. x - 1 \in S
  BY <1>1, <1>2
<1>4. (x - 1) + 1 \in S
  BY <1>2, <1>3
<1> QED
  BY <1>4

\* What FlattenSeq computes, as an equation.
Joins(f, parts) ==
    f = [i \in 1..Len(parts) |-> IF i = 1 THEN parts[i] ELSE f[i - 1] \o parts[i]]

\* The same of the first n parts.
JoinsUpTo(f, parts, X, n) ==
    /\ f \in [1..n -> Seq(X)]
    /\ \A i \in 1..n : f[i] = IF i = 1 THEN parts[i] ELSE f[i - 1] \o parts[i]

\* A partial join of the parts reaches one part further.
LEMMA OneMore ==
    ASSUME NEW X, NEW parts \in Seq(Seq(X)), NEW n \in Nat \ {0}, n < Len(parts),
           NEW f, JoinsUpTo(f, parts, X, n)
    PROVE  \E g : JoinsUpTo(g, parts, X, n + 1)
<1> DEFINE g == [i \in 1..n + 1 |-> IF i = n + 1 THEN f[n] \o parts[n + 1] ELSE f[i]]
<1>1. f[n] \in Seq(X) /\ parts[n + 1] \in Seq(X) /\ f \in [1..n -> Seq(X)]
  BY DEF JoinsUpTo
<1>2. f[n] \o parts[n + 1] \in Seq(X)
  BY <1>1
<1>3. g \in [1..n + 1 -> Seq(X)]
  BY <1>1, <1>2
<1>4. ASSUME NEW i \in 1..n + 1
      PROVE  g[i] = IF i = 1 THEN parts[i] ELSE g[i - 1] \o parts[i]
  <2>1. CASE i = n + 1
    <3>1. i # 1 /\ i - 1 = n /\ n \in 1..n + 1 /\ n # n + 1
      BY <2>1
    <3>2. g[n] = f[n] /\ g[i] = f[n] \o parts[n + 1]
      BY <2>1, <3>1
    <3> HIDE DEF g
    <3> QED
      BY <2>1, <3>1, <3>2
  <2>2. CASE i # n + 1
    <3>1. i \in 1..n /\ (i # 1 => i - 1 \in 1..n)
      BY <2>2
    <3>2. g[i] = f[i] /\ (i # 1 => g[i - 1] = f[i - 1])
      BY <2>2, <3>1
    <3> QED
      BY <3>1, <3>2 DEF JoinsUpTo
  <2> QED
    BY <2>1, <2>2
<1> QED
  BY <1>3, <1>4 DEF JoinsUpTo

\* So there is a join of all of them.
LEMMA JoinsExists ==
    ASSUME NEW X, NEW parts \in Seq(Seq(X)), parts # <<>>
    PROVE  \E f : Joins(f, parts)
<1> DEFINE S == {n \in Nat : n < Len(parts) => \E f : JoinsUpTo(f, parts, X, n + 1)}
<1>1. Len(parts) \in Nat \ {0} /\ \A i \in 1..Len(parts) : parts[i] \in Seq(X)
  OBVIOUS
<1>2. 0 \in S
  <2>1. JoinsUpTo([i \in 1..0 + 1 |-> parts[1]], parts, X, 0 + 1)
    BY <1>1 DEF JoinsUpTo
  <2> QED
    BY <2>1
<1>3. ASSUME NEW n \in Nat, n \in S PROVE n + 1 \in S
  <2> SUFFICES ASSUME n + 1 < Len(parts) PROVE \E f : JoinsUpTo(f, parts, X, (n + 1) + 1)
    BY <1>1
  <2>1. PICK f : JoinsUpTo(f, parts, X, n + 1)
    BY <1>1, <1>3
  <2> QED
    BY <2>1, OneMore
<1>4. Nat \subseteq S
  <2> HIDE DEF S
  <2> QED
    BY <1>2, <1>3, Induction
<1>5. Len(parts) - 1 \in S
  <2> HIDE DEF S
  <2> QED
    BY <1>1, <1>4
<1>6. PICK f : JoinsUpTo(f, parts, X, (Len(parts) - 1) + 1)
  BY <1>1, <1>5
<1>7. JoinsUpTo(f, parts, X, Len(parts))
  BY <1>1, <1>6
<1> QED
  BY <1>7 DEF Joins, JoinsUpTo

\* The last of them is the flattened sequence.
LEMMA Flattened ==
    ASSUME NEW X, NEW parts \in Seq(Seq(X)), parts # <<>>
    PROVE  \E f : Joins(f, parts) /\ FlattenSeq(parts) = f[Len(parts)]
<1>1. Len(parts) # 0
  OBVIOUS
<1>2. FlattenSeq(parts) = (CHOOSE f : Joins(f, parts))[Len(parts)]
  BY <1>1 DEF FlattenSeq, Joins
<1> QED
  BY <1>2, JoinsExists

\* A set of sequences that is closed under concatenation has the flattened
\* sequence too, if it has the parts.
LEMMA FlattenIn ==
    ASSUME NEW X, NEW G \in SUBSET Seq(X), <<>> \in G,
           \A a, b \in G : a \o b \in G,
           NEW parts \in Seq(G)
    PROVE  FlattenSeq(parts) \in G
<1>1. CASE parts = <<>>
  BY <1>1 DEF FlattenSeq
<1>2. CASE parts # <<>>
  <2>1. parts \in Seq(Seq(X))
    OBVIOUS
  <2>2. PICK f : Joins(f, parts) /\ FlattenSeq(parts) = f[Len(parts)]
    BY <1>2, <2>1, Flattened
  <2> DEFINE S == {n \in Nat : n < Len(parts) => f[n + 1] \in G}
  <2>3. Len(parts) \in Nat \ {0} /\ \A i \in 1..Len(parts) : parts[i] \in G
    BY <1>2
  <2>4. \A i \in 1..Len(parts) : f[i] = IF i = 1 THEN parts[i] ELSE f[i - 1] \o parts[i]
    BY <2>2 DEF Joins
  <2>5. 0 \in S
    <3>1. 1 \in 1..Len(parts) /\ f[1] = parts[1]
      BY <2>3, <2>4
    <3> QED
      BY <2>3, <3>1
  <2>6. ASSUME NEW n \in Nat, n \in S PROVE n + 1 \in S
    <3> SUFFICES ASSUME n + 1 < Len(parts) PROVE f[(n + 1) + 1] \in G
      BY <2>3
    <3>1. (n + 1) + 1 \in 1..Len(parts) /\ (n + 1) + 1 # 1 /\ ((n + 1) + 1) - 1 = n + 1
      BY <2>3
    <3>2. f[(n + 1) + 1] = f[n + 1] \o parts[(n + 1) + 1]
      BY <2>4, <3>1
    <3>3. f[n + 1] \in G
      BY <2>3, <2>6
    <3> QED
      BY <2>3, <3>1, <3>2, <3>3
  <2>7. Nat \subseteq S
    <3> HIDE DEF S
    <3> QED
      BY <2>5, <2>6, Induction
  <2>8. Len(parts) - 1 \in Nat /\ Len(parts) - 1 < Len(parts) /\ (Len(parts) - 1) + 1 = Len(parts)
    BY <2>3
  <2>9. Len(parts) - 1 \in S
    <3> HIDE DEF S
    <3> QED
      BY <2>7, <2>8
  <2> QED
    BY <2>2, <2>8, <2>9
<1> QED
  BY <1>1, <1>2

-----------------------------------------------------------------------------
(* The orders in which Start, apiMonitor and Close call the manager's methods.*)

After ==
    [start   |-> [transit |-> "blackhole", blackhole |-> "inbound", inbound |-> "end",
                  end |-> "none"],
     rebuild |-> [unrelay |-> "unblock", unblock |-> "remove", remove |-> "adopt",
                  adopt |-> "transit", transit |-> "inbound", inbound |-> "blackhole",
                  blackhole |-> "end", end |-> "none"],
     keep    |-> [unrelay |-> "adopt", adopt |-> "transit", transit |-> "end",
                  end |-> "none"],
     close   |-> [unblock |-> "remove", remove |-> "unrelay", unrelay |-> "off",
                  off |-> "none"]]

PlaceOf(s) == IF s = <<>> THEN "none" ELSE Head(s)

LastOf(m, k) == SubSeq(Order[m], k + 1, Len(Order[m]))
Suffix(m, s) == \E k \in 0..Len(Order[m]) : s = LastOf(m, k)

\* How long the order of every mode is.
LEMMA OrderLengths ==
    ASSUME NEW m \in DOMAIN Order
    PROVE  /\ m \in {"start", "rebuild", "keep", "close"}
           /\ \E S : Order[m] \in Seq(S)
           /\ Len(Order[m]) = IF m = "rebuild" THEN 8 ELSE 4
<1>1. m \in {"start", "rebuild", "keep", "close"}
  BY DEF Order
<1>2. CASE m = "start"
  <2>1. Order[m] = <<"transit", "blackhole", "inbound", "end">>
    BY <1>2 DEF Order
  <2>2. Order[m] \in Seq({"transit", "blackhole", "inbound", "end"})
    BY <2>1
  <2>3. Len(Order[m]) = 4
    BY <2>1
  <2> QED
    BY <1>2, <2>2, <2>3
<1>3. CASE m = "rebuild"
  <2>1. Order[m] = <<"unrelay", "unblock", "remove", "adopt",
                     "transit", "inbound", "blackhole", "end">>
    BY <1>3 DEF Order
  <2>2. Order[m] \in Seq({"unrelay", "unblock", "remove", "adopt",
                         "transit", "inbound", "blackhole", "end"})
    BY <2>1
  <2>3. Len(Order[m]) = 8
    BY <2>1
  <2> QED
    BY <1>3, <2>2, <2>3
<1>4. CASE m = "keep"
  <2>1. Order[m] = <<"unrelay", "adopt", "transit", "end">>
    BY <1>4 DEF Order
  <2>2. Order[m] \in Seq({"unrelay", "adopt", "transit", "end"})
    BY <2>1
  <2>3. Len(Order[m]) = 4
    BY <2>1
  <2> QED
    BY <1>4, <2>2, <2>3
<1>5. CASE m = "close"
  <2>1. Order[m] = <<"unblock", "remove", "unrelay", "off">>
    BY <1>5 DEF Order
  <2>2. Order[m] \in Seq({"unblock", "remove", "unrelay", "off"})
    BY <2>1
  <2>3. Len(Order[m]) = 4
    BY <2>1
  <2> QED
    BY <1>5, <2>2, <2>3
<1> QED
  BY <1>1, <1>2, <1>3, <1>4, <1>5

\* What is left of a sequence after its first elements.
LEMMA EndsOf ==
    ASSUME NEW S, NEW o \in Seq(S), NEW n, n = Len(o), NEW k \in 0..n
    PROVE  LET s == SubSeq(o, k + 1, n)
           IN  /\ k = 0 => s = o
               /\ s = <<>> <=> k = n
               /\ k # n => Tail(s) = SubSeq(o, (k + 1) + 1, n) /\ Head(s) = o[k + 1]
<1>1. n \in Nat
  OBVIOUS
<1>2. SubSeq(o, 0 + 1, n) = o
  BY SubSeqFull
<1>3. SubSeq(o, n + 1, n) = <<>>
  BY <1>1, SubSeqEmpty
<1>4. ASSUME k # n
      PROVE  /\ SubSeq(o, k + 1, n) # <<>>
             /\ Tail(SubSeq(o, k + 1, n)) = SubSeq(o, (k + 1) + 1, n)
             /\ Head(SubSeq(o, k + 1, n)) = o[k + 1]
  <2>1. k + 1 \in 1..Len(o) /\ n \in k + 1..Len(o)
    BY <1>1, <1>4
  <2>2. SubSeq(o, k + 1, n) # <<>>
    <3>1. Len(SubSeq(o, k + 1, n)) = n - (k + 1) + 1
      BY <1>1, <1>4, SubSeqProperties
    <3>2. Len(SubSeq(o, k + 1, n)) # 0
      BY <1>1, <1>4, <3>1
    <3>3. \A x : Len(x) # 0 => x # <<>>
      OBVIOUS
    <3> QED
      BY <3>2, <3>3, Zenon
  <2> QED
    BY <2>1, <2>2, HeadTailOfSubSeq
<1> QED
  BY <1>2, <1>3, <1>4

\* The same of the order of a mode: its head and its tail.
LEMMA OrderEnds ==
    ASSUME NEW m \in DOMAIN Order, NEW k \in 0..Len(Order[m])
    PROVE  /\ k = 0 => LastOf(m, k) = Order[m]
           /\ LastOf(m, k) = <<>> <=> k = Len(Order[m])
           /\ k # Len(Order[m]) => /\ Tail(LastOf(m, k)) = LastOf(m, k + 1)
                                   /\ Head(LastOf(m, k)) = Order[m][k + 1]
  BY OrderLengths, EndsOf DEF LastOf

\* Nothing and all of an order are ends of it.
LEMMA Suffixed ==
    ASSUME NEW m \in DOMAIN Order
    PROVE  Suffix(m, <<>>) /\ Suffix(m, Order[m])
<1>1. 0 \in 0..Len(Order[m]) /\ Len(Order[m]) \in 0..Len(Order[m])
  BY OrderLengths
<1> QED
  BY <1>1, OrderEnds, Zenon DEF Suffix

\* After says what follows each method of an order.
LEMMA AfterOrder ==
    ASSUME NEW m \in DOMAIN Order, NEW k \in 1..Len(Order[m])
    PROVE  /\ Order[m][k] \in DOMAIN After[m]
           /\ After[m][Order[m][k]] = IF k = Len(Order[m]) THEN "none" ELSE Order[m][k + 1]
<1>1. m \in {"start", "rebuild", "keep", "close"}
  BY OrderLengths
<1>2. CASE m = "start"
  <2>0. Len(Order[m]) = 4
    BY <1>2, OrderLengths
  <2>1. k \in {1, 2, 3, 4} /\ Len(Order[m]) = 4
    BY <2>0
  <2>2. /\ Order[m] = <<"transit", "blackhole", "inbound", "end">>
        /\ After[m] = [transit |-> "blackhole", blackhole |-> "inbound", inbound |-> "end",
                       end |-> "none"]
    BY <1>2 DEF Order, After
  <2> QED
    BY <2>1, <2>2
<1>3. CASE m = "rebuild"
  <2>0. Len(Order[m]) = 8
    BY <1>3, OrderLengths
  <2>1. k \in {1, 2, 3, 4, 5, 6, 7, 8} /\ Len(Order[m]) = 8
    BY <2>0
  <2>2. /\ Order[m] = <<"unrelay", "unblock", "remove", "adopt",
                        "transit", "inbound", "blackhole", "end">>
        /\ After[m] = [unrelay |-> "unblock", unblock |-> "remove", remove |-> "adopt",
                       adopt |-> "transit", transit |-> "inbound", inbound |-> "blackhole",
                       blackhole |-> "end", end |-> "none"]
    BY <1>3 DEF Order, After
  <2> QED
    BY <2>1, <2>2
<1>4. CASE m = "keep"
  <2>0. Len(Order[m]) = 4
    BY <1>4, OrderLengths
  <2>1. k \in {1, 2, 3, 4} /\ Len(Order[m]) = 4
    BY <2>0
  <2>2. /\ Order[m] = <<"unrelay", "adopt", "transit", "end">>
        /\ After[m] = [unrelay |-> "adopt", adopt |-> "transit", transit |-> "end",
                       end |-> "none"]
    BY <1>4 DEF Order, After
  <2> QED
    BY <2>1, <2>2
<1>5. CASE m = "close"
  <2>0. Len(Order[m]) = 4
    BY <1>5, OrderLengths
  <2>1. k \in {1, 2, 3, 4} /\ Len(Order[m]) = 4
    BY <2>0
  <2>2. /\ Order[m] = <<"unblock", "remove", "unrelay", "off">>
        /\ After[m] = [unblock |-> "remove", remove |-> "unrelay", unrelay |-> "off",
                       off |-> "none"]
    BY <1>5 DEF Order, After
  <2> QED
    BY <2>1, <2>2
<1> QED
  BY <1>1, <1>2, <1>3, <1>4, <1>5

\* Leaving a method leads to the one that After names.
LEMMA Succession ==
    ASSUME NEW m \in DOMAIN Order, NEW s, Suffix(m, s), s # <<>>
    PROVE  /\ Suffix(m, Tail(s))
           /\ Head(s) \in DOMAIN After[m]
           /\ PlaceOf(Tail(s)) = After[m][Head(s)]
<1>1. PICK k \in 0..Len(Order[m]) : s = LastOf(m, k)
  BY DEF Suffix
<1> DEFINE n == Len(Order[m])
<1>2. n \in Nat
  BY OrderLengths
<1> HIDE DEF n
<1>3. k \in 0..n /\ k # n
  BY <1>1, OrderEnds DEF n
<1>4. k + 1 \in 1..n /\ k + 1 \in 0..n
  BY <1>2, <1>3
<1>5. Tail(s) = LastOf(m, k + 1) /\ Head(s) = Order[m][k + 1]
  BY <1>1, <1>3, OrderEnds DEF n
<1>6. Suffix(m, Tail(s))
  BY <1>4, <1>5, Zenon DEF Suffix, n
<1>7. PlaceOf(Tail(s)) = IF k + 1 = n THEN "none" ELSE Order[m][(k + 1) + 1]
  BY <1>4, <1>5, OrderEnds, Zenon DEF n, PlaceOf
<1> QED
  BY <1>4, <1>5, <1>6, <1>7, AfterOrder DEF n

-----------------------------------------------------------------------------
(* The invariant.                                                           *)

\* The method the execution is in, or comes to next.
Place == PlaceOf(steps)
Busy == todo # <<>>
In(modes, places) == mode \in modes /\ Place \in places

TheCall(op, arg) == [op |-> op, arg |-> arg]
Return == TheCall("return", NoTag)
DefaultTag == [of |-> tag, part |-> "default"]

One(S) == \A x, y \in S : x = y
Sequence(s) == \E S : s \in Seq(S)

Typed ==
    /\ panel \in [server : Servers, list : Lists]
    /\ seen \in [server : Servers, list : Lists]
    /\ subs \in Lists \cup {<<>>} /\ new.list \in Lists \cup {<<>>}
    /\ status \in {"off", "up", "panic"}
    /\ mode \in DOMAIN Order /\ Suffix(mode, steps)
    /\ status # "up" => steps = <<>>
    /\ past \subseteq {"rebuilt", "aborted"}
    /\ relayOn \in BOOLEAN /\ (relayOn => rtag.relay = TRUE)
    /\ first \in outbounds \cup {CoreDefault, Nowhere}

\* The record the controller has, and the one it is about to have.
Known ==
    /\ One(info) /\ One(new.info)
    /\ tag.relay = FALSE
    /\ \A n \in info : tag = buildNodeTag(n)
    /\ \/ In({"keep"}, {"unrelay", "adopt"})
       \/ In({"start", "keep", "rebuild"}, {"transit", "inbound", "blackhole", "end"})
       => new.info = info

Unblock1 == <<Return>>
Unblock2 == <<TheCall("delOutbound", Blackhole(tag)), Return>>
Unblock3 == <<TheCall("delRule", Blackhole(tag)), TheCall("delOutbound", Blackhole(tag)), Return>>

Remove1 == <<Return>>
Remove2 == <<TheCall("delRule", DefaultTag), Return>>
Remove3 == <<TheCall("delOutbound", Own(tag)), TheCall("delRule", DefaultTag), Return>>
Remove4 == <<TheCall("delInbound", tag), TheCall("delOutbound", Own(tag)),
             TheCall("delRule", DefaultTag), Return>>

AddsInbound == TheCall("addInbound", tag)
AddsOwn == {TheCall("addOutbound", Own(tag)), TheCall("refused", tag)}
AddsDefault == TheCall("addRule", DefaultRouterBuilder(tag))

\* What AddTag has still to do, and what AddBlackHoleRuleTag.
Listening ==
    \/ todo = <<Return>>
    \/ todo = <<AddsDefault, Return>> /\ Own(tag) \in outbounds
    \/ \E c \in AddsOwn :
          \/ todo = <<c, AddsDefault, Return>>
          \/ todo = <<AddsInbound, c, AddsDefault, Return>>
          \/ /\ \A n \in info : ~Direct(n)
             /\ todo = <<c, Return>> \/ todo = <<AddsInbound, c, Return>>

\* A rule that blocks what the panel wants blocked, and all there is if
\* the port text has blank segments only.
BlockRule(r) ==
    /\ r.tag = Blackhole(tag) /\ r.dest = Blackhole(tag)
    /\ r.inbound = tag /\ r.users = {} /\ "blocked" \in r.matches
    /\ \A n \in info :
          "plain" \in r.matches => n.rules.port # <<>> /\ Segments(n.rules.port) = {}

ToBlock == \E n \in info : HasBlockingRules(n.rules)

AddsBlackhole == TheCall("addOutbound", Blackhole(tag))
Refuses == TheCall("refused", tag)

Blocking ==
    \/ todo = <<Return>> /\ (ToBlock => Blackhole(tag) \in Rules)
    \/ todo = <<AddsBlackhole, Return>> /\ ~ToBlock
    \/ todo = <<Refuses, Return>>
    \/ todo = <<AddsBlackhole, Refuses, Return>>
    \/ \E r : /\ BlockRule(r)
              /\ \/ todo = <<TheCall("addRule", r), Return>> /\ Blackhole(tag) \in outbounds
                 \/ todo = <<AddsBlackhole, TheCall("addRule", r), Return>>

\* A call that removes something of a relay, or adds it.
Unrelays(c) ==
    \/ c.op \in {"delRule", "delOutbound"} /\ c.arg.of = rtag /\ rtag.relay = TRUE
    \/ c.op = "relay" /\ c.arg = FALSE

AddsRelay(c) ==
    /\ rtag.relay = TRUE
    /\ \/ c.op = "relay" /\ c.arg = TRUE
       \/ \E k \in DOMAIN new.list :
             \/ c = TheCall("addOutbound", RelayOf(rtag, new.list[k]))
             \/ c = TheCall("addRule", RelayRouterBuilder(tag, rtag, new.list[k]))

\* Rules go before the outbounds they lead to and come after them.
Unrelaying ==
    /\ Sequence(todo) /\ todo[Len(todo)] = Return
    /\ \A i \in 1..Len(todo) - 1 : Unrelays(todo[i])
    /\ \A i \in DOMAIN todo : todo[i].op = "delOutbound" /\ todo[i].arg \in Rules =>
          \E j \in 1..i - 1 : todo[j] = TheCall("delRule", todo[i].arg)

Relaying ==
    /\ Sequence(todo) /\ todo[Len(todo)] = Return
    /\ \A i \in 1..Len(todo) - 1 : AddsRelay(todo[i])
    /\ \A i \in DOMAIN todo : todo[i].op = "addRule" =>
          \/ todo[i].arg.dest \in outbounds
          \/ \E j \in 1..i - 1 : todo[j] = TheCall("addOutbound", todo[i].arg.dest)

\* What is left of the present method.
Left ==
    Busy =>
      /\ Place \in {"unrelay", "unblock", "remove", "transit", "inbound", "blackhole"}
      /\ Place = "unblock" => todo \in {Unblock1, Unblock2, Unblock3}
      /\ Place = "remove" => todo \in {Remove1, Remove2, Remove3, Remove4}
      /\ Place = "inbound" => Listening
      /\ Place = "blackhole" => Blocking
      /\ Place = "unrelay" => Unrelaying
      /\ Place = "transit" => Relaying

\* Outbounds and rules are those of the present tag, or of relays.
RelayRule(r) ==
    /\ r.tag.of.relay = TRUE /\ r.dest = r.tag
    /\ r.users # {} /\ \A u \in r.users : "id" \in DOMAIN u

KnownRule(r) ==
    \/ r = DefaultRouterBuilder(tag)
    \/ BlockRule(r)
    \/ RelayRule(r)

Ours ==
    /\ Sequence(rules) /\ IsInjective([k \in DOMAIN rules |-> rules[k].tag])
    /\ \A o \in outbounds : o \in {Own(tag), Blackhole(tag)} \/ o.of.relay = TRUE
    /\ \A k \in DOMAIN rules : KnownRule(rules[k])
    /\ \A k \in DOMAIN rules : RelayRule(rules[k]) => rules[k].tag \in outbounds

\* The inbound, its outbound and its default rule come and go together.
NotListening ==
    \/ status = "off"
    \/ In({"start"}, {"transit", "blackhole"})
    \/ In({"rebuild"}, {"adopt", "transit"})
    \/ In({"close"}, {"unrelay", "off"})
    \/ Place = "remove" /\ todo \in {Remove1, Remove2, Remove3}

ToDirect == \E n \in info : Direct(n)

Inbound ==
    /\ inbounds \subseteq {tag}
    /\ NotListening => inbounds = {}
    /\ Place = "inbound" /\ Busy /\ Head(todo).op # "addInbound" => inbounds = {tag}
    /\ Own(tag) \in outbounds =>
          inbounds = {tag} \/ (Place = "remove" /\ todo = Remove3)
    /\ DefaultTag \in Rules =>
          /\ inbounds = {tag} \/ (Place = "remove" /\ todo \in {Remove2, Remove3})
          /\ Own(tag) \in outbounds \/ (Place = "remove" /\ todo = Remove2)
    /\ Own(tag) \in outbounds /\ ToDirect =>
          DefaultTag \in Rules \/ (Place = "inbound" /\ todo = <<AddsDefault, Return>>)

\* So do the blackhole and the rule to it.
NotBlocking ==
    \/ status = "off"
    \/ In({"start"}, {"transit"})
    \/ In({"rebuild"}, {"remove", "adopt", "transit", "inbound"})
    \/ In({"close"}, {"remove", "unrelay", "off"})

BlackholeInv ==
    /\ NotBlocking => Blackhole(tag) \notin outbounds
    /\ Blackhole(tag) \in Rules => Blackhole(tag) \in outbounds
    /\ Place = "unblock" /\ Busy /\ todo # Unblock3 => Blackhole(tag) \notin Rules
    /\ Place = "unblock" /\ todo = Unblock1 => Blackhole(tag) \notin outbounds

Inv == Typed /\ Known /\ Left /\ Ours /\ Inbound /\ BlackholeInv

\* A list of one call.
LEMMA OneCall ==
    ASSUME NEW op, NEW arg
    PROVE  Call(op, arg) = <<TheCall(op, arg)>>
  BY DEF Call, Calls, TheCall

\* A short sequence is the tuple of its elements.
LEMMA Tuples ==
    ASSUME NEW S, NEW s \in Seq(S)
    PROVE  /\ Len(s) = 1 => s = <<s[1]>>
           /\ Len(s) = 2 => s = <<s[1], s[2]>>
           /\ Len(s) = 3 => s = <<s[1], s[2], s[3]>>
           /\ Len(s) = 4 => s = <<s[1], s[2], s[3], s[4]>>
  OBVIOUS

\* What short tuples make when they are joined.
LEMMA Concats ==
    ASSUME NEW a, NEW b, NEW c, NEW d
    PROVE  /\ <<a>> \o <<b>> = <<a, b>> /\ <<a, b>> \o <<c>> = <<a, b, c>>
           /\ <<a>> \o <<>> = <<a>> /\ <<a, b>> \o <<>> = <<a, b>>
           /\ Append(<<>>, a) = <<a>>
           /\ Append(<<a>>, b) = <<a, b>> /\ Append(<<a, b>>, c) = <<a, b, c>>
           /\ Append(<<a, b, c>>, d) = <<a, b, c, d>>
<1> DEFINE S == {a, b, c, d}
<1>1. /\ <<>> \in Seq(S) /\ <<a>> \in Seq(S) /\ <<b>> \in Seq(S) /\ <<c>> \in Seq(S) /\ <<d>> \in Seq(S)
      /\ <<a, b>> \in Seq(S) /\ <<a, b, c>> \in Seq(S)
  OBVIOUS
<1>2. b \in S /\ c \in S /\ d \in S /\ a \in S
  OBVIOUS
<1> HIDE DEF S
<1>3. ASSUME NEW s \in Seq(S), NEW e \in S, NEW r, r = s \o <<e>>
      PROVE  /\ r \in Seq(S) /\ Len(r) = Len(s) + 1 /\ Append(s, e) = r
             /\ \A i \in 1..Len(s) : r[i] = s[i]
             /\ r[Len(s) + 1] = e
  BY <1>3, AppendIsConcat, AppendProperties
<1>4. <<a>> \o <<b>> = <<a, b>> /\ Append(<<a>>, b) = <<a, b>>
  <2> DEFINE r == <<a>> \o <<b>>
  <2>1. r \in Seq(S) /\ Len(r) = 2 /\ r[1] = a /\ r[2] = b /\ Append(<<a>>, b) = r
    BY <1>1, <1>2, <1>3
  <2> HIDE DEF r
  <2>2. r = <<a, b>>
    BY <2>1, Tuples
  <2> QED
    BY <2>1, <2>2 DEF r
<1>5. <<a, b>> \o <<c>> = <<a, b, c>> /\ Append(<<a, b>>, c) = <<a, b, c>>
  <2> DEFINE r == <<a, b>> \o <<c>>
  <2>1. r \in Seq(S) /\ Len(r) = 3 /\ r[1] = a /\ r[2] = b /\ r[3] = c /\ Append(<<a, b>>, c) = r
    BY <1>1, <1>2, <1>3
  <2> HIDE DEF r
  <2>2. r = <<a, b, c>>
    BY <2>1, Tuples
  <2> QED
    BY <2>1, <2>2 DEF r
<1>6. Append(<<a, b, c>>, d) = <<a, b, c, d>>
  <2> DEFINE r == <<a, b, c>> \o <<d>>
  <2>1. /\ r \in Seq(S) /\ Len(r) = 4 /\ r[1] = a /\ r[2] = b /\ r[3] = c /\ r[4] = d
        /\ Append(<<a, b, c>>, d) = r
    BY <1>1, <1>2, <1>3
  <2> HIDE DEF r
  <2>2. r = <<a, b, c, d>>
    BY <2>1, Tuples
  <2> QED
    BY <2>1, <2>2 DEF r
<1>7. <<a>> \o <<>> = <<a>> /\ <<a, b>> \o <<>> = <<a, b>>
  BY <1>1, ConcatEmptySeq
<1>8. Append(<<>>, a) = <<a>>
  OBVIOUS
<1> QED
  BY <1>4, <1>5, <1>6, <1>7, <1>8

\* The calls of the methods that make a fixed number of them.
LEMMA Todos ==
    ASSUME NEW a, NEW b, NEW c, NEW d
    PROVE  /\ Append(<<a>> \o <<b>> \o <<c>>, d) = <<a, b, c, d>>
           /\ Append(<<a>> \o <<b>> \o <<>>, d) = <<a, b, d>>
           /\ Append(<<a>> \o <<b>>, d) = <<a, b, d>>
           /\ Append(<<a>> \o <<>>, d) = <<a, d>>
<1>1. /\ <<a>> \o <<b>> = <<a, b>> /\ <<a, b>> \o <<c>> = <<a, b, c>>
      /\ <<a>> \o <<>> = <<a>> /\ <<a, b>> \o <<>> = <<a, b>>
      /\ Append(<<a, b, c>>, d) = <<a, b, c, d>>
  BY Concats
<1>2. Append(<<a>>, d) = <<a, d>>
  BY Concats
<1>3. Append(<<a, b>>, d) = <<a, b, d>>
  BY Concats
<1> QED
  BY <1>1, <1>2, <1>3, Zenon

\* Nothing of the inbound is half removed or half added.
Settled ==
    /\ Own(tag) \in outbounds => inbounds = {tag}
    /\ DefaultTag \in Rules => inbounds = {tag} /\ Own(tag) \in outbounds
    /\ Own(tag) \in outbounds /\ ToDirect => DefaultTag \in Rules

\* Between the calls of two methods nothing is half done.
LEMMA IdleSettled ==
    ASSUME Inbound, ~Busy
    PROVE  Settled
<1>1. todo = <<>>
  BY DEF Busy
<1>2. todo # Remove2 /\ todo # Remove3 /\ todo # <<AddsDefault, Return>>
  BY <1>1 DEF Remove2, Remove3
<1> QED
  BY <1>1, <1>2, Zenon DEF Inbound, Settled

\* The method the execution is in, and the one it comes to next.
LEMMA NextPlace ==
    ASSUME Typed, steps # <<>>
    PROVE  /\ Place = Head(steps)
           /\ Suffix(mode, Tail(steps))
           /\ Place \in DOMAIN After[mode]
           /\ PlaceOf(Tail(steps)) = After[mode][Place]
  BY Succession, Zenon DEF Typed, Place, PlaceOf

\* Nothing is added by a step that leaves core, record and tag alone.
LEMMA OursStays ==
    ASSUME Ours, UNCHANGED <<info, tag, core>>
    PROVE  Ours'
  BY DEF Ours, core, KnownRule, BlockRule, RelayRule

\* What such a step leaves alone besides.
LEMMA SameTags ==
    ASSUME UNCHANGED <<info, tag, core>>
    PROVE  /\ Rules' = Rules /\ DefaultTag' = DefaultTag
           /\ ToDirect' = ToDirect /\ ToBlock' = ToBlock
           /\ rules' = rules /\ outbounds' = outbounds /\ inbounds' = inbounds
  BY DEF core, Rules, DefaultTag, ToDirect, ToBlock

\* The execution leaves a method, or begins, or ends: no call is due.
LEMMA Between ==
    ASSUME Inv, Settled, Typed', Known', todo' = <<>>, UNCHANGED <<info, tag, core>>,
           NotListening' => inbounds = {},
           NotBlocking' => Blackhole(tag) \notin outbounds
    PROVE  Inv'
<1>1. ~Busy'
  BY DEF Busy
<1>2. Left'
  BY <1>1 DEF Left
<1>3. Ours'
  BY OursStays DEF Inv
<1>4. Inbound'
  BY <1>1, SameTags DEF Inv, Inbound, Settled
<1>5. todo' # Unblock1'
  BY DEF Unblock1
<1>6. BlackholeInv'
  BY <1>1, <1>5, SameTags DEF Inv, BlackholeInv
<1> QED
  BY <1>2, <1>3, <1>4, <1>6 DEF Inv

\* A method has worked out its calls.
LEMMA Makings ==
    ASSUME Inv, ~Busy, Typed', Known', Left', Busy',
           UNCHANGED <<info, tag, core, status, mode, steps>>,
           Place = "unblock" => todo' = Unblock3,
           Place = "remove" => todo' = Remove4,
           Place = "inbound" => Head(todo').op = "addInbound"
    PROVE  Inv'
<1>1. Settled
  BY IdleSettled DEF Inv
<1>2. Place' = Place
  BY DEF Place
<1>3. Ours'
  BY OursStays DEF Inv
<1>4. UNCHANGED <<Remove1, Remove2, Remove3, Unblock1, Unblock3>>
  BY SameTags DEF Remove1, Remove2, Remove3, Unblock1, Unblock3
<1>5. Remove4 \notin {Remove1, Remove2, Remove3}
  BY DEF Remove1, Remove2, Remove3, Remove4
<1>6. NotListening' => NotListening
  BY <1>2, <1>4, <1>5 DEF NotListening, In
<1>7. NotBlocking' => NotBlocking
  BY <1>2 DEF NotBlocking, In
<1>8. Inbound'
  BY <1>1, <1>2, <1>6, SameTags DEF Inv, Inbound, Settled
<1>9. Unblock1 # Unblock3
  BY DEF Unblock1, Unblock3
<1>10. BlackholeInv'
  BY <1>2, <1>4, <1>7, <1>9, SameTags DEF Inv, BlackholeInv
<1> QED
  BY <1>3, <1>8, <1>10 DEF Inv

\* Without an inbound and a blackhole only relays are left.
LEMMA OnlyRelays ==
    ASSUME Inv, ~Busy, inbounds = {}, Blackhole(tag) \notin outbounds
    PROVE  /\ \A o \in outbounds : o.of.relay = TRUE
           /\ \A k \in DOMAIN rules : RelayRule(rules[k])
<1>1. Settled
  BY IdleSettled DEF Inv
<1>2. Own(tag) \notin outbounds /\ DefaultTag \notin Rules /\ Blackhole(tag) \notin Rules
  BY <1>1 DEF Settled, Inv, BlackholeInv
<1>3. \A o \in outbounds : o.of.relay = TRUE
  BY <1>2 DEF Inv, Ours
<1>4. ASSUME NEW k \in DOMAIN rules PROVE RelayRule(rules[k])
  <2>1. rules[k].tag \in Rules
    BY DEF Rules
  <2>2. rules[k].tag # DefaultTag /\ rules[k].tag # Blackhole(tag)
    BY <1>2, <2>1
  <2> QED
    BY <2>2 DEF Inv, Ours, KnownRule, BlockRule, DefaultRouterBuilder, DefaultTag
<1> QED
  BY <1>3, <1>4

\* Another tag, when nothing of the old one is left.
LEMMA NewTag ==
    ASSUME Inv, ~Busy, inbounds = {}, Blackhole(tag) \notin outbounds,
           Typed', Known', todo' = <<>>, UNCHANGED core
    PROVE  Inv'
<1>1. /\ \A o \in outbounds : o.of.relay = TRUE
      /\ \A k \in DOMAIN rules : RelayRule(rules[k])
  BY OnlyRelays
<1>2. /\ \A o \in outbounds' : o.of.relay = TRUE
      /\ \A k \in DOMAIN rules' : RelayRule(rules[k])' /\ rules[k]' = rules[k]
      /\ inbounds' = {} /\ outbounds' = outbounds /\ rules' = rules
  BY <1>1 DEF core, RelayRule
<1>3. ~Busy'
  BY DEF Busy
<1>4. Left'
  BY <1>3 DEF Left
<1>5. Ours'
  BY <1>2 DEF Inv, Ours, KnownRule, core
<1>6. tag'.relay = FALSE
  BY DEF Known
<1>7. Own(tag') \notin outbounds' /\ Blackhole(tag') \notin outbounds'
  BY <1>2, <1>6 DEF Own, Blackhole
<1>8. DefaultTag' \notin Rules' /\ Blackhole(tag') \notin Rules'
  BY <1>2, <1>6 DEF RelayRule, Rules, DefaultTag, Blackhole
<1>9. Inbound'
  BY <1>2, <1>3, <1>7, <1>8 DEF Inbound
<1>10. BlackholeInv'
  BY <1>3, <1>7, <1>8 DEF BlackholeInv
<1> QED
  BY <1>4, <1>5, <1>9, <1>10 DEF Inv

-----------------------------------------------------------------------------
(* Steps of the controller between two methods.                             *)

\* A record of the panel makes at most one node.
LEMMA ResponseOne ==
    ASSUME NEW s
    PROVE  One(NodeResponse(s))
<1>1. \A x, y \in parseNetworkSettings(s.node.net) : x = y
  BY DEF parseNetworkSettings
<1>2. \A x, y \in parseSecuritySettings(s.node.sec) : x = y
  BY DEF parseSecuritySettings
<1>3. \A x, y \in parseMaskSettingsInto(s.node.sec) : x = y
  BY DEF parseMaskSettingsInto
<1> QED
  BY <1>1, <1>2, <1>3 DEF NodeResponse, One

\* The first method of every mode.
LEMMA FirstPlaces ==
    /\ PlaceOf(Order.start) = "transit" /\ PlaceOf(Order.rebuild) = "unrelay"
    /\ PlaceOf(Order.keep) = "unrelay" /\ PlaceOf(Order.close) = "unblock"
    /\ PlaceOf(<<>>) = "none"
  BY DEF Order, PlaceOf

\* The types, when only job and relay tag change.
LEMMA TypedStays ==
    ASSUME Typed, UNCHANGED <<source, subs, mode, new, first, outbounds>>,
           relayOn' = relayOn, rtag' = rtag \/ rtag'.relay = TRUE,
           Suffix(mode, steps'), status' \in {"off", "up", "panic"},
           status' # "up" => steps' = <<>>,
           past' \subseteq {"rebuilt", "aborted"}
    PROVE  Typed'
  BY DEF Typed, source

\* The records, when none is fetched and none is taken over.
LEMMA KnownStays ==
    ASSUME Known, UNCHANGED <<info, tag, new>>,
           \/ In({"keep"}, {"unrelay", "adopt"})'
           \/ In({"start", "keep", "rebuild"}, {"transit", "inbound", "blackhole", "end"})'
           => new.info = info
    PROVE  Known'
  BY DEF Known

\* A method fails.
LEMMA Failings ==
    ASSUME Inv, Settled, Fails, steps # <<>>,
           UNCHANGED <<source, info, subs, tag, relayOn, mode, new, core>>,
           rtag' = rtag \/ rtag'.relay = TRUE,
           mode = "close" => Place # "unblock" /\ (Place = "remove" => inbounds = {})
    PROVE  Inv'
<1>1. /\ Place = Head(steps) /\ Suffix(mode, Tail(steps)) /\ Suffix(mode, <<>>)
      /\ PlaceOf(Tail(steps)) = After[mode][Place] /\ Place \in DOMAIN After[mode]
      /\ mode \in DOMAIN Order /\ status = "up"
      /\ mode \in {"start", "rebuild", "keep", "close"}
  BY NextPlace, Suffixed, OrderLengths DEF Inv, Typed
<1>2. UNCHANGED <<first, outbounds>>
  BY DEF core
<1>3. todo' = <<>>
  BY DEF Fails, Panic
<1>4. CASE steps' = <<>>
  <2>1. Place' = "none"
    BY <1>4, FirstPlaces DEF Place
  <2>2. status' # "off" /\ Typed'
    BY <1>1, <1>2, <1>4, TypedStays DEF Fails, Panic, Inv, Typed
  <2>3. Known'
    BY <2>1, KnownStays DEF Inv, In
  <2>4. ~NotListening' /\ ~NotBlocking'
    BY <2>1, <2>2 DEF NotListening, NotBlocking, In
  <2> QED
    BY <1>3, <2>2, <2>3, <2>4, Between
<1>5. CASE /\ steps' = Tail(steps) /\ status' = status
           /\ mode = "close" \/ (Place = "blackhole" /\ mode # "start")
  <2>1. Place' = After[mode][Place]
    BY <1>1, <1>5 DEF Place
  <2>2. Typed'
    BY <1>1, <1>2, <1>5, TypedStays DEF Fails, Panic, Inv, Typed
  <2>3. CASE mode = "close"
    <3>1. \/ Place = "remove" /\ Place' = "unrelay"
          \/ Place = "unrelay" /\ Place' = "off"
          \/ Place = "off" /\ Place' = "none"
      BY <1>1, <2>1, <2>3 DEF After
    <3>2. Known'
      BY <2>3, <3>1, KnownStays DEF Inv, In
    <3>3. todo' \notin {Remove1', Remove2', Remove3'}
      BY <1>3 DEF Remove1, Remove2, Remove3
    <3>4. NotListening' => inbounds = {}
      BY <1>1, <1>5, <2>3, <3>1, <3>3 DEF Inv, Inbound, NotListening, In
    <3>5. NotBlocking' => Blackhole(tag) \notin outbounds
      BY <1>1, <1>5, <2>3, <3>1 DEF Inv, BlackholeInv, NotBlocking, In
    <3> QED
      BY <1>3, <2>2, <3>2, <3>4, <3>5, Between
  <2>4. CASE mode # "close" /\ Place = "blackhole"
    <3>1. mode = "rebuild" /\ Place' = "end"
      BY <1>1, <1>5, <2>1, <2>4 DEF After
    <3>2. Known'
      BY <2>4, <3>1, KnownStays DEF Inv, Known, In
    <3>3. ~NotListening' /\ ~NotBlocking'
      BY <1>1, <1>5, <3>1 DEF NotListening, NotBlocking, In
    <3> QED
      BY <1>3, <2>2, <3>2, <3>3, Between
  <2> QED
    BY <1>5, <2>3, <2>4
<1> QED
  BY <1>1, <1>4, <1>5 DEF Fails, Panic

\* A method panics: the process is gone, and what it held with it.
LEMMA Panics ==
    ASSUME Inv, Settled, Panic, steps # <<>>,
           UNCHANGED <<source, info, subs, tag, relayOn, mode, new, core>>,
           rtag' = rtag \/ rtag'.relay = TRUE
    PROVE  Inv'
<1>1. todo' = <<>> /\ Place' = "none" /\ status' = "panic"
  BY FirstPlaces DEF Panic, Place
<1>2. UNCHANGED <<first, outbounds>>
  BY DEF core
<1>3. Typed'
  BY <1>2, TypedStays, Suffixed DEF Inv, Typed, Panic
<1>4. Known'
  BY <1>1, KnownStays DEF Inv, In
<1>5. ~NotListening' /\ ~NotBlocking'
  BY <1>1 DEF NotListening, NotBlocking, In
<1> QED
  BY <1>1, <1>3, <1>4, <1>5, Between

\* The panel changes, or a record that cannot be read is fetched.
LEMMA IdleStep ==
    ASSUME Inv, Idle, UNCHANGED <<ctrl, relayOn, job, core>>,
           panel' \in [server : Servers, list : Lists], seen' \in [server : Servers, list : Lists]
    PROVE  Inv'
<1>1. ~Busy /\ todo' = <<>> /\ Place' = Place
  BY DEF Busy, Idle, job, Place
<1>2. Typed'
  BY DEF Inv, Typed, ctrl, job, core
<1>3. Known'
  BY <1>1 DEF Inv, Known, ctrl, job, In
<1>4. Settled
  BY <1>1, IdleSettled DEF Inv
<1>5. todo' \notin {Remove1', Remove2', Remove3'}
  BY <1>1 DEF Remove1, Remove2, Remove3
<1>6. NotListening' => NotListening
  BY <1>1, <1>5 DEF NotListening, In, job
<1>7. NotBlocking' => NotBlocking
  BY <1>1 DEF NotBlocking, In, job
<1> QED
  BY <1>1, <1>2, <1>3, <1>4, <1>6, <1>7, Between DEF Inv, Inbound, BlackholeInv, ctrl

\* Controller.Start takes the record over when the core has nothing of it.
LEMMA StepStart ==
    ASSUME Inv, Start
    PROVE  Inv'
<1>1. ~Busy /\ status = "off" /\ todo' = <<>> /\ status' = "up" /\ mode' = "start"
  BY DEF Start, Idle, Busy
<1>2. Place' = "transit" /\ steps' = Order["start"]
  BY FirstPlaces DEF Start, Place
<1>3. "start" \in DOMAIN Order
  BY DEF Order
<1>4. Suffix(mode', steps') /\ mode' \in DOMAIN Order
  BY <1>1, <1>2, <1>3, Suffixed
<1>5. Typed'
  BY <1>1, <1>4 DEF Start, Inv, Typed, core
<1>6. One(info') /\ new'.info = info'
  BY ResponseOne DEF Start
<1>7. tag'.relay = FALSE /\ \A n \in info' : tag' = buildNodeTag(n)
  BY <1>6 DEF Start, buildNodeTag, One
<1>8. Known'
  BY <1>6, <1>7 DEF Known
<1>9. inbounds = {} /\ Blackhole(tag) \notin outbounds
  BY <1>1 DEF Inv, Inbound, BlackholeInv, NotListening, NotBlocking
<1> QED
  BY <1>1, <1>5, <1>8, <1>9, NewTag DEF Start

\* apiMonitor fetches a record or a list and takes a branch.
LEMMA StepSync ==
    ASSUME Inv, Sync
    PROVE  Inv'
<1>1. ~Busy /\ status = "up" /\ todo' = <<>> /\ status' = "up"
  BY DEF Sync, Idle, Busy
<1>2. mode' \in {"rebuild", "keep"} /\ steps' = Order[mode']
  BY DEF Sync
<1>3. Place' = "unrelay"
  BY <1>2, FirstPlaces DEF Place
<1>4. mode' \in DOMAIN Order
  BY <1>2 DEF Order
<1>5. Suffix(mode', steps')
  BY <1>2, <1>4, Suffixed
<1>6. panel.list \in Lists
  BY DEF Inv, Typed
<1>7. new'.list = panel.list /\ UNCHANGED <<panel, subs, rtag, relayOn, past, first, outbounds>> /\ seen' = panel
  BY DEF Sync, ctrl, core
<1>8. Typed'
  BY <1>1, <1>4, <1>5, <1>6, <1>7 DEF Inv, Typed
<1>9. One(new'.info) /\ (mode' = "keep" => new'.info = info) /\ UNCHANGED <<info, tag>>
  BY ResponseOne DEF Sync, Inv, Known, ctrl
<1>10. Known'
  BY <1>2, <1>3, <1>9 DEF Inv, Known, In
<1>11. Settled
  BY <1>1, IdleSettled DEF Inv
<1>12. ~NotListening' /\ ~NotBlocking'
  BY <1>1, <1>2, <1>3 DEF NotListening, NotBlocking, In
<1> QED
  BY <1>1, <1>8, <1>9, <1>10, <1>11, <1>12, Between DEF Sync

\* Controller.Close begins.
LEMMA StepClose ==
    ASSUME Inv, Close
    PROVE  Inv'
<1>1. ~Busy /\ status = "up" /\ todo' = <<>> /\ status' = "up"
  BY DEF Close, Idle, Busy
<1>2. mode' = "close" /\ steps' = Order["close"] /\ Place' = "unblock"
  BY FirstPlaces DEF Close, Place
<1>3. mode' \in DOMAIN Order
  BY <1>2 DEF Order
<1>4. Suffix(mode', steps')
  BY <1>2, <1>3, Suffixed
<1>5. Typed'
  BY <1>1, <1>3, <1>4 DEF Inv, Typed, Close, source, ctrl, core
<1>6. Known'
  BY <1>2 DEF Inv, Known, In, Close, ctrl
<1>7. Settled
  BY <1>1, IdleSettled DEF Inv
<1>8. ~NotListening' /\ ~NotBlocking'
  BY <1>1, <1>2 DEF NotListening, NotBlocking, In
<1> QED
  BY <1>1, <1>5, <1>6, <1>7, <1>8, Between DEF Close, ctrl

\* A step from a place to the next one, with nothing else to do.
LEMMA Passes ==
    ASSUME Inv, ~Busy, steps # <<>>, steps' = Tail(steps),
           todo' = todo, UNCHANGED <<source, subs, rtag, relayOn, status, mode, new, core, info, tag>>,
           past' \subseteq {"rebuilt", "aborted"},
           Place \in {"adopt", "transit"},
           Place = "adopt" => new.info = info /\ mode = "keep"
    PROVE  Inv'
<1>1. todo' = <<>> /\ status' = "up" /\ Place' = After[mode][Place] /\ Suffix(mode, steps')
      /\ Place \in DOMAIN After[mode] /\ mode \in {"start", "rebuild", "keep", "close"}
  BY NextPlace, OrderLengths DEF Inv, Typed, Busy, Place
<1>2. \/ mode = "start" /\ Place = "transit" /\ Place' = "blackhole"
      \/ mode = "rebuild" /\ Place = "transit" /\ Place' = "inbound"
      \/ mode = "keep" /\ Place = "adopt" /\ Place' = "transit"
      \/ mode = "keep" /\ Place = "transit" /\ Place' = "end"
  BY <1>1 DEF After
<1>3. Typed'
  BY <1>1, TypedStays DEF Inv, Typed, core
<1>4. Known'
  BY <1>2, KnownStays DEF Inv, Known, In
<1>5. Settled
  BY IdleSettled DEF Inv
<1>6. NotListening' => inbounds = {}
  BY <1>1, <1>2 DEF Inv, Inbound, NotListening, In
<1>7. NotBlocking' => Blackhole(tag) \notin outbounds
  BY <1>1, <1>2 DEF Inv, BlackholeInv, NotBlocking, In
<1> QED
  BY <1>1, <1>3, <1>4, <1>5, <1>6, <1>7, Between

\* The new tag is taken over when nothing of the old one is in the core.
LEMMA StepAdopt ==
    ASSUME Inv, Adopt
    PROVE  Inv'
<1>1. /\ steps # <<>> /\ Place = "adopt" /\ ~Busy /\ todo' = <<>> /\ steps' = Tail(steps)
      /\ status = "up"
  BY NextPlace DEF Adopt, At, Inv, Busy, Typed
<1>2. /\ Suffix(mode, steps') /\ Place' = After[mode][Place]
      /\ Place \in DOMAIN After[mode] /\ mode \in {"start", "rebuild", "keep", "close"}
  BY <1>1, NextPlace, OrderLengths DEF Inv, Typed, Place
<1>3. mode \in {"rebuild", "keep"} /\ Place' = "transit"
  BY <1>1, <1>2 DEF After
<1>4. past' \subseteq {"rebuilt", "aborted"}
  BY DEF Adopt, Inv, Typed
<1>5. CASE mode = "keep"
  <2>1. new.info = info
    BY <1>1, <1>5 DEF Inv, Known, In
  <2> QED
    BY <1>1, <1>4, <1>5, <2>1, Passes DEF Adopt
<1>6. CASE mode = "rebuild"
  <2>1. Typed'
    BY <1>1, <1>2, <1>4, TypedStays DEF Inv, Typed, Adopt, core
  <2>2. info' = new.info /\ new' = new /\ tag' = buildNodeTag(CHOOSE n \in new.info : TRUE)
    BY <1>6 DEF Adopt
  <2>3. One(info') /\ tag'.relay = FALSE /\ \A n \in info' : tag' = buildNodeTag(n)
    BY <2>2 DEF Inv, Known, One, buildNodeTag
  <2>4. Known'
    BY <2>2, <2>3 DEF Known
  <2>5. inbounds = {} /\ Blackhole(tag) \notin outbounds
    BY <1>1, <1>6 DEF Inv, Inbound, BlackholeInv, NotListening, NotBlocking, In
  <2> QED
    BY <1>1, <2>1, <2>4, <2>5, NewTag DEF Adopt
<1> QED
  BY <1>3, <1>5, <1>6

\* A node that does not relay passes the transit by.
LEMMA StepNotRelaying ==
    ASSUME Inv, NotRelaying
    PROVE  Inv'
<1>1. steps # <<>> /\ Place = "transit" /\ ~Busy
  BY NextPlace DEF NotRelaying, At, Inv, Busy
<1> QED
  BY <1>1, Passes DEF NotRelaying, Inv, Typed, ctrl

\* An execution ends.
LEMMA StepFinish ==
    ASSUME Inv, Finish
    PROVE  Inv'
<1>1. /\ steps # <<>> /\ Place \in {"end", "off"} /\ ~Busy /\ todo' = <<>> /\ steps' = <<>>
      /\ Place \in DOMAIN After[mode] /\ Suffix(mode, <<>>) /\ Place' = "none"
      /\ mode \in {"start", "rebuild", "keep", "close"}
      /\ At("end") <=> Place = "end"
  BY NextPlace, Suffixed, OrderLengths, FirstPlaces DEF Finish, At, Inv, Busy, Typed, Place
<1>2. Place = "off" <=> mode = "close"
  BY <1>1 DEF After
<1>3. Typed'
  BY <1>1 DEF Inv, Typed, Finish, source, core
<1>4. Known'
  BY <1>1, KnownStays DEF Inv, Finish, In
<1>5. Settled
  BY <1>1, IdleSettled DEF Inv
<1>6. NotListening' => status' = "off"
  BY <1>1 DEF NotListening, In
<1>7. NotBlocking' => status' = "off"
  BY <1>1 DEF NotBlocking, In
<1>8. status' = "off" => mode = "close" /\ Place = "off"
  BY <1>1, <1>2 DEF Finish
<1>9. status' = "off" => inbounds = {} /\ Blackhole(tag) \notin outbounds
  BY <1>8 DEF Inv, Inbound, BlackholeInv, NotListening, NotBlocking, In
<1> QED
  BY <1>1, <1>3, <1>4, <1>5, <1>6, <1>7, <1>9, Between DEF Finish

-----------------------------------------------------------------------------
(* The calls of RemoveRelay.                                                *)

\* What is known of a sequence whatever it holds.
LEMMA SequenceIs ==
    ASSUME NEW s, Sequence(s)
    PROVE  /\ Len(s) \in Nat /\ DOMAIN s = 1..Len(s)
           /\ s # <<>> => Len(s) # 0 /\ Head(s) = s[1]
  BY DEF Sequence

\* A subscription list is one.
LEMMA ListIs ==
    ASSUME NEW l \in Lists \cup {<<>>}
    PROVE  Sequence(l)
<1>1. CASE l \in Lists
  BY <1>1, NodeManagerAssumption DEF Sequence
<1>2. CASE l = <<>>
  <2>1. l \in Seq({})
    BY <1>2
  <2> QED
    BY <2>1 DEF Sequence
<1> QED
  BY <1>1, <1>2

\* The elements of two sequences, one after the other.
LEMMA Joined ==
    ASSUME NEW S, NEW a \in Seq(S), NEW b \in Seq(S), NEW s, s = a \o b
    PROVE  /\ s \in Seq(S) /\ Len(s) = Len(a) + Len(b)
           /\ \A i \in 1..Len(a) : i \in 1..Len(s) /\ s[i] = a[i]
           /\ \A i \in 1..Len(b) : Len(a) + i \in 1..Len(s) /\ s[Len(a) + i] = b[i]
<1>1. /\ Len(a) \in Nat /\ Len(b) \in Nat
      /\ s \in Seq(S) /\ Len(s) = Len(a) + Len(b)
      /\ \A i \in 1..Len(a) + Len(b) : s[i] = IF i <= Len(a) THEN a[i] ELSE b[i - Len(a)]
  BY ConcatProperties
<1>2. \A i \in 1..Len(a) : i \in 1..Len(s) /\ i \in 1..Len(a) + Len(b) /\ i <= Len(a)
  BY <1>1
<1>3. \A i \in 1..Len(b) : /\ Len(a) + i \in 1..Len(a) + Len(b) /\ Len(a) + i \in 1..Len(s)
                           /\ ~(Len(a) + i <= Len(a)) /\ (Len(a) + i) - Len(a) = i
  BY <1>1
<1> QED
  BY <1>1, <1>2, <1>3

\* Three pieces and a last element.
LEMMA Pieces ==
    ASSUME NEW S, NEW a \in Seq(S), NEW b \in Seq(S), NEW c \in Seq(S), NEW e \in S,
           NEW s, s = Append(a \o b \o c, e)
    PROVE  /\ s \in Seq(S) /\ Len(s) = Len(a) + Len(b) + Len(c) + 1
           /\ \A i \in 1..Len(a) : s[i] = a[i]
           /\ \A i \in 1..Len(b) : s[Len(a) + i] = b[i]
           /\ \A i \in 1..Len(c) : s[Len(a) + Len(b) + i] = c[i]
           /\ s[Len(s)] = e
<1>1. PICK ab : ab = a \o b
  OBVIOUS
<1>2. PICK abc : abc = ab \o c
  OBVIOUS
<1>3. /\ ab \in Seq(S) /\ Len(ab) = Len(a) + Len(b)
      /\ \A i \in 1..Len(a) : i \in 1..Len(ab) /\ ab[i] = a[i]
      /\ \A i \in 1..Len(b) : Len(a) + i \in 1..Len(ab) /\ ab[Len(a) + i] = b[i]
  BY <1>1, Joined
<1>4. /\ abc \in Seq(S) /\ Len(abc) = Len(ab) + Len(c)
      /\ \A i \in 1..Len(ab) : i \in 1..Len(abc) /\ abc[i] = ab[i]
      /\ \A i \in 1..Len(c) : Len(ab) + i \in 1..Len(abc) /\ abc[Len(ab) + i] = c[i]
  <2>1. ab \in Seq(S)
    BY <1>3
  <2> QED
    BY <1>2, <2>1, Joined
<1>5. s = Append(abc, e)
  BY <1>1, <1>2
<1>6. /\ s \in Seq(S) /\ Len(s) = Len(abc) + 1
      /\ \A i \in 1..Len(abc) : s[i] = abc[i]
      /\ s[Len(abc) + 1] = e
  BY <1>4, <1>5, AppendProperties
<1>7. \A i \in 1..Len(a) : s[i] = a[i]
  BY <1>3, <1>4, <1>6
<1>8. \A i \in 1..Len(b) : s[Len(a) + i] = b[i]
  BY <1>3, <1>4, <1>6
<1>9. \A i \in 1..Len(c) : s[Len(ab) + i] = c[i]
  BY <1>3, <1>4, <1>6
<1>10. \A i \in 1..Len(c) : s[Len(a) + Len(b) + i] = c[i]
  BY <1>3, <1>9
<1> QED
  BY <1>3, <1>4, <1>6, <1>7, <1>8, <1>10

\* One call for each argument, in their order.
LEMMA CallsAre ==
    ASSUME NEW op, NEW n \in Nat, NEW args, DOMAIN args = 1..n
    PROVE  \E S : /\ Calls(op, args) \in Seq(S) /\ Len(Calls(op, args)) = n
                  /\ \A i \in 1..n : Calls(op, args)[i] = TheCall(op, args[i])
<1> DEFINE S == {TheCall(op, args[i]) : i \in 1..n}
           c == [i \in 1..n |-> TheCall(op, args[i])]
<1>1. c \in Seq(S)
  OBVIOUS
<1>2. c = Calls(op, args)
  BY DEF Calls, TheCall
<1>3. Len(c) = n /\ \A i \in 1..n : c[i] = TheCall(op, args[i])
  OBVIOUS
<1> QED
  BY <1>1, <1>2, <1>3

\* Sequences of different sets are sequences of one that has them all.
LEMMA Wider ==
    ASSUME NEW S, NEW T, NEW U, NEW a \in Seq(S), NEW b \in Seq(T), NEW c \in Seq(U), NEW e
    PROVE  \E V : a \in Seq(V) /\ b \in Seq(V) /\ c \in Seq(V) /\ e \in V
<1> DEFINE V == S \cup T \cup U \cup {e}
<1>1. S \subseteq V /\ T \subseteq V /\ U \subseteq V /\ e \in V
  OBVIOUS
<1> HIDE DEF V
<1>2. a \in Seq(V) /\ b \in Seq(V) /\ c \in Seq(V)
  BY <1>1, SeqMonotonic
<1> QED
  BY <1>1, <1>2

\* What RemoveRelay has to do: the rules, then the outbounds, then c.Relay.
Removals(s, list) ==
    LET n == Len(list)
    IN  /\ Sequence(s) /\ s[Len(s)] = Return
        /\ Len(s) = n + n + (IF mode = "close" THEN 0 ELSE 1) + 1
        /\ \A i \in 1..n : /\ s[i] = TheCall("delRule", RelayOf(rtag, list[i]))
                           /\ s[n + i] = TheCall("delOutbound", RelayOf(rtag, list[i]))
        /\ mode # "close" => s[n + n + 1] = TheCall("relay", FALSE)

\* What RemoveRelay has to do: the rules, the outbounds, the controller's flag.
LEMMA RemovalsMade ==
    ASSUME Inv, RemoveRelay
    PROVE  IF relayOn THEN Removals(todo', subs) ELSE todo' = <<Return>>
<1>1. CASE relayOn
  <2> DEFINE n == Len(subs)
             ts == RelayTags(subs)
  <2>1. n \in Nat /\ DOMAIN subs = 1..n
    BY ListIs, SequenceIs DEF Inv, Typed
  <2>2. DOMAIN ts = 1..n /\ \A i \in 1..n : ts[i] = RelayOf(rtag, subs[i])
    BY <2>1 DEF RelayTags
  <2> DEFINE d == IF mode = "close" THEN NoCalls ELSE Call("relay", FALSE)
             l == IF mode = "close" THEN 0 ELSE 1
  <2>3. todo' = Append(Calls("delRule", ts) \o Calls("delOutbound", ts) \o d, Return)
    BY <1>1 DEF RemoveRelay, Makes, Return, TheCall
  <2>4. Len(d) = l /\ d \in Seq({TheCall("relay", FALSE)})
        /\ (mode # "close" => d[1] = TheCall("relay", FALSE))
    <3>1. CASE mode = "close"
      <4>1. d = <<>> /\ l = 0
        BY <3>1 DEF NoCalls
      <4> QED
        BY <3>1, <4>1
    <3>2. CASE mode # "close"
      <4>1. d = <<TheCall("relay", FALSE)>> /\ l = 1
        BY <3>2, OneCall
      <4> HIDE DEF d, l
      <4> QED
        BY <3>2, <4>1
    <3> QED
      BY <3>1, <3>2
  <2> HIDE DEF n, ts, d
  <2>5. PICK S : /\ Calls("delRule", ts) \in Seq(S) /\ Len(Calls("delRule", ts)) = n
                 /\ \A i \in 1..n : Calls("delRule", ts)[i] = TheCall("delRule", ts[i])
    BY <2>1, <2>2, CallsAre
  <2>6. PICK T : /\ Calls("delOutbound", ts) \in Seq(T) /\ Len(Calls("delOutbound", ts)) = n
                 /\ \A i \in 1..n : Calls("delOutbound", ts)[i] = TheCall("delOutbound", ts[i])
    BY <2>1, <2>2, CallsAre
  <2>7. PICK V : /\ Calls("delRule", ts) \in Seq(V) /\ Calls("delOutbound", ts) \in Seq(V)
                 /\ d \in Seq(V) /\ Return \in V
    BY <2>4, <2>5, <2>6, Wider
  <2> DEFINE A == Calls("delRule", ts)
             B == Calls("delOutbound", ts)
             s == todo'
  <2>8. /\ s \in Seq(V) /\ Len(s) = Len(A) + Len(B) + Len(d) + 1
        /\ \A i \in 1..Len(A) : s[i] = A[i]
        /\ \A i \in 1..Len(B) : s[Len(A) + i] = B[i]
        /\ \A i \in 1..Len(d) : s[Len(A) + Len(B) + i] = d[i]
        /\ s[Len(s)] = Return
    BY <2>3, <2>7, Pieces
  <2>9. Len(A) = n /\ Len(B) = n
    BY <2>5, <2>6
  <2>10. \A i \in 1..n : /\ A[i] = TheCall("delRule", RelayOf(rtag, subs[i]))
                         /\ B[i] = TheCall("delOutbound", RelayOf(rtag, subs[i]))
    BY <2>2, <2>5, <2>6
  <2> HIDE DEF A, B, s
  <2>11. Len(s) = n + n + l + 1
    BY <2>4, <2>8, <2>9
  <2>12. \A i \in 1..n : /\ s[i] = TheCall("delRule", RelayOf(rtag, subs[i]))
                         /\ s[n + i] = TheCall("delOutbound", RelayOf(rtag, subs[i]))
    BY <2>8, <2>9, <2>10
  <2>13. mode # "close" => s[n + n + 1] = TheCall("relay", FALSE)
    <3>1. mode # "close" => 1 \in 1..Len(d)
      BY <2>4
    <3> QED
      BY <2>4, <2>8, <2>9, <3>1
  <2>14. Sequence(s)
    BY <2>8 DEF Sequence
  <2> QED
    BY <1>1, <2>8, <2>11, <2>12, <2>13, <2>14 DEF Removals, s, n
<1>2. CASE ~relayOn
  BY <1>2, Concats DEF RemoveRelay, Makes, NoCalls, Return, TheCall
<1> QED
  BY <1>1, <1>2

\* Each of those calls, by its index; a rule goes before its outbound.
LEMMA RemovalsShape ==
    ASSUME NEW list \in Lists \cup {<<>>}, NEW s, Removals(s, list)
    PROVE  /\ Len(s) \in Nat \ {0} /\ Len(list) \in Nat
           /\ \A i \in 1..Len(s) :
                 \/ i \in 1..Len(list) /\ s[i] = TheCall("delRule", RelayOf(rtag, list[i]))
                 \/ /\ i - Len(list) \in 1..Len(list) /\ i - Len(list) \in 1..i - 1
                    /\ s[i] = TheCall("delOutbound", RelayOf(rtag, list[i - Len(list)]))
                    /\ s[i - Len(list)] = TheCall("delRule", RelayOf(rtag, list[i - Len(list)]))
                 \/ s[i] = TheCall("relay", FALSE) /\ mode # "close"
                 \/ i = Len(s) /\ s[i] = Return
<1> DEFINE n == Len(list)
<1>1. n \in Nat /\ Len(s) \in Nat /\ DOMAIN s = 1..Len(s)
  BY ListIs, SequenceIs DEF Removals
<1>2. /\ s[Len(s)] = Return
      /\ Len(s) = n + n + (IF mode = "close" THEN 0 ELSE 1) + 1
      /\ \A i \in 1..n : /\ s[i] = TheCall("delRule", RelayOf(rtag, list[i]))
                         /\ s[n + i] = TheCall("delOutbound", RelayOf(rtag, list[i]))
      /\ mode # "close" => s[n + n + 1] = TheCall("relay", FALSE)
  BY DEF Removals
<1> HIDE DEF n
<1>3. ASSUME NEW i \in 1..Len(s)
      PROVE  \/ i \in 1..n
             \/ i - n \in 1..n /\ i = n + (i - n) /\ i - n \in 1..i - 1
             \/ i = n + n + 1 /\ mode # "close"
             \/ i = Len(s)
  BY <1>1, <1>2
<1>4. ASSUME NEW i \in 1..Len(s)
      PROVE  \/ i \in 1..n /\ s[i] = TheCall("delRule", RelayOf(rtag, list[i]))
             \/ /\ i - n \in 1..n /\ i - n \in 1..i - 1
                /\ s[i] = TheCall("delOutbound", RelayOf(rtag, list[i - n]))
                /\ s[i - n] = TheCall("delRule", RelayOf(rtag, list[i - n]))
             \/ s[i] = TheCall("relay", FALSE) /\ mode # "close"
             \/ i = Len(s) /\ s[i] = Return
  BY <1>2, <1>3
<1>5. Len(s) \in Nat \ {0}
  BY <1>1, <1>2
<1> QED
  BY <1>1, <1>4, <1>5 DEF n

\* So nothing is pulled from under a rule.
LEMMA RemovalsUnrelay ==
    ASSUME Inv, RemoveRelay
    PROVE  Unrelaying'
<1>1. rtag' = rtag /\ mode' = mode
  BY DEF RemoveRelay, ctrl
<1>2. PICK s : s = todo'
  OBVIOUS
<1>3. CASE ~relayOn
  <2>1. s = <<Return>>
    BY <1>2, <1>3, RemovalsMade
  <2>2. s \in Seq({Return}) /\ Len(s) = 1 /\ s[1] = Return /\ DOMAIN s = {1}
    BY <2>1
  <2>3. 1..1 - 1 = {}
    OBVIOUS
  <2>4. Return.op # "delOutbound"
    BY DEF Return, TheCall
  <2>5. Sequence(s)
    BY <2>2 DEF Sequence
  <2> QED
    BY <1>2, <2>2, <2>3, <2>4, <2>5 DEF Unrelaying, Sequence, Return
<1>4. CASE relayOn
  <2>1. Removals(s, subs) /\ rtag.relay = TRUE /\ subs \in Lists \cup {<<>>}
    BY <1>2, <1>4, RemovalsMade DEF Inv, Typed
  <2>2. Sequence(s) /\ s[Len(s)] = Return /\ DOMAIN s = 1..Len(s)
    BY <2>1, SequenceIs DEF Removals
  <2>3. ASSUME NEW i \in 1..Len(s) - 1 PROVE Unrelays(s[i])
    <3>1. i \in 1..Len(s) /\ i # Len(s)
      BY <2>1, RemovalsShape
    <3>2. \/ \E o : s[i] = TheCall("delRule", RelayOf(rtag, o))
          \/ \E o : s[i] = TheCall("delOutbound", RelayOf(rtag, o))
          \/ s[i] = TheCall("relay", FALSE)
      BY <2>1, <3>1, RemovalsShape
    <3>3. rtag.relay = TRUE
      BY <2>1
    <3>4. ASSUME NEW o, NEW op \in {"delRule", "delOutbound"}
          PROVE  Unrelays(TheCall(op, RelayOf(rtag, o)))
      BY <3>3 DEF Unrelays, TheCall, RelayOf
    <3>5. Unrelays(TheCall("relay", FALSE))
      BY DEF Unrelays, TheCall
    <3> QED
      BY <3>2, <3>4, <3>5
  <2>4. ASSUME NEW i \in 1..Len(s), s[i].op = "delOutbound"
        PROVE  \E j \in 1..i - 1 : s[j] = TheCall("delRule", s[i].arg)
    <3> DEFINE j == i - Len(subs)
    <3>1. \/ s[i] = TheCall("delRule", RelayOf(rtag, subs[i]))
          \/ /\ j \in 1..i - 1
             /\ s[i] = TheCall("delOutbound", RelayOf(rtag, subs[j]))
             /\ s[j] = TheCall("delRule", RelayOf(rtag, subs[j]))
          \/ s[i] = TheCall("relay", FALSE)
          \/ s[i] = Return
      BY <2>1, RemovalsShape
    <3> HIDE DEF j
    <3> QED
      BY <2>4, <3>1 DEF TheCall, Return
  <2> QED
    BY <1>1, <1>2, <2>2, <2>3, <2>4 DEF Unrelaying, Unrelays, Return, TheCall, NoTag
<1> QED
  BY <1>3, <1>4

-----------------------------------------------------------------------------
(* The calls of AddRelayTag.                                                *)

\* A call for one of the subscriptions; a rule comes after its outbound.
Adds(q, list, r, i) ==
    \E k \in DOMAIN list :
        \/ q[i] = TheCall("addOutbound", RelayOf(r, list[k]))
        \/ /\ q[i] = TheCall("addRule", RelayRouterBuilder(tag, r, list[k]))
           /\ \E j \in 1..i - 1 : q[j] = TheCall("addOutbound", RelayOf(r, list[k]))

Additions(q, list, r) == \A i \in 1..Len(q) : Adds(q, list, r, i)

\* The calls of some subscriptions and those of more.
LEMMA AdditionsJoined ==
    ASSUME NEW list, NEW r, NEW S, NEW a \in Seq(S), NEW b \in Seq(S),
           Additions(a, list, r), Additions(b, list, r)
    PROVE  Additions(a \o b, list, r)
<1>1. PICK s : s = a \o b
  OBVIOUS
<1>2. /\ s \in Seq(S) /\ Len(s) = Len(a) + Len(b)
      /\ \A i \in 1..Len(a) : i \in 1..Len(s) /\ s[i] = a[i]
      /\ \A i \in 1..Len(b) : Len(a) + i \in 1..Len(s) /\ s[Len(a) + i] = b[i]
      /\ Len(a) \in Nat /\ Len(b) \in Nat
  BY <1>1, Joined
<1>3. ASSUME NEW i \in 1..Len(a) PROVE Adds(s, list, r, i)
  <2>1. \A j \in 1..i - 1 : j \in 1..Len(a)
    BY <1>2
  <2>2. Adds(a, list, r, i)
    BY DEF Additions
  <2> QED
    BY <1>2, <2>1, <2>2 DEF Adds
<1>4. ASSUME NEW i \in 1..Len(b) PROVE Adds(s, list, r, Len(a) + i)
  <2>1. \A j \in 1..i - 1 : j \in 1..Len(b) /\ Len(a) + j \in 1..(Len(a) + i) - 1
    BY <1>2
  <2>2. Adds(b, list, r, i)
    BY DEF Additions
  <2>3. PICK k \in DOMAIN list :
            \/ b[i] = TheCall("addOutbound", RelayOf(r, list[k]))
            \/ /\ b[i] = TheCall("addRule", RelayRouterBuilder(tag, r, list[k]))
               /\ \E j \in 1..i - 1 : b[j] = TheCall("addOutbound", RelayOf(r, list[k]))
    BY <2>2 DEF Adds
  <2>4. s[Len(a) + i] = b[i] /\ \A j \in 1..i - 1 : s[Len(a) + j] = b[j]
    BY <1>2, <2>1
  <2> QED
    BY <2>1, <2>3, <2>4 DEF Adds
<1>5. ASSUME NEW i \in 1..Len(s), i \notin 1..Len(a)
      PROVE  i - Len(a) \in 1..Len(b) /\ i = Len(a) + (i - Len(a))
  BY <1>2, <1>5
<1>6. Additions(s, list, r)
  BY <1>3, <1>4, <1>5 DEF Additions
<1> QED
  BY <1>1, <1>6

\* The two calls of one subscription, its outbound first.
LEMMA AdditionsOne ==
    ASSUME NEW t, NEW list, NEW k \in DOMAIN list
    PROVE  LET q == RelayCalls(t, list[k])
           IN  /\ q = <<TheCall("addOutbound", RelayOf(buildRNodeTag(t), list[k])),
                        TheCall("addRule", RelayRouterBuilder(tag, buildRNodeTag(t), list[k]))>>
               /\ Additions(q, list, buildRNodeTag(t))
<1> DEFINE q == RelayCalls(t, list[k])
           r == buildRNodeTag(t)
<1>1. q = <<TheCall("addOutbound", RelayOf(r, list[k])),
            TheCall("addRule", RelayRouterBuilder(tag, r, list[k]))>>
  BY OneCall, Concats DEF RelayCalls
<1> HIDE DEF q, r
<1>2. /\ Len(q) = 2 /\ q[1] = TheCall("addOutbound", RelayOf(r, list[k]))
      /\ q[2] = TheCall("addRule", RelayRouterBuilder(tag, r, list[k]))
  BY <1>1
<1>3. Adds(q, list, r, 1)
  BY <1>2 DEF Adds
<1>4. 1 \in 1..2 - 1
  OBVIOUS
<1>5. Adds(q, list, r, 2)
  BY <1>2, <1>4 DEF Adds
<1>6. \A i \in 1..Len(q) : i \in {1, 2}
  BY <1>2
<1>7. Additions(q, list, r)
  BY <1>3, <1>5, <1>6 DEF Additions
<1> QED
  BY <1>1, <1>7 DEF q, r

\* What the loop over the list has put together.
LEMMA AdditionsAll ==
    ASSUME NEW t, NEW list, Sequence(list), NEW taken
    PROVE  LET q == FlattenSeq([k \in DOMAIN list |->
                        IF k \in taken THEN RelayCalls(t, list[k]) ELSE NoCalls])
           IN  Sequence(q) /\ Additions(q, list, buildRNodeTag(t))
<1> DEFINE X == {TheCall("addOutbound", RelayOf(buildRNodeTag(t), list[k])) : k \in DOMAIN list}
                \cup {TheCall("addRule", RelayRouterBuilder(tag, buildRNodeTag(t), list[k])) : k \in DOMAIN list}
           G == {q \in Seq(X) : Additions(q, list, buildRNodeTag(t))}
           part == [k \in DOMAIN list |->
                        IF k \in taken THEN RelayCalls(t, list[k]) ELSE NoCalls]
<1>1. NoCalls \in G
  BY DEF NoCalls, Additions
<1>2. ASSUME NEW k \in DOMAIN list PROVE RelayCalls(t, list[k]) \in G
  <2>1. /\ TheCall("addOutbound", RelayOf(buildRNodeTag(t), list[k])) \in X
        /\ TheCall("addRule", RelayRouterBuilder(tag, buildRNodeTag(t), list[k])) \in X
    OBVIOUS
  <2>2. RelayCalls(t, list[k]) \in Seq(X)
    <3>1. \A a, b \in X : <<a, b>> \in Seq(X)
      <4> HIDE DEF X
      <4> QED
        OBVIOUS
    <3> HIDE DEF X
    <3> QED
      BY <2>1, <3>1, AdditionsOne, Zenon
  <2> HIDE DEF X
  <2> QED
    BY <2>2, AdditionsOne
<1>3. \A a, b \in G : a \o b \in G
  <2> HIDE DEF X
  <2> QED
    BY AdditionsJoined, ConcatProperties
<1>4. Len(list) \in Nat /\ DOMAIN list = 1..Len(list)
  BY SequenceIs
<1>5. part \in Seq(G)
  <2>1. \A k \in DOMAIN list : part[k] \in G
    BY <1>1, <1>2
  <2>2. part \in [1..Len(list) -> G]
    <3> HIDE DEF G
    <3> QED
      BY <1>4, <2>1
  <2> HIDE DEF G, part
  <2> QED
    BY <1>4, <2>2
<1>6. FlattenSeq(part) \in G
  <2>1. G \in SUBSET Seq(X) /\ <<>> \in G
    BY <1>1 DEF NoCalls
  <2> HIDE DEF G, part, X
  <2> QED
    BY <1>3, <1>5, <2>1, FlattenIn
<1> QED
  BY <1>6 DEF Sequence

\* The calls of AddRelayTag, when it makes any.
RelayTodo(s, list, r) ==
    /\ Sequence(s) /\ Len(s) >= 2 /\ s[Len(s)] = Return
    /\ s[Len(s) - 1] = TheCall("relay", TRUE)
    /\ \A i \in 1..Len(s) - 2 : Adds(s, list, r, i)

\* All of AddRelayTag's calls, the controller's flag and the return last.
LEMMA RelayTodoMade ==
    ASSUME NEW q, NEW list, NEW r, Sequence(q), Additions(q, list, r)
    PROVE  RelayTodo(Append(q \o Call("relay", TRUE), Return), list, r)
<1>1. PICK S : q \in Seq(S)
  BY DEF Sequence
<1>2. PICK e : e = TheCall("relay", TRUE)
  OBVIOUS
<1>3. /\ <<>> \in Seq({}) /\ <<e>> \in Seq({e}) /\ Len(<<e>>) = 1
      /\ <<e>>[1] = e
  OBVIOUS
<1>14. Call("relay", TRUE) = <<e>>
  BY <1>2, OneCall, Zenon
<1>4. PICK V : q \in Seq(V) /\ <<e>> \in Seq(V) /\ Return \in V
  <2> DEFINE V == S \cup {e, Return}
  <2>1. S \subseteq V /\ e \in V /\ Return \in V
    OBVIOUS
  <2> HIDE DEF V
  <2>2. q \in Seq(V)
    BY <1>1, <2>1, SeqMonotonic
  <2>3. <<e>> \in Seq(V)
    BY <2>1
  <2> QED
    BY <2>1, <2>2, <2>3
<1>5. PICK s : s = Append(q \o <<e>>, Return)
  OBVIOUS
<1>6. PICK p : p = q \o <<e>>
  OBVIOUS
<1>7. /\ p \in Seq(V) /\ Len(p) = Len(q) + 1
      /\ \A i \in 1..Len(q) : i \in 1..Len(p) /\ p[i] = q[i]
      /\ 1 \in 1..Len(<<e>>)
      /\ \A i \in 1..Len(<<e>>) : Len(q) + i \in 1..Len(p) /\ p[Len(q) + i] = <<e>>[i]
  BY <1>3, <1>4, <1>6, Joined
<1>8. Len(q) \in Nat /\ p[Len(q) + 1] = e /\ Len(q) + 1 \in 1..Len(p)
  BY <1>3, <1>4, <1>7
<1>9. /\ s \in Seq(V) /\ Len(s) = Len(p) + 1
      /\ \A i \in 1..Len(p) : s[i] = p[i]
      /\ s[Len(p) + 1] = Return
  BY <1>4, <1>5, <1>6, <1>7, AppendProperties
<1>10. Len(s) = Len(q) + 2 /\ Len(s) - 1 = Len(q) + 1 /\ Len(s) - 2 = Len(q)
  BY <1>7, <1>8, <1>9
<1>11. s[Len(s)] = Return /\ s[Len(s) - 1] = e /\ \A i \in 1..Len(q) : s[i] = q[i]
  BY <1>7, <1>8, <1>9, <1>10
<1>12. ASSUME NEW i \in 1..Len(q) PROVE Adds(s, list, r, i)
  <2>1. \A j \in 1..i - 1 : j \in 1..Len(q)
    BY <1>8
  <2>2. Adds(q, list, r, i)
    BY DEF Additions
  <2> QED
    BY <1>11, <2>1, <2>2 DEF Adds
<1>13. Sequence(s)
  BY <1>9 DEF Sequence
<1>15. Len(s) >= 2
  BY <1>8, <1>10
<1>16. \A i \in 1..Len(s) - 2 : Adds(s, list, r, i)
  BY <1>10, <1>12
<1>17. RelayTodo(s, list, r)
  BY <1>2, <1>11, <1>13, <1>15, <1>16 DEF RelayTodo
<1> QED
  BY <1>5, <1>14, <1>17

-----------------------------------------------------------------------------
(* The methods that begin, one by one.                                      *)

\* An index is one of the last two or comes before them.
LEMMA LastTwo ==
    ASSUME NEW n \in Nat, NEW i \in 1..n
    PROVE  /\ i \in 1..n - 2 \/ i = n - 1 \/ i = n
           /\ i \in 1..n - 1 \/ i = n
           /\ i \in 1..n - 1 => i # n
  OBVIOUS

\* So every rule finds the outbound it leads to.
LEMMA RelayTodoRelays ==
    ASSUME RelayTodo(todo', new.list, rtag'), rtag'.relay = TRUE, new' = new, tag' = tag
    PROVE  Relaying'
<1>1. PICK s : s = todo'
  OBVIOUS
<1>2. PICK r : r = rtag'
  OBVIOUS
<1>3. /\ RelayTodo(s, new.list, r) /\ Sequence(s) /\ s[Len(s)] = Return /\ DOMAIN s = 1..Len(s)
      /\ Len(s) \in Nat /\ r.relay = TRUE
  BY <1>1, <1>2, SequenceIs DEF RelayTodo
<1>4. ASSUME NEW i \in 1..Len(s)
      PROVE  i \in 1..Len(s) - 2 \/ i = Len(s) - 1 \/ i = Len(s)
  BY <1>3, LastTwo
<1>5. ASSUME NEW i \in 1..Len(s) - 1
      PROVE  \/ s[i].op = "relay" /\ s[i].arg = TRUE
             \/ \E k \in DOMAIN new.list :
                   \/ s[i] = TheCall("addOutbound", RelayOf(r, new.list[k]))
                   \/ s[i] = TheCall("addRule", RelayRouterBuilder(tag, r, new.list[k]))
  <2>1. i \in 1..Len(s) - 2 \/ i = Len(s) - 1
    <3>1. \A n \in Nat : \A j \in 1..n - 1 : j \in 1..n - 2 \/ j = n - 1
      OBVIOUS
    <3> QED
      BY <1>3, <3>1
  <2>2. CASE i \in 1..Len(s) - 2
    <3>1. Adds(s, new.list, r, i)
      BY <1>3, <2>2 DEF RelayTodo
    <3> QED
      BY <3>1 DEF Adds
  <2>3. CASE i = Len(s) - 1
    BY <1>3, <2>3 DEF RelayTodo, TheCall
  <2> QED
    BY <2>1, <2>2, <2>3
<1>6. ASSUME NEW i \in 1..Len(s), s[i].op = "addRule"
      PROVE  \E j \in 1..i - 1 : s[j] = TheCall("addOutbound", s[i].arg.dest)
  <2>1. i # Len(s) /\ i # Len(s) - 1
    <3>1. s[Len(s)].op = "return" /\ s[Len(s) - 1].op = "relay"
      BY <1>3 DEF Return, TheCall, RelayTodo
    <3> QED
      BY <1>6, <3>1
  <2>2. Adds(s, new.list, r, i)
    BY <1>3, <1>4, <2>1 DEF RelayTodo
  <2>3. PICK k \in DOMAIN new.list :
            /\ s[i] = TheCall("addRule", RelayRouterBuilder(tag, r, new.list[k]))
            /\ \E j \in 1..i - 1 : s[j] = TheCall("addOutbound", RelayOf(r, new.list[k]))
    BY <1>6, <2>2 DEF Adds, TheCall
  <2>4. s[i].arg.dest = RelayOf(r, new.list[k])
    BY <2>3 DEF TheCall, RelayRouterBuilder
  <2> QED
    BY <2>3, <2>4
<1>7. \A i \in 1..Len(s) - 1 : AddsRelay(s[i])'
  <2> SUFFICES ASSUME NEW i \in 1..Len(s) - 1 PROVE AddsRelay(s[i])'
    OBVIOUS
  <2> QED
    BY <1>2, <1>3, <1>5 DEF AddsRelay, TheCall
<1>8. Return' = Return
  BY DEF Return, TheCall
<1> QED
  BY <1>1, <1>3, <1>6, <1>7, <1>8 DEF Relaying, TheCall

\* What holds when a method is about to begin, and when it has not changed.
LEMMA AtMethod ==
    ASSUME Inv, NEW m, At(m)
    PROVE  /\ steps # <<>> /\ Place = m /\ ~Busy /\ Settled /\ status = "up"
           /\ mode \in {"start", "rebuild", "keep", "close"} /\ m \in DOMAIN After[mode]
           /\ Suffix(mode, steps) /\ past \subseteq {"rebuilt", "aborted"}
<1>1. steps # <<>> /\ Head(steps) = m /\ ~Busy
  BY DEF At, Busy
<1>2. Typed /\ Inbound
  BY DEF Inv
<1>3. Place = m /\ Place \in DOMAIN After[mode]
  BY <1>1, <1>2, NextPlace
<1>4. Settled
  BY <1>1, <1>2, IdleSettled
<1> QED
  BY <1>1, <1>2, <1>3, <1>4, OrderLengths DEF Typed

\* A method works out its calls: types and records stay.
LEMMA MethodTyped ==
    ASSUME Inv, steps # <<>>, UNCHANGED <<source, subs, relayOn, mode, new, core, status, steps, past>>,
           rtag' = rtag \/ rtag'.relay = TRUE, UNCHANGED <<info, tag>>
    PROVE  Typed' /\ Known'
<1>1. Typed'
  BY TypedStays DEF Inv, Typed, core
<1>2. Place' = Place
  BY DEF Place
<1>3. Known'
  BY <1>2, KnownStays DEF Inv, Known, In
<1> QED
  BY <1>1, <1>3

\* RemoveRelayRules and RemoveRelayTag begin.
LEMMA StepRemoveRelay ==
    ASSUME Inv, RemoveRelay
    PROVE  Inv'
<1>1. /\ steps # <<>> /\ Place = "unrelay" /\ ~Busy
      /\ UNCHANGED <<source, ctrl, relayOn, mode, new, core, status, steps, past>>
  BY AtMethod DEF RemoveRelay, Makes
<1>2. Typed' /\ Known' /\ Place' = Place
  BY <1>1, MethodTyped DEF ctrl, Place
<1>3. Unrelaying'
  BY RemovalsUnrelay
<1>4. Busy'
  <2>1. todo' # <<>>
    <3>1. PICK s : s = todo'
      OBVIOUS
    <3>2. CASE relayOn
      <4>1. subs \in Lists \cup {<<>>} /\ Removals(s, subs)
        BY <3>1, <3>2, RemovalsMade DEF Inv, Typed
      <4>2. Len(s) # 0
        BY <4>1, RemovalsShape
      <4> QED
        BY <3>1, <4>2
    <3>3. CASE ~relayOn
      BY <3>3, RemovalsMade
    <3> QED
      BY <3>2, <3>3
  <2> QED
    BY <2>1 DEF Busy
<1>5. Left'
  BY <1>1, <1>2, <1>3 DEF Left
<1> QED
  BY <1>1, <1>2, <1>4, <1>5, Makings DEF ctrl

\* RemoveBlockingRules begins.
LEMMA StepRemoveBlockingRules ==
    ASSUME Inv, RemoveBlockingRules
    PROVE  Inv'
<1>1. /\ steps # <<>> /\ Place = "unblock" /\ ~Busy
      /\ UNCHANGED <<source, ctrl, relayOn, mode, new, core, status, steps, past>>
  BY AtMethod DEF RemoveBlockingRules, Makes
<1>2. Typed' /\ Known' /\ Place' = Place
  BY <1>1, MethodTyped DEF ctrl, Place
<1>3. todo' = Unblock3
  BY OneCall, Concats DEF RemoveBlockingRules, Makes, Unblock3, Return, TheCall
<1>4. Unblock3' = Unblock3
  BY <1>1 DEF Unblock3, ctrl, Return, TheCall
<1>5. Busy'
  BY <1>3 DEF Busy, Unblock3
<1>6. Left'
  BY <1>1, <1>2, <1>3, <1>4 DEF Left
<1> QED
  BY <1>1, <1>2, <1>3, <1>5, <1>6, Makings DEF ctrl

\* RemoveTag begins.
LEMMA StepRemoveTag ==
    ASSUME Inv, RemoveTag
    PROVE  Inv'
<1>1. /\ steps # <<>> /\ Place = "remove" /\ ~Busy
      /\ UNCHANGED <<source, ctrl, relayOn, mode, new, core, status, steps, past>>
  BY AtMethod DEF RemoveTag, Makes
<1>2. Typed' /\ Known' /\ Place' = Place
  BY <1>1, MethodTyped DEF ctrl, Place
<1>3. todo' = Remove4
  <2>1. todo' = Append(Call("delInbound", tag) \o Call("delOutbound", Own(tag))
                       \o Call("delRule", DefaultTag), Return)
    BY DEF RemoveTag, Makes, Return, TheCall, DefaultTag
  <2> QED
    BY <2>1, Todos, OneCall, Zenon DEF Remove4
<1>4. Remove4' = Remove4
  BY <1>1 DEF Remove4, ctrl, Return, TheCall, DefaultTag
<1>5. Busy'
  BY <1>3 DEF Busy, Remove4
<1>6. Left'
  BY <1>1, <1>2, <1>3, <1>4 DEF Left
<1> QED
  BY <1>1, <1>2, <1>3, <1>5, <1>6, Makings DEF ctrl

\* What AddRelayTag comes to.
LEMMA RelayTagMakes ==
    ASSUME Inv, AddRelayTag
    PROVE  /\ UNCHANGED <<source, info, subs, tag, relayOn, mode, new, core>>
           /\ rtag'.relay = TRUE
           /\ \/ Panic
              \/ Fails
              \/ RelayTodo(todo', new.list, rtag') /\ UNCHANGED <<status, steps, past>>
<1>2. UNCHANGED <<source, info, subs, tag, relayOn, mode, new, core>>
  BY DEF AddRelayTag
<1>3. PICK t \in GetTransitNode(seen.server.transit) :
          /\ rtag' = buildRNodeTag(t)
          /\ LET taken == {k \in DOMAIN new.list : Takes(t, new.list[k])}
             IN  \/ Panic
                 \/ Fails
                 \/ Makes(FlattenSeq([k \in DOMAIN new.list |->
                                IF k \in taken THEN RelayCalls(t, new.list[k]) ELSE NoCalls])
                            \o Call("relay", TRUE))
  BY Zenon DEF AddRelayTag
<1>4. rtag'.relay = TRUE
  BY <1>3 DEF buildRNodeTag
<1>7. CASE Makes(FlattenSeq([k \in DOMAIN new.list |->
                       IF k \in {l \in DOMAIN new.list : Takes(t, new.list[l])}
                       THEN RelayCalls(t, new.list[k]) ELSE NoCalls])
                 \o Call("relay", TRUE))
  <2> DEFINE taken == {l \in DOMAIN new.list : Takes(t, new.list[l])}
             q == FlattenSeq([k \in DOMAIN new.list |->
                       IF k \in taken THEN RelayCalls(t, new.list[k]) ELSE NoCalls])
  <2>1. todo' = Append(q \o Call("relay", TRUE), Return) /\ UNCHANGED <<status, steps, past>>
    BY <1>7 DEF Makes, Return, TheCall
  <2>2. Sequence(new.list)
    BY ListIs DEF Inv, Typed
  <2>3. Sequence(q) /\ Additions(q, new.list, buildRNodeTag(t))
    <3> HIDE DEF taken
    <3> QED
      BY <2>2, AdditionsAll
  <2> HIDE DEF q
  <2>4. RelayTodo(todo', new.list, rtag')
    BY <1>3, <2>1, <2>3, RelayTodoMade
  <2> QED
    BY <1>2, <1>4, <2>1, <2>4
<1> QED
  BY <1>2, <1>3, <1>4, <1>7

\* GetTransitNode and AddRelayTag, whatever becomes of them.
LEMMA StepAddRelayTag ==
    ASSUME Inv, AddRelayTag
    PROVE  Inv'
<1>1. /\ steps # <<>> /\ Place = "transit" /\ ~Busy /\ Settled
      /\ mode \in {"start", "rebuild", "keep", "close"} /\ Place \in DOMAIN After[mode]
  BY AtMethod DEF AddRelayTag
<1>2. /\ UNCHANGED <<source, info, subs, tag, relayOn, mode, new, core>>
      /\ rtag'.relay = TRUE
      /\ \/ Panic
         \/ Fails
         \/ RelayTodo(todo', new.list, rtag') /\ UNCHANGED <<status, steps, past>>
  BY RelayTagMakes
<1>3. CASE Panic
  BY <1>1, <1>2, <1>3, Panics
<1>4. CASE Fails
  <2>1. mode # "close"
    BY <1>1 DEF After
  <2> QED
    BY <1>1, <1>2, <1>4, <2>1, Failings
<1>5. CASE RelayTodo(todo', new.list, rtag') /\ UNCHANGED <<status, steps, past>>
  <2>1. Relaying'
    BY <1>2, <1>5, RelayTodoRelays
  <2>2. Busy'
    BY <1>5 DEF RelayTodo, Busy
  <2>3. Typed' /\ Known' /\ Place' = Place
    BY <1>1, <1>2, <1>5, MethodTyped DEF Place
  <2>4. Left'
    BY <1>1, <2>1, <2>3 DEF Left
  <2> QED
    BY <1>1, <1>2, <1>5, <2>2, <2>3, <2>4, Makings
<1> QED
  BY <1>2, <1>3, <1>4, <1>5

\* The server relayed to cannot be read.
LEMMA StepNoTransit ==
    ASSUME Inv, NoTransit
    PROVE  Inv'
<1>1. /\ steps # <<>> /\ Place = "transit" /\ ~Busy /\ Settled
      /\ mode \in {"start", "rebuild", "keep", "close"} /\ Place \in DOMAIN After[mode]
  BY AtMethod DEF NoTransit
<1>2. mode # "close"
  BY <1>1 DEF After
<1> QED
  BY <1>1, <1>2, Failings DEF NoTransit, ctrl

\* The inbound and the blackhole are built from the record taken over.
LEMMA NewIsInfo ==
    ASSUME Inv, At("inbound") \/ At("blackhole")
    PROVE  new.info = info /\ mode # "close"
<1>1. /\ Place \in {"inbound", "blackhole"}
      /\ mode \in {"start", "rebuild", "keep", "close"} /\ Place \in DOMAIN After[mode]
  BY AtMethod
<1>2. mode # "close"
  BY <1>1 DEF After
<1> QED
  BY <1>1, <1>2 DEF Inv, Known, In

\* AddTag begins, fails or panics.
LEMMA StepAddTag ==
    ASSUME Inv, AddTag
    PROVE  Inv'
<1>1. /\ steps # <<>> /\ Place = "inbound" /\ ~Busy /\ Settled /\ mode # "close"
      /\ new.info = info
  BY AtMethod, NewIsInfo DEF AddTag
<1>2. UNCHANGED <<source, info, subs, tag, rtag, relayOn, mode, new, core>>
  BY DEF AddTag, ctrl
<1>3. PICK n \in info :
          \/ Panic
          \/ Fails
          \/ Makes(Call("addInbound", tag)
                     \o (IF OutboundBuilds(n) THEN Call("addOutbound", Own(tag))
                         ELSE Call("refused", tag))
                     \o (IF Direct(n) THEN Call("addRule", DefaultRouterBuilder(tag))
                         ELSE NoCalls))
  BY <1>1, Zenon DEF AddTag
<1>4. CASE Panic
  BY <1>1, <1>2, <1>4, Panics
<1>5. CASE Fails
  BY <1>1, <1>2, <1>5, Failings
<1>6. CASE Makes(Call("addInbound", tag)
                     \o (IF OutboundBuilds(n) THEN Call("addOutbound", Own(tag))
                         ELSE Call("refused", tag))
                     \o (IF Direct(n) THEN Call("addRule", DefaultRouterBuilder(tag))
                         ELSE NoCalls))
  <2>1. PICK c \in AddsOwn :
            (IF OutboundBuilds(n) THEN Call("addOutbound", Own(tag)) ELSE Call("refused", tag)) = <<c>>
    BY OneCall DEF AddsOwn
  <2>2. todo' = Append(<<AddsInbound>> \o <<c>> \o (IF Direct(n) THEN <<AddsDefault>> ELSE <<>>), Return)
    BY <1>6, <2>1, OneCall, Zenon DEF Makes, Return, TheCall, AddsInbound, AddsDefault, NoCalls
  <2>3. todo' # <<>> /\ Head(todo') = AddsInbound /\ Listening'
    <3>1. CASE Direct(n)
      <4>1. todo' = <<AddsInbound, c, AddsDefault, Return>>
        <5>1. todo' = Append(<<AddsInbound>> \o <<c>> \o <<AddsDefault>>, Return)
          BY <2>2, <3>1
        <5> QED
          BY <5>1, Todos
      <4>2. Head(todo') = AddsInbound
        BY <4>1
      <4>3. Listening'
        BY <1>2, <4>1, Zenon DEF Listening, AddsOwn, AddsInbound, AddsDefault, Return, TheCall
      <4> QED
        BY <4>1, <4>2, <4>3
    <3>2. CASE ~Direct(n)
      <4>1. todo' = <<AddsInbound, c, Return>>
        <5>1. todo' = Append(<<AddsInbound>> \o <<c>> \o <<>>, Return)
          BY <2>2, <3>2
        <5> QED
          BY <5>1, Todos
      <4>2. Head(todo') = AddsInbound
        BY <4>1
      <4>3. \A m \in info' : ~Direct(m)
        BY <1>2, <3>2 DEF Inv, Known, One
      <4>4. Listening'
        BY <1>2, <4>1, <4>3, Zenon DEF Listening, AddsOwn, AddsInbound, Return, TheCall
      <4> QED
        BY <4>1, <4>2, <4>4
    <3> QED
      BY <3>1, <3>2
  <2>4. UNCHANGED <<status, steps, past>>
    BY <1>6 DEF Makes
  <2>6. Busy' /\ Head(todo').op = "addInbound"
    BY <2>3 DEF Busy, AddsInbound, TheCall
  <2>7. Typed' /\ Known' /\ Place' = Place
    BY <1>1, <1>2, <2>4, MethodTyped DEF Place
  <2>8. Left'
    BY <1>1, <2>3, <2>7 DEF Left
  <2> QED
    BY <1>1, <1>2, <2>4, <2>6, <2>7, <2>8, Makings
<1> QED
  BY <1>3, <1>4, <1>5, <1>6

\* No rule where nothing is blocked, and one that blocks where something is.
BlocksFor(r, n, t) ==
    /\ r.tag = Blackhole(t) /\ r.dest = Blackhole(t)
    /\ r.inbound = t /\ r.users = {} /\ "blocked" \in r.matches
    /\ "plain" \in r.matches => n.rules.port # <<>> /\ Segments(n.rules.port) = {}

BuiltFor(b, n, t) ==
    \/ b = <<>> /\ ~HasBlockingRules(n.rules)
    \/ \E r : b = <<r>> /\ BlocksFor(r, n, t)

\* The rule that BlackHoleRouterBuilder makes, if there is one to make.
LEMMA BlackHoleBuilt ==
    ASSUME NEW n, NEW t, NEW b \in BlackHoleRouterBuilder(n.rules, t)
    PROVE  BuiltFor(b, n, t)
<1> DEFINE p == n.rules.port
           blank == {<<>>, << <<0>> >>}
<1>1. CASE ~HasBlockingRules(n.rules)
  BY <1>1 DEF BlackHoleRouterBuilder, BuiltFor
<1>2. CASE HasBlockingRules(n.rules)
  <2>1. PICK ranges \in IF p \in blank THEN {{}} ELSE parsePortString(p) :
            b = <<[tag |-> Blackhole(t), inbound |-> t, users |-> {}, dest |-> Blackhole(t),
                   matches |-> IF n.rules.lists \/ ranges # {} THEN {"blocked"} ELSE Kinds]>>
    BY <1>2, Zenon DEF BlackHoleRouterBuilder
  <2> DEFINE ms == IF n.rules.lists \/ ranges # {} THEN {"blocked"} ELSE Kinds
             r == [tag |-> Blackhole(t), inbound |-> t, users |-> {}, dest |-> Blackhole(t),
                   matches |-> ms]
  <2>2. "blocked" \in ms
    BY DEF Kinds
  <2>3. ASSUME "plain" \in ms PROVE p # <<>> /\ Segments(p) = {}
    <3>1. ~n.rules.lists /\ ranges = {}
      BY <2>3
    <3>2. p \notin blank
      BY <1>2, <3>1 DEF HasBlockingRules
    <3>3. ranges = {From(seg)..To(seg) : seg \in Segments(p)}
      BY <2>1, <3>2 DEF parsePortString
    <3>4. Segments(p) = {}
      BY <3>1, <3>3
    <3> QED
      BY <3>2, <3>4
  <2> HIDE DEF ms
  <2>4. /\ b = <<r>> /\ r.tag = Blackhole(t) /\ r.dest = Blackhole(t)
        /\ r.inbound = t /\ r.users = {} /\ r.matches = ms
    BY <2>1 DEF ms
  <2> HIDE DEF r
  <2> QED
    BY <2>2, <2>3, <2>4 DEF BuiltFor, BlocksFor
<1> QED
  BY <1>1, <1>2

\* AddBlackHoleRuleTag begins.
LEMMA StepAddBlackHoleRuleTag ==
    ASSUME Inv, AddBlackHoleRuleTag
    PROVE  Inv'
<1>1. /\ steps # <<>> /\ Place = "blackhole" /\ ~Busy /\ Settled /\ mode # "close"
      /\ new.info = info
  BY AtMethod, NewIsInfo DEF AddBlackHoleRuleTag
<1>2. UNCHANGED <<source, info, subs, tag, rtag, relayOn, mode, new, core, status, steps, past>>
  BY DEF AddBlackHoleRuleTag, ctrl, Makes
<1>3. PICK n \in info :
          LET built == BlackHoleRouterBuilder(n.rules, tag)
          IN  Makes(Call("addOutbound", Blackhole(tag))
                    \o (IF built = {} THEN Call("refused", tag)
                        ELSE Calls("addRule", CHOOSE b \in built : TRUE)))
  BY <1>1, Zenon DEF AddBlackHoleRuleTag
<1> DEFINE built == BlackHoleRouterBuilder(n.rules, tag)
<1>4. todo' = Append(<<AddsBlackhole>>
                     \o (IF built = {} THEN <<Refuses>>
                         ELSE Calls("addRule", CHOOSE b \in built : TRUE)), Return)
  <2> HIDE DEF built
  <2>1. \A x : Makes(x) => todo' = Append(x, Return)
    BY DEF Makes, Return, TheCall
  <2>2. Call("addOutbound", Blackhole(tag)) = <<AddsBlackhole>> /\ Call("refused", tag) = <<Refuses>>
    BY OneCall DEF AddsBlackhole, Refuses
  <2>3. CASE built = {}
    BY <1>3, <2>1, <2>2, <2>3 DEF built
  <2>4. CASE built # {}
    BY <1>3, <2>1, <2>2, <2>4 DEF built
  <2> QED
    BY <2>3, <2>4
<1>5. \A m \in info : m = n
  BY DEF Inv, Known, One
<1>6. ASSUME built = {} PROVE todo' # <<>> /\ Blocking'
  <2>1. todo' = <<AddsBlackhole, Refuses, Return>>
    <3>1. todo' = Append(<<AddsBlackhole>> \o <<Refuses>>, Return)
      BY <1>4, <1>6
    <3> QED
      BY <3>1, Todos
  <2>2. Blocking'
    BY <1>2, <2>1, Zenon DEF Blocking, AddsBlackhole, Refuses, Return, TheCall
  <2> QED
    BY <2>1, <2>2
<1>7. ASSUME built # {} PROVE todo' # <<>> /\ Blocking'
  <2>1. PICK b \in built : todo' = Append(<<AddsBlackhole>> \o Calls("addRule", b), Return)
    BY <1>4, <1>7
  <2>2. CASE b = <<>> /\ ~HasBlockingRules(n.rules)
    <3>1. Calls("addRule", b) = <<>>
      BY <2>2 DEF Calls
    <3>2. todo' = <<AddsBlackhole, Return>>
      BY <2>1, <3>1, Todos
    <3>3. ~ToBlock'
      BY <1>2, <1>5, <2>2 DEF ToBlock
    <3>4. Blocking'
      BY <1>2, <3>2, <3>3, Zenon DEF Blocking, AddsBlackhole, Return, TheCall
    <3> QED
      BY <3>2, <3>4
  <2>3. CASE \E r : b = <<r>> /\ BlocksFor(r, n, tag)
    <3>1. PICK r : b = <<r>> /\ BlocksFor(r, n, tag)
      BY <2>3
    <3>2. Calls("addRule", b) = <<TheCall("addRule", r)>>
      BY <3>1, OneCall, Zenon DEF Call
    <3>3. todo' = <<AddsBlackhole, TheCall("addRule", r), Return>>
      BY <2>1, <3>2, Todos
    <3>4. BlockRule(r)'
      BY <1>2, <1>5, <3>1 DEF BlockRule, BlocksFor
    <3>5. Blocking'
      <4>1. todo' = <<AddsBlackhole', TheCall("addRule", r), Return'>>
        BY <1>2, <3>3, Zenon DEF AddsBlackhole, Return, TheCall
      <4> QED
        BY <3>4, <4>1, Zenon DEF Blocking, TheCall
    <3> QED
      BY <3>3, <3>5
  <2>4. BuiltFor(b, n, tag)
    BY BlackHoleBuilt
  <2> QED
    BY <2>2, <2>3, <2>4 DEF BuiltFor
<1>8. Busy' /\ Blocking'
  BY <1>6, <1>7 DEF Busy
<1>9. Typed' /\ Known' /\ Place' = Place
  BY <1>1, <1>2, MethodTyped DEF Place
<1>10. Left'
  BY <1>1, <1>8, <1>9 DEF Left
<1> QED
  BY <1>1, <1>2, <1>8, <1>9, <1>10, Makings

-----------------------------------------------------------------------------
(* A call that the core refuses.                                            *)

\* The first call, and what is left after it.
LEMMA Shift ==
    ASSUME NEW s, Sequence(s), s # <<>>
    PROVE  /\ Len(s) \in Nat \ {0} /\ DOMAIN s = 1..Len(s) /\ Head(s) = s[1]
           /\ Sequence(Tail(s)) /\ Len(Tail(s)) = Len(s) - 1
           /\ DOMAIN Tail(s) = 1..Len(s) - 1
           /\ \A i \in 1..Len(s) - 1 : Tail(s)[i] = s[i + 1]
           /\ Len(s) = 1 => Tail(s) = <<>>
<1>1. PICK S : s \in Seq(S)
  BY DEF Sequence
<1>2. /\ Len(s) \in Nat \ {0} /\ DOMAIN s = 1..Len(s) /\ Head(s) = s[1]
  BY <1>1
<1>3. /\ Tail(s) \in Seq(S) /\ Len(Tail(s)) = Len(s) - 1
      /\ \A i \in 1..Len(Tail(s)) : Tail(s)[i] = s[i + 1]
  BY <1>1, HeadTailProperties
<1>4. Sequence(Tail(s))
  BY <1>3 DEF Sequence
<1>5. DOMAIN Tail(s) = 1..Len(s) - 1
  BY <1>3, <1>4, SequenceIs
<1>6. Len(s) = 1 => Tail(s) = <<>>
  <2> SUFFICES ASSUME Len(s) = 1 PROVE Tail(s) = <<>>
    OBVIOUS
  <2>1. \A t \in Seq(S) : t # <<>> => Len(t) \in Nat \ {0}
    BY EmptySeq
  <2>2. PICK t : t = Tail(s)
    OBVIOUS
  <2>3. t \in Seq(S) /\ Len(t) = 0
    BY <1>3, <2>2
  <2> QED
    BY <2>1, <2>2, <2>3
<1> QED
  BY <1>2, <1>3, <1>4, <1>5, <1>6

\* The calls that the core refuses, place by place.
LEMMA SomeRefused ==
    ASSUME Inv, todo # <<>>, Refused(Head(todo))
    PROVE  /\ Settled /\ Place \in {"remove", "transit", "inbound", "blackhole"}
           /\ Place = "remove" => inbounds = {}
           /\ mode = "close" => Place = "remove"
<1>1. /\ steps # <<>> /\ Busy /\ Place \in DOMAIN After[mode]
      /\ mode \in {"start", "rebuild", "keep", "close"}
      /\ Place \in {"unrelay", "unblock", "remove", "transit", "inbound", "blackhole"}
  <2>1. Busy
    BY DEF Busy
  <2>2. Place \in {"unrelay", "unblock", "remove", "transit", "inbound", "blackhole"}
    BY <2>1 DEF Inv, Left
  <2>3. steps # <<>>
    BY <2>2 DEF Place, PlaceOf
  <2> QED
    BY <2>1, <2>2, <2>3, NextPlace, OrderLengths DEF Inv, Typed
<1>2. ASSUME NEW op \in {"delRule", "delOutbound", "relay", "return"}, NEW arg
      PROVE  ~Refused(TheCall(op, arg))
  BY DEF Refused, TheCall
<1>3. Place # "unblock"
  <2> SUFFICES ASSUME Place = "unblock" PROVE FALSE
    OBVIOUS
  <2>1. todo \in {Unblock1, Unblock2, Unblock3}
    BY <1>1 DEF Inv, Left
  <2>2. Head(todo) \in {Return, TheCall("delOutbound", Blackhole(tag)), TheCall("delRule", Blackhole(tag))}
    BY <2>1 DEF Unblock1, Unblock2, Unblock3
  <2> QED
    BY <1>2, <2>2 DEF Return
<1>4. Place # "unrelay"
  <2> SUFFICES ASSUME Place = "unrelay" PROVE FALSE
    OBVIOUS
  <2>1. Unrelaying
    BY <1>1 DEF Inv, Left
  <2>2. /\ Len(todo) \in Nat \ {0} /\ Head(todo) = todo[1]
        /\ todo[Len(todo)] = Return /\ \A i \in 1..Len(todo) - 1 : Unrelays(todo[i])
    BY <2>1, Shift DEF Unrelaying
  <2>3. Head(todo) = Return \/ Unrelays(Head(todo))
    BY <2>2
  <2> QED
    BY <2>3 DEF Unrelays, Refused, Return, TheCall
<1>5. CASE Place = "remove"
  <2>1. todo \in {Remove1, Remove2, Remove3, Remove4}
    BY <1>1, <1>5 DEF Inv, Left
  <2>2. todo = Remove4
    <3>1. \/ todo = Remove4
          \/ Head(todo) \in {Return, TheCall("delRule", DefaultTag), TheCall("delOutbound", Own(tag))}
      BY <2>1 DEF Remove1, Remove2, Remove3
    <3> QED
      BY <1>2, <3>1 DEF Return
  <2>3. Head(todo) = TheCall("delInbound", tag)
    BY <2>2 DEF Remove4
  <2>4. tag \notin inbounds
    BY <2>3 DEF Refused, TheCall
  <2>5. inbounds = {}
    BY <2>4 DEF Inv, Inbound
  <2>6. todo # Remove2 /\ todo # Remove3
    BY <2>2 DEF Remove2, Remove3, Remove4
  <2>7. Settled
    BY <1>5, <2>5, <2>6 DEF Inv, Inbound, Settled
  <2> QED
    BY <1>5, <2>5, <2>7
<1>6. CASE Place \in {"transit", "blackhole"}
  <2>1. mode # "close"
    BY <1>1, <1>6 DEF After
  <2>2. Settled
    BY <1>6 DEF Inv, Inbound, Settled
  <2> QED
    BY <1>6, <2>1, <2>2
<1>7. CASE Place = "inbound"
  <2>1. mode # "close"
    BY <1>1, <1>7 DEF After
  <2>2. todo = <<AddsDefault, Return>> => DefaultTag \in Rules
    <3> SUFFICES ASSUME todo = <<AddsDefault, Return>> PROVE DefaultTag \in Rules
      OBVIOUS
    <3>1. Head(todo) = AddsDefault
      OBVIOUS
    <3> QED
      BY <3>1 DEF Refused, AddsDefault, TheCall, DefaultRouterBuilder, DefaultTag
  <2>3. Settled
    BY <1>7, <2>2 DEF Inv, Inbound, Settled
  <2> QED
    BY <1>7, <2>1, <2>3
<1> QED
  BY <1>1, <1>3, <1>4, <1>5, <1>6, <1>7

\* The core refuses a call.
LEMMA StepCallRefused ==
    ASSUME Inv, CallRefused
    PROVE  Inv'
<1>1. todo # <<>> /\ Refused(Head(todo)) /\ Fails
  BY DEF CallRefused
<1>2. /\ Settled /\ Place \in {"remove", "transit", "inbound", "blackhole"}
      /\ Place = "remove" => inbounds = {}
      /\ mode = "close" => Place = "remove"
  BY <1>1, SomeRefused
<1>3. steps # <<>>
  <2>1. Place \in {"unrelay", "unblock", "remove", "transit", "inbound", "blackhole"}
    BY <1>1 DEF Inv, Left, Busy
  <2> QED
    BY <2>1 DEF Place, PlaceOf
<1> QED
  BY <1>1, <1>2, <1>3, Failings DEF CallRefused, ctrl

-----------------------------------------------------------------------------
(* The router's list of rules.                                              *)

\* The router with one rule less: the rest of them, in their order.
LEMMA Removed ==
    ASSUME NEW s, Sequence(s), NEW i \in DOMAIN s
    PROVE  LET r == RemoveAt(s, i)
           IN  /\ Sequence(r) /\ DOMAIN r = 1..Len(s) - 1
               /\ \A k \in 1..Len(s) - 1 : r[k] = IF k < i THEN s[k] ELSE s[k + 1]
<1>1. PICK S : s \in Seq(S)
  BY DEF Sequence
<1>2. Len(s) \in Nat /\ i \in 1..Len(s) /\ \A k \in 1..Len(s) : s[k] \in S
  BY <1>1
<1>3. PICK a : a = SubSeq(s, 1, i - 1)
  OBVIOUS
<1>4. PICK b : b = SubSeq(s, i + 1, Len(s))
  OBVIOUS
<1>5. /\ a \in Seq(S) /\ Len(a) = i - 1
      /\ \A k \in 1..i - 1 : a[k] = s[k]
  <2>1. \A k \in 1..i - 1 : s[k] \in S
    BY <1>2
  <2>2. /\ SubSeq(s, 1, i - 1) \in Seq(S)
        /\ Len(SubSeq(s, 1, i - 1)) = IF 1 <= i - 1 THEN (i - 1) - 1 + 1 ELSE 0
        /\ \A k \in 1..(i - 1) - 1 + 1 : SubSeq(s, 1, i - 1)[k] = s[1 + k - 1]
    BY <1>2, <2>1, SubSeqProperties
  <2>3. \A k \in 1..i - 1 : k \in 1..(i - 1) - 1 + 1 /\ 1 + k - 1 = k
    BY <1>2
  <2> QED
    BY <1>2, <1>3, <2>2, <2>3
<1>6. /\ b \in Seq(S) /\ Len(b) = Len(s) - i
      /\ \A k \in 1..Len(s) - i : b[k] = s[i + k]
  <2>1. \A k \in i + 1..Len(s) : s[k] \in S
    BY <1>2
  <2>2. /\ SubSeq(s, i + 1, Len(s)) \in Seq(S)
        /\ Len(SubSeq(s, i + 1, Len(s))) = IF i + 1 <= Len(s) THEN Len(s) - (i + 1) + 1 ELSE 0
        /\ \A k \in 1..Len(s) - (i + 1) + 1 : SubSeq(s, i + 1, Len(s))[k] = s[(i + 1) + k - 1]
    BY <1>2, <2>1, SubSeqProperties
  <2>3. \A k \in 1..Len(s) - i : k \in 1..Len(s) - (i + 1) + 1 /\ (i + 1) + k - 1 = i + k
    BY <1>2
  <2> QED
    BY <1>2, <1>4, <2>2, <2>3
<1>7. PICK r : r = a \o b
  OBVIOUS
<1>8. /\ r \in Seq(S) /\ Len(r) = Len(a) + Len(b)
      /\ \A k \in 1..Len(a) : r[k] = a[k]
      /\ \A k \in 1..Len(b) : r[Len(a) + k] = b[k]
  <2>1. a \in Seq(S) /\ b \in Seq(S)
    BY <1>5, <1>6
  <2> QED
    BY <1>7, <2>1, Joined
<1>9. ASSUME NEW k \in 1..Len(s) - 1
      PROVE  r[k] = IF k < i THEN s[k] ELSE s[k + 1]
  <2>1. CASE k < i
    <3>1. k \in 1..i - 1
      BY <1>2, <2>1
    <3> QED
      BY <1>5, <1>8, <2>1, <3>1
  <2>2. CASE ~(k < i)
    <3> DEFINE j == k - (i - 1)
    <3>1. j \in 1..Len(s) - i /\ k = (i - 1) + j /\ i + j = k + 1
      BY <1>2, <2>2
    <3> HIDE DEF j
    <3>2. r[(i - 1) + j] = b[j] /\ b[j] = s[i + j]
      BY <1>5, <1>6, <1>8, <3>1
    <3> QED
      BY <2>2, <3>1, <3>2
  <2> QED
    BY <2>1, <2>2
<1>10. Sequence(r) /\ Len(r) = Len(s) - 1
  BY <1>2, <1>5, <1>6, <1>8 DEF Sequence
<1>11. DOMAIN r = 1..Len(s) - 1
  BY <1>10, SequenceIs
<1>12. r = RemoveAt(s, i)
  BY <1>3, <1>4, <1>7 DEF RemoveAt
<1> QED
  BY <1>9, <1>10, <1>11, <1>12

\* The router without one rule: no two share a tag, and the order is kept.
LEMMA WithoutRule ==
    ASSUME Ours, NEW t, NEW r, r = Without(t)
    PROVE  /\ Sequence(r) /\ \A k, l \in DOMAIN r : r[k].tag = r[l].tag => k = l
           /\ \A k, l \in DOMAIN r : \E i, j \in DOMAIN rules :
                 r[k] = rules[i] /\ r[l] = rules[j] /\ (i < j => k < l)
<1>1. /\ Len(rules) \in Nat /\ DOMAIN rules = 1..Len(rules) /\ Sequence(rules)
      /\ \A k, l \in DOMAIN rules : rules[k].tag = rules[l].tag => k = l
  BY SequenceIs DEF Ours, IsInjective
<1>2. CASE t \notin Rules
  BY <1>1, <1>2 DEF Without, Rules
<1>3. CASE t \in Rules
  <2>1. PICK i \in DOMAIN rules : rules[i].tag = t /\ Without(t) = RemoveAt(rules, i)
    BY <1>3 DEF Without, Rules
  <2>3. /\ Sequence(r) /\ DOMAIN r = 1..Len(rules) - 1
        /\ \A k \in 1..Len(rules) - 1 : r[k] = IF k < i THEN rules[k] ELSE rules[k + 1]
    BY <1>1, <2>1, Removed
  <2> DEFINE at(k) == IF k < i THEN k ELSE k + 1
  <2>4. ASSUME NEW k \in DOMAIN r PROVE at(k) \in DOMAIN rules /\ at(k) # i /\ r[k] = rules[at(k)]
    BY <1>1, <2>3
  <2>5. ASSUME NEW k \in DOMAIN r, NEW l \in DOMAIN r, r[k].tag = r[l].tag PROVE k = l
    <3>1. at(k) = at(l)
      BY <1>1, <2>4, <2>5
    <3> QED
      BY <2>3, <3>1
  <2>10. ASSUME NEW k \in DOMAIN r, NEW l \in DOMAIN r, at(k) < at(l) PROVE k < l
    BY <1>1, <2>3, <2>10
  <2> HIDE DEF at
  <2>11. \A k, l \in DOMAIN r : \E m, j \in DOMAIN rules :
                     r[k] = rules[m] /\ r[l] = rules[j] /\ (m < j => k < l)
    BY <2>4, <2>10
  <2> QED
    BY <2>3, <2>5, <2>11
<1> QED
  BY <1>2, <1>3

\* The tags of the rest.
LEMMA WithoutTags ==
    ASSUME Ours, NEW t, NEW r, r = Without(t), NEW x
    PROVE  x \in Rules /\ x # t <=> \E k \in DOMAIN r : r[k].tag = x
<1>1. /\ Len(rules) \in Nat /\ DOMAIN rules = 1..Len(rules) /\ Sequence(rules)
      /\ \A k, l \in DOMAIN rules : rules[k].tag = rules[l].tag => k = l
  BY SequenceIs DEF Ours, IsInjective
<1>2. CASE t \notin Rules
  BY <1>2 DEF Without, Rules
<1>3. CASE t \in Rules
  <2>1. PICK i \in DOMAIN rules : rules[i].tag = t /\ Without(t) = RemoveAt(rules, i)
    BY <1>3 DEF Without, Rules
  <2>3. /\ Sequence(r) /\ DOMAIN r = 1..Len(rules) - 1
        /\ \A k \in 1..Len(rules) - 1 : r[k] = IF k < i THEN rules[k] ELSE rules[k + 1]
    BY <1>1, <2>1, Removed
  <2> DEFINE at(k) == IF k < i THEN k ELSE k + 1
  <2>4. ASSUME NEW k \in DOMAIN r PROVE at(k) \in DOMAIN rules /\ at(k) # i /\ r[k] = rules[at(k)]
    BY <1>1, <2>3
  <2>6. ASSUME NEW l \in DOMAIN rules, l # i PROVE \E k \in DOMAIN r : at(k) = l
    <3>1. CASE l < i
      <4>1. l \in DOMAIN r /\ at(l) = l
        BY <1>1, <2>3, <3>1
      <4> QED
        BY <4>1
    <3>2. CASE ~(l < i)
      <4>1. l - 1 \in DOMAIN r /\ at(l - 1) = l
        BY <1>1, <2>3, <2>6, <3>2
      <4> QED
        BY <4>1
    <3> QED
      BY <3>1, <3>2
  <2> HIDE DEF at
  <2>7. \A k \in DOMAIN r : r[k].tag \in Rules /\ r[k].tag # t
    BY <1>1, <2>1, <2>4 DEF Rules
  <2>8. \A y : y \in Rules /\ y # t => \E k \in DOMAIN r : r[k].tag = y
    BY <2>1, <2>4, <2>6 DEF Rules
  <2> QED
    BY <2>7, <2>8
<1> QED
  BY <1>2, <1>3

\* The router with one rule more, at its end.
LEMMA OneRuleMore ==
    ASSUME Ours, NEW r, r.tag \notin Rules
    PROVE  LET s == Append(rules, r)
           IN  /\ Sequence(s) /\ IsInjective([k \in DOMAIN s |-> s[k].tag])
               /\ {s[k].tag : k \in DOMAIN s} = Rules \cup {r.tag}
               /\ \A k \in DOMAIN s : \/ k \in DOMAIN rules /\ s[k] = rules[k]
                                      \/ k = Len(rules) + 1 /\ s[k] = r
<1>1. PICK S : rules \in Seq(S)
  BY DEF Ours, Sequence
<1>2. rules \in Seq(S \cup {r})
  <2>1. S \subseteq S \cup {r}
    OBVIOUS
  <2> QED
    BY <1>1, <2>1, SeqMonotonic
<1>3. PICK s : s = Append(rules, r)
  OBVIOUS
<1>4. /\ s \in Seq(S \cup {r}) /\ Len(s) = Len(rules) + 1
      /\ \A k \in 1..Len(rules) : s[k] = rules[k]
      /\ s[Len(rules) + 1] = r
      /\ Len(rules) \in Nat /\ DOMAIN rules = 1..Len(rules)
      /\ DOMAIN s = 1..Len(rules) + 1
  BY <1>2, <1>3, AppendProperties, LenProperties
<1>5. \A k \in DOMAIN s : \/ k \in DOMAIN rules /\ s[k] = rules[k]
                          \/ k = Len(rules) + 1 /\ s[k] = r
  BY <1>4
<1>6. \A k \in DOMAIN rules : k \in DOMAIN s /\ s[k] = rules[k]
  BY <1>4
<1>7. Len(rules) + 1 \in DOMAIN s /\ s[Len(rules) + 1] = r
  BY <1>4
<1>8. Sequence(s)
  BY <1>4 DEF Sequence
<1>9. {s[k].tag : k \in DOMAIN s} = Rules \cup {r.tag}
  BY <1>5, <1>6, <1>7 DEF Rules
<1>10. \A k, l \in DOMAIN rules : rules[k].tag = rules[l].tag => k = l
  BY DEF Ours, IsInjective
<1>11. \A k \in DOMAIN rules : rules[k].tag # r.tag
  BY DEF Rules
<1>12. \A k, l \in DOMAIN s : s[k].tag = s[l].tag => k = l
  BY <1>5, <1>10, <1>11
<1>13. IsInjective([k \in DOMAIN s |-> s[k].tag])
  BY <1>12 DEF IsInjective
<1> QED
  BY <1>3, <1>5, <1>8, <1>9, <1>13

-----------------------------------------------------------------------------
(* A call that the core makes.                                              *)

\* What one call does to the core.
LEMMA Effects ==
    ASSUME CallMade, NEW c, c = Head(todo)
    PROVE  /\ todo # <<>> /\ ~Refused(c) /\ todo' = Tail(todo)
           /\ UNCHANGED <<source, info, subs, tag, rtag, status, mode, new, past>>
           /\ steps' = IF c.op = "return" THEN Tail(steps) ELSE steps
           /\ relayOn' = IF c.op = "relay" THEN c.arg ELSE relayOn
           /\ c.op = "addInbound" => inbounds' = inbounds \cup {c.arg}
           /\ c.op = "delInbound" => inbounds' = inbounds \ {c.arg}
           /\ c.op \notin {"addInbound", "delInbound"} => inbounds' = inbounds
           /\ c.op = "addOutbound" => outbounds' = outbounds \cup {c.arg}
           /\ c.op = "delOutbound" => outbounds' = outbounds \ {c.arg}
           /\ c.op \notin {"addOutbound", "delOutbound"} => outbounds' = outbounds
           /\ c.op = "addRule" => rules' = Append(rules, c.arg) /\ c.arg.tag \notin Rules
           /\ c.op = "delRule" => rules' = Without(c.arg)
           /\ c.op \notin {"addRule", "delRule"} => rules' = rules
  BY DEF CallMade, ctrl, Refused

\* The core's default is an outbound that is there, or none of this node's.
LEMMA FirstStays ==
    ASSUME CallMade, first \in outbounds \cup {CoreDefault, Nowhere}
    PROVE  first' \in outbounds' \cup {CoreDefault, Nowhere}
<1> DEFINE c == Head(todo)
<1>1. CASE c.op = "addOutbound"
  <2>1. outbounds' = outbounds \cup {c.arg} /\ first' \in {first, c.arg}
    BY <1>1 DEF CallMade
  <2> QED
    BY <2>1
<1>2. CASE c.op = "delOutbound"
  <2>1. outbounds' = outbounds \ {c.arg} /\ first' = IF first = c.arg THEN Nowhere ELSE first
    BY <1>2 DEF CallMade
  <2> QED
    BY <2>1
<1>3. CASE c.op \notin {"addOutbound", "delOutbound"}
  <2>1. outbounds' = outbounds /\ first' = first
    BY <1>3 DEF CallMade
  <2> QED
    BY <2>1
<1> QED
  BY <1>1, <1>2, <1>3

\* A call is made and the method is not left: types and records stay.
LEMMA MadeTyped ==
    ASSUME Inv, CallMade, NEW c, c = Head(todo), c.op # "return",
           c.op = "relay" => c.arg \in BOOLEAN /\ (c.arg => rtag.relay = TRUE)
    PROVE  Typed' /\ Known' /\ Place' = Place /\ steps' = steps
<1>1. /\ UNCHANGED <<source, info, subs, tag, rtag, status, mode, new, past, steps>>
      /\ relayOn' = IF c.op = "relay" THEN c.arg ELSE relayOn
  BY Effects
<1>2. first' \in outbounds' \cup {CoreDefault, Nowhere}
  BY FirstStays DEF Inv, Typed
<1>3. Typed'
  BY <1>1, <1>2 DEF Inv, Typed, source
<1>4. Place' = Place
  BY <1>1 DEF Place
<1>5. Known'
  BY <1>1, <1>4 DEF Inv, Known, In
<1> QED
  BY <1>1, <1>3, <1>4, <1>5

\* What becomes of the tags of the rules.
LEMMA MadeRules ==
    ASSUME Ours, CallMade, NEW c, c = Head(todo)
    PROVE  Rules' = CASE c.op = "addRule" -> Rules \cup {c.arg.tag}
                      [] c.op = "delRule" -> Rules \ {c.arg}
                      [] OTHER -> Rules
<1>1. CASE c.op = "addRule"
  <2>1. rules' = Append(rules, c.arg) /\ c.arg.tag \notin Rules
    BY <1>1, Effects
  <2>2. Rules' = Rules \cup {c.arg.tag}
    BY <2>1, OneRuleMore DEF Rules
  <2> QED
    BY <1>1, <2>2
<1>2. CASE c.op = "delRule"
  <2>1. rules' = Without(c.arg)
    BY <1>2, Effects
  <2>2. \A x : x \in Rules /\ x # c.arg <=> \E k \in DOMAIN rules' : rules'[k].tag = x
    BY <2>1, WithoutTags
  <2>3. Rules' = Rules \ {c.arg}
    BY <2>2 DEF Rules
  <2> QED
    BY <1>2, <2>3
<1>3. CASE c.op \notin {"addRule", "delRule"}
  <2>1. rules' = rules
    BY <1>3, Effects
  <2>2. Rules' = Rules
    BY <2>1 DEF Rules
  <2> QED
    BY <1>3, <2>2
<1> QED
  BY <1>1, <1>2, <1>3

\* A call leaves in the core only what is this tag's or a relay's.
LEMMA MadeOurs ==
    ASSUME Inv, CallMade, NEW c, c = Head(todo),
           c.op = "addRule" => KnownRule(c.arg) /\ (RelayRule(c.arg) => c.arg.tag \in outbounds),
           c.op = "addOutbound" => c.arg \in {Own(tag), Blackhole(tag)} \/ c.arg.of.relay = TRUE,
           c.op = "delOutbound" => c.arg \notin Rules \/ c.arg.of.relay = FALSE
    PROVE  Ours'
<1>1. Ours /\ info' = info /\ tag' = tag
  BY Effects DEF Inv
<1>2. \A r : /\ KnownRule(r)' <=> KnownRule(r)
             /\ RelayRule(r)' <=> RelayRule(r)
  BY <1>1 DEF KnownRule, RelayRule, BlockRule
<1>3. CASE c.op = "addRule"
  <2>1. rules' = Append(rules, c.arg) /\ c.arg.tag \notin Rules /\ outbounds' = outbounds
    BY <1>3, Effects
  <2>2. /\ Sequence(rules') /\ IsInjective([k \in DOMAIN rules' |-> rules'[k].tag])
        /\ \A k \in DOMAIN rules' : \/ k \in DOMAIN rules /\ rules'[k] = rules[k]
                                    \/ k = Len(rules) + 1 /\ rules'[k] = c.arg
    BY <1>1, <2>1, OneRuleMore
  <2>3. ASSUME NEW k \in DOMAIN rules'
        PROVE  KnownRule(rules'[k]) /\ (RelayRule(rules'[k]) => rules'[k].tag \in outbounds)
    BY <1>1, <1>3, <2>2 DEF Ours
  <2> QED
    BY <1>1, <1>2, <2>1, <2>2, <2>3 DEF Ours
<1>4. CASE c.op = "delRule"
  <2>1. rules' = Without(c.arg) /\ outbounds' = outbounds
    BY <1>4, Effects
  <2>2. /\ Sequence(rules') /\ \A k, l \in DOMAIN rules' : rules'[k].tag = rules'[l].tag => k = l
        /\ \A k, l \in DOMAIN rules' : \E i, j \in DOMAIN rules :
                     rules'[k] = rules[i] /\ rules'[l] = rules[j] /\ (i < j => k < l)
    BY <1>1, <2>1, WithoutRule
  <2>5. IsInjective([k \in DOMAIN rules' |-> rules'[k].tag])
    BY <2>2 DEF IsInjective
  <2>3. \A k \in DOMAIN rules' : \E i \in DOMAIN rules : rules'[k] = rules[i]
    BY <2>2
  <2>4. ASSUME NEW k \in DOMAIN rules'
        PROVE  KnownRule(rules'[k]) /\ (RelayRule(rules'[k]) => rules'[k].tag \in outbounds)
    BY <1>1, <2>3 DEF Ours
  <2> QED
    BY <1>1, <1>2, <2>1, <2>2, <2>4, <2>5 DEF Ours
<1>5. CASE c.op = "addOutbound"
  <2>1. rules' = rules /\ outbounds' = outbounds \cup {c.arg}
    BY <1>5, Effects
  <2> QED
    BY <1>1, <1>2, <1>5, <2>1 DEF Ours
<1>6. CASE c.op = "delOutbound"
  <2>1. rules' = rules /\ outbounds' = outbounds \ {c.arg}
    BY <1>6, Effects
  <2>2. \A k \in DOMAIN rules : RelayRule(rules[k]) => rules[k].tag # c.arg
    BY <1>6 DEF RelayRule, Rules
  <2> QED
    BY <1>1, <1>2, <2>1, <2>2 DEF Ours
<1>7. CASE c.op \notin {"addRule", "delRule", "addOutbound", "delOutbound"}
  <2>1. rules' = rules /\ outbounds' = outbounds
    BY <1>7, Effects
  <2> QED
    BY <1>1, <1>2, <2>1 DEF Ours
<1> QED
  BY <1>3, <1>4, <1>5, <1>6, <1>7

\* A call of a relay does not touch the inbound's tags.
LEMMA MadeForRelay ==
    ASSUME Inv, CallMade, NEW c, c = Head(todo), Place \in {"unrelay", "transit"}, Place' = Place,
           c.op = "addRule" => c.arg.tag.of.relay = TRUE,
           c.op \in {"delRule", "addOutbound", "delOutbound"} => c.arg.of.relay = TRUE,
           c.op \notin {"addInbound", "delInbound"}
    PROVE  Inbound' /\ BlackholeInv'
<1>1. /\ UNCHANGED <<info, tag, status, mode>> /\ inbounds' = inbounds
  BY Effects
<1>2. tag.relay = FALSE
  BY DEF Inv, Known
<1>3. ASSUME NEW o, o.of.relay = FALSE
      PROVE  (o \in outbounds' <=> o \in outbounds) /\ (o \in Rules' <=> o \in Rules)
  <2>1. o \in outbounds' <=> o \in outbounds
    BY <1>3, Effects
  <2>2. o \in Rules' <=> o \in Rules
    BY <1>3, MadeRules DEF Inv
  <2> QED
    BY <2>1, <2>2
<1>4. /\ Own(tag).of.relay = FALSE /\ Blackhole(tag).of.relay = FALSE /\ DefaultTag.of.relay = FALSE
      /\ DefaultTag' = DefaultTag /\ ToDirect' = ToDirect
  BY <1>1, <1>2 DEF Own, Blackhole, DefaultTag, ToDirect
<1>5. /\ Own(tag') \in outbounds' <=> Own(tag) \in outbounds
      /\ Blackhole(tag') \in outbounds' <=> Blackhole(tag) \in outbounds
      /\ Blackhole(tag') \in Rules' <=> Blackhole(tag) \in Rules
      /\ DefaultTag' \in Rules' <=> DefaultTag \in Rules
  BY <1>1, <1>3, <1>4
<1>6. NotListening' => NotListening
  BY <1>1 DEF NotListening, In
<1>7. NotBlocking' => NotBlocking
  BY <1>1 DEF NotBlocking, In
<1>8. Inbound'
  BY <1>1, <1>4, <1>5, <1>6 DEF Inv, Inbound
<1>9. BlackholeInv'
  BY <1>1, <1>5, <1>7 DEF Inv, BlackholeInv
<1> QED
  BY <1>8, <1>9

\* A method that has made its calls is left.
LEMMA LastCall ==
    ASSUME Inv, Busy, Head(todo) = Return
    PROVE  todo = <<Return>>
<1>1. Left /\ Place \in {"unrelay", "unblock", "remove", "transit", "inbound", "blackhole"}
  BY DEF Inv, Left
<1>2. Return.op = "return"
  BY DEF Return, TheCall
<1>3. CASE Place = "unblock"
  <2>1. todo \in {Unblock1, Unblock2, Unblock3}
    BY <1>1, <1>3 DEF Left
  <2>2. todo = <<Return>>
    BY <2>1, <1>2 DEF Unblock1, Unblock2, Unblock3, TheCall
  <2> QED
    BY <2>2
<1>4. CASE Place = "remove"
  <2>1. todo \in {Remove1, Remove2, Remove3, Remove4}
    BY <1>1, <1>4 DEF Left
  <2>2. todo = <<Return>>
    BY <2>1, <1>2 DEF Remove1, Remove2, Remove3, Remove4, TheCall
  <2> QED
    BY <2>2
<1>5. CASE Place = "inbound"
  <2>1. Listening
    BY <1>1, <1>5 DEF Left
  <2>2. AddsDefault # Return /\ AddsInbound # Return /\ \A c \in AddsOwn : c # Return
    BY <1>2 DEF AddsDefault, AddsInbound, AddsOwn, TheCall
  <2>3. todo = <<Return>>
    BY <2>1, <2>2 DEF Listening
  <2> QED
    BY <2>3
<1>6. CASE Place = "blackhole"
  <2>1. Blocking
    BY <1>1, <1>6 DEF Left
  <2>2. AddsBlackhole # Return /\ Refuses # Return /\ \A r : TheCall("addRule", r) # Return
    BY <1>2 DEF AddsBlackhole, Refuses, TheCall
  <2>3. todo = <<Return>>
    BY <2>1, <2>2 DEF Blocking
  <2> QED
    BY <2>3
<1>7. CASE Place = "unrelay"
  <2>1. Unrelaying /\ todo # <<>>
    BY <1>1, <1>7 DEF Left, Busy
  <2>2. /\ Len(todo) \in Nat \ {0} /\ Head(todo) = todo[1] /\ Sequence(todo)
    BY <2>1, Shift DEF Unrelaying
  <2>3. ~Unrelays(Return)
    BY <1>2 DEF Unrelays
  <2>4. ASSUME Len(todo) # 1 PROVE FALSE
    <3>1. 1 \in 1..Len(todo) - 1
      BY <2>2, <2>4
    <3>2. Unrelays(todo[1])
      BY <2>1, <3>1 DEF Unrelaying
    <3> QED
      BY <2>2, <2>3, <3>2
  <2> QED
    BY <2>2, <2>4, Tuples DEF Sequence
<1>8. CASE Place = "transit"
  <2>1. Relaying /\ todo # <<>>
    BY <1>1, <1>8 DEF Left, Busy
  <2>2. /\ Len(todo) \in Nat \ {0} /\ Head(todo) = todo[1] /\ Sequence(todo)
    BY <2>1, Shift DEF Relaying
  <2>3. ~AddsRelay(Return)
    BY <1>2 DEF AddsRelay, TheCall
  <2>4. ASSUME Len(todo) # 1 PROVE FALSE
    <3>1. 1 \in 1..Len(todo) - 1
      BY <2>2, <2>4
    <3>2. AddsRelay(todo[1])
      BY <2>1, <3>1 DEF Relaying
    <3> QED
      BY <2>2, <2>3, <3>2
  <2> QED
    BY <2>2, <2>4, Tuples DEF Sequence
<1> QED
  BY <1>1, <1>3, <1>4, <1>5, <1>6, <1>7, <1>8

\* Where a method that is left leads to, mode by mode.
LEMMA ReturnPlaces ==
    ASSUME Inv, CallMade, Head(todo) = Return
    PROVE  /\ todo' = <<>> /\ UNCHANGED <<info, tag, core, mode, status, past>>
           /\ todo = <<Return>>
           /\ \/ mode = "start" /\ Place = "transit" /\ Place' = "blackhole"
              \/ mode = "start" /\ Place = "blackhole" /\ Place' = "inbound"
              \/ mode = "start" /\ Place = "inbound" /\ Place' = "end"
              \/ mode = "rebuild" /\ Place = "unrelay" /\ Place' = "unblock"
              \/ mode = "rebuild" /\ Place = "unblock" /\ Place' = "remove"
              \/ mode = "rebuild" /\ Place = "remove" /\ Place' = "adopt"
              \/ mode = "rebuild" /\ Place = "transit" /\ Place' = "inbound"
              \/ mode = "rebuild" /\ Place = "inbound" /\ Place' = "blackhole"
              \/ mode = "rebuild" /\ Place = "blackhole" /\ Place' = "end"
              \/ mode = "keep" /\ Place = "unrelay" /\ Place' = "adopt"
              \/ mode = "keep" /\ Place = "transit" /\ Place' = "end"
              \/ mode = "close" /\ Place = "unblock" /\ Place' = "remove"
              \/ mode = "close" /\ Place = "remove" /\ Place' = "unrelay"
              \/ mode = "close" /\ Place = "unrelay" /\ Place' = "off"
<1>1. Busy /\ Return.op = "return" /\ todo # <<>>
  BY DEF CallMade, Busy, Return, TheCall
<1>2. /\ todo' = <<>>
      /\ todo = <<Return>>
  BY <1>1, LastCall, Effects
<1>3. /\ Place \in {"unrelay", "unblock", "remove", "transit", "inbound", "blackhole"}
      /\ steps # <<>>
  BY <1>1 DEF Inv, Left, Place, PlaceOf
<1>4. /\ Suffix(mode, Tail(steps)) /\ PlaceOf(Tail(steps)) = After[mode][Place]
      /\ Place \in DOMAIN After[mode] /\ status = "up"
      /\ mode \in {"start", "rebuild", "keep", "close"}
  BY <1>3, NextPlace, OrderLengths DEF Inv, Typed
<1>5. /\ UNCHANGED <<source, info, subs, tag, rtag, status, mode, new, past, relayOn>>
      /\ UNCHANGED <<inbounds, outbounds, rules, first>> /\ steps' = Tail(steps)
  <2>1. UNCHANGED <<source, info, subs, tag, rtag, status, mode, new, past>>
    BY Effects
  <2>2. UNCHANGED <<inbounds, outbounds, rules, relayOn>> /\ steps' = Tail(steps)
    BY <1>1, Effects
  <2>3. first' = first
    BY <1>1 DEF CallMade
  <2> QED
    BY <2>1, <2>2, <2>3
<1>6. Place' = After[mode][Place]
  BY <1>4, <1>5 DEF Place
<1>8. \/ mode = "start" /\ Place = "transit" /\ Place' = "blackhole"
      \/ mode = "start" /\ Place = "blackhole" /\ Place' = "inbound"
      \/ mode = "start" /\ Place = "inbound" /\ Place' = "end"
      \/ mode = "rebuild" /\ Place = "unrelay" /\ Place' = "unblock"
      \/ mode = "rebuild" /\ Place = "unblock" /\ Place' = "remove"
      \/ mode = "rebuild" /\ Place = "remove" /\ Place' = "adopt"
      \/ mode = "rebuild" /\ Place = "transit" /\ Place' = "inbound"
      \/ mode = "rebuild" /\ Place = "inbound" /\ Place' = "blackhole"
      \/ mode = "rebuild" /\ Place = "blackhole" /\ Place' = "end"
      \/ mode = "keep" /\ Place = "unrelay" /\ Place' = "adopt"
      \/ mode = "keep" /\ Place = "transit" /\ Place' = "end"
      \/ mode = "close" /\ Place = "unblock" /\ Place' = "remove"
      \/ mode = "close" /\ Place = "remove" /\ Place' = "unrelay"
      \/ mode = "close" /\ Place = "unrelay" /\ Place' = "off"
  BY <1>3, <1>4, <1>6 DEF After
<1> QED
  BY <1>2, <1>5, <1>8 DEF core

\* Nothing of it is half done then.
LEMMA MadeReturn ==
    ASSUME Inv, CallMade, Head(todo) = Return
    PROVE  Inv'
<1>1. Busy /\ todo # <<>>
  BY DEF CallMade, Busy
<1>2. /\ todo' = <<>>
      /\ todo = <<Return>>
      /\ UNCHANGED <<info, tag, core>>
  BY ReturnPlaces
<1>3. steps # <<>>
  BY <1>1 DEF Inv, Left, Place, PlaceOf
<1>4. Suffix(mode, Tail(steps)) /\ status = "up"
  BY <1>3, NextPlace DEF Inv, Typed
<1>5. /\ UNCHANGED <<source, info, subs, tag, rtag, status, mode, new, past, relayOn>>
      /\ UNCHANGED <<inbounds, outbounds, rules, first>> /\ steps' = Tail(steps)
  <2>1. /\ UNCHANGED <<source, info, subs, tag, rtag, status, mode, new, past>>
        /\ steps' = Tail(steps) /\ UNCHANGED relayOn
    BY Effects DEF Return, TheCall
  <2> QED
    BY <1>2, <2>1 DEF core
<1>7. Typed'
  BY <1>4, <1>5, TypedStays DEF Inv, Typed, source
<1>8. \/ mode = "start" /\ Place = "transit" /\ Place' = "blackhole"
      \/ mode = "start" /\ Place = "blackhole" /\ Place' = "inbound"
      \/ mode = "start" /\ Place = "inbound" /\ Place' = "end"
      \/ mode = "rebuild" /\ Place = "unrelay" /\ Place' = "unblock"
      \/ mode = "rebuild" /\ Place = "unblock" /\ Place' = "remove"
      \/ mode = "rebuild" /\ Place = "remove" /\ Place' = "adopt"
      \/ mode = "rebuild" /\ Place = "transit" /\ Place' = "inbound"
      \/ mode = "rebuild" /\ Place = "inbound" /\ Place' = "blackhole"
      \/ mode = "rebuild" /\ Place = "blackhole" /\ Place' = "end"
      \/ mode = "keep" /\ Place = "unrelay" /\ Place' = "adopt"
      \/ mode = "keep" /\ Place = "transit" /\ Place' = "end"
      \/ mode = "close" /\ Place = "unblock" /\ Place' = "remove"
      \/ mode = "close" /\ Place = "remove" /\ Place' = "unrelay"
      \/ mode = "close" /\ Place = "unrelay" /\ Place' = "off"
  BY ReturnPlaces
<1>9. Known'
  BY <1>5, <1>8, KnownStays DEF Inv, Known, In
<1>10. \A op, arg : op # "return" => TheCall(op, arg) # Return
  BY DEF Return, TheCall
<1>11. todo \notin {Remove2, Remove3} /\ todo # <<AddsDefault, Return>>
  BY <1>10 DEF Remove2, Remove3, AddsDefault
<1>12. Settled
  BY <1>11 DEF Inv, Inbound, Settled
<1>13. todo' \notin {Remove1', Remove2', Remove3'}
  BY <1>2 DEF Remove1, Remove2, Remove3
<1>14. NotListening' => inbounds = {}
  BY <1>2, <1>4, <1>5, <1>8, <1>13 DEF Inv, Inbound, NotListening, In, Remove1
<1>15. NotBlocking' => Blackhole(tag) \notin outbounds
  BY <1>1, <1>2, <1>4, <1>5, <1>8 DEF Inv, BlackholeInv, NotBlocking, In, Unblock1
<1> QED
  BY <1>2, <1>5, <1>7, <1>9, <1>12, <1>14, <1>15, Between DEF core

\* The first call of a relay's that is left, and what follows it.
LEMMA MadeUnrelay ==
    ASSUME Inv, CallMade, Place = "unrelay", Head(todo) # Return
    PROVE  Inv'
<1> DEFINE c == Head(todo)
<1>1. Busy /\ todo # <<>> /\ todo' = Tail(todo) /\ Unrelaying /\ UNCHANGED <<tag, rtag>>
  BY Effects DEF CallMade, Busy, Inv, Left
<1>2. /\ Len(todo) \in Nat \ {0} /\ Head(todo) = todo[1] /\ DOMAIN todo = 1..Len(todo)
      /\ Sequence(todo') /\ Len(todo') = Len(todo) - 1 /\ DOMAIN todo' = 1..Len(todo) - 1
      /\ \A i \in 1..Len(todo) - 1 : todo'[i] = todo[i + 1]
  BY <1>1, Shift DEF Unrelaying
<1>3. Len(todo) # 1
  BY <1>1, <1>2 DEF Unrelaying
<1>4. 1 \in 1..Len(todo) - 1
  BY <1>2, <1>3
<1>5. Unrelays(c)
  BY <1>1, <1>2, <1>4 DEF Unrelaying
<1> HIDE DEF c
<1>6. c = Head(todo)
  BY DEF c
<1>7. /\ c.op \in {"delRule", "delOutbound"} => c.arg.of.relay = TRUE
      /\ c.op = "relay" => c.arg = FALSE
      /\ c.op \in {"delRule", "delOutbound", "relay"}
  BY <1>5 DEF Unrelays
<1>8. Typed' /\ Known' /\ Place' = Place
  BY <1>6, <1>7, MadeTyped
<1>9. c.op = "delOutbound" => c.arg \notin Rules
  <2> SUFFICES ASSUME c.op = "delOutbound", c.arg \in Rules PROVE FALSE
    OBVIOUS
  <2>1. 1 \in DOMAIN todo /\ todo[1] = c
    BY <1>2, <1>6
  <2>2. \E j \in 1..1 - 1 : todo[j] = TheCall("delRule", todo[1].arg)
    BY <1>1, <2>1 DEF Unrelaying
  <2> QED
    BY <2>2
<1>10. Ours'
  BY <1>6, <1>7, <1>9, MadeOurs
<1>11. Inbound' /\ BlackholeInv'
  BY <1>6, <1>7, <1>8, MadeForRelay
<1>12. Rules' = IF c.op = "delRule" THEN Rules \ {c.arg} ELSE Rules
  BY <1>6, <1>7, MadeRules DEF Inv
<1>13. Unrelaying'
  <2>1. todo'[Len(todo')] = Return'
    <3>1. Len(todo) - 1 \in 1..Len(todo) - 1 /\ (Len(todo) - 1) + 1 = Len(todo)
      BY <1>2, <1>3
    <3>2. todo'[Len(todo) - 1] = todo[Len(todo)]
      BY <1>2, <3>1
    <3> QED
      BY <1>1, <1>2, <3>2 DEF Unrelaying, Return
  <2>2. ASSUME NEW i \in 1..Len(todo') - 1 PROVE Unrelays(todo[i])'
    <3>1. i \in 1..Len(todo) - 1 /\ i + 1 \in 1..Len(todo) - 1
      BY <1>2, <2>2
    <3>2. Unrelays(todo[i + 1]) /\ todo'[i] = todo[i + 1]
      BY <1>1, <1>2, <3>1 DEF Unrelaying
    <3> QED
      BY <1>1, <3>2 DEF Unrelays
  <2>3. ASSUME NEW i \in DOMAIN todo', todo'[i].op = "delOutbound", todo'[i].arg \in Rules'
        PROVE  \E j \in 1..i - 1 : todo'[j] = TheCall("delRule", todo'[i].arg)
    <3>1. i + 1 \in DOMAIN todo /\ i \in 1..Len(todo) - 1 /\ todo'[i] = todo[i + 1]
      BY <1>2, <2>3
    <3>2. todo[i + 1].arg \in Rules
      BY <1>12, <2>3, <3>1
    <3>3. PICK j \in 1..(i + 1) - 1 : todo[j] = TheCall("delRule", todo[i + 1].arg)
      BY <1>1, <2>3, <3>1, <3>2 DEF Unrelaying
    <3>4. j # 1
      <4> SUFFICES ASSUME j = 1 PROVE FALSE
        OBVIOUS
      <4>1. c = TheCall("delRule", todo[i + 1].arg)
        BY <1>2, <1>6, <3>3
      <4>2. c.op = "delRule" /\ c.arg = todo'[i].arg
        BY <3>1, <4>1 DEF TheCall
      <4> QED
        BY <1>12, <2>3, <4>2
    <3>5. j - 1 \in 1..i - 1 /\ j - 1 \in 1..Len(todo) - 1 /\ (j - 1) + 1 = j
      BY <1>2, <3>1, <3>3, <3>4
    <3>6. todo'[j - 1] = todo[j]
      BY <1>2, <3>5
    <3>7. todo'[j - 1] = TheCall("delRule", todo'[i].arg)
      BY <3>1, <3>3, <3>6
    <3> QED
      BY <3>5, <3>7
  <2> QED
    BY <1>2, <2>1, <2>2, <2>3 DEF Unrelaying, TheCall
<1>14. Left'
  BY <1>8, <1>13 DEF Left
<1> QED
  BY <1>8, <1>10, <1>11, <1>14 DEF Inv

\* The first call of a relay that is added, and what follows it.
LEMMA MadeTransit ==
    ASSUME Inv, CallMade, Place = "transit", Head(todo) # Return
    PROVE  Inv'
<1> DEFINE c == Head(todo)
<1>1. Busy /\ todo # <<>> /\ todo' = Tail(todo) /\ Relaying /\ UNCHANGED <<tag, rtag, new>>
  BY Effects DEF CallMade, Busy, Inv, Left
<1>2. /\ Len(todo) \in Nat \ {0} /\ Head(todo) = todo[1] /\ DOMAIN todo = 1..Len(todo)
      /\ Sequence(todo') /\ Len(todo') = Len(todo) - 1 /\ DOMAIN todo' = 1..Len(todo) - 1
      /\ \A i \in 1..Len(todo) - 1 : todo'[i] = todo[i + 1]
  BY <1>1, Shift DEF Relaying
<1>3. Len(todo) # 1
  BY <1>1, <1>2 DEF Relaying
<1>4. 1 \in 1..Len(todo) - 1
  BY <1>2, <1>3
<1>5. AddsRelay(c)
  BY <1>1, <1>2, <1>4 DEF Relaying
<1> HIDE DEF c
<1>6. c = Head(todo)
  BY DEF c
<1>7. /\ rtag.relay = TRUE
      /\ c.op \in {"relay", "addOutbound", "addRule"}
      /\ c.op = "relay" => c.arg = TRUE
      /\ c.op = "addOutbound" => c.arg.of = rtag
      /\ c.op = "addRule" => RelayRule(c.arg)
  <2>1. rtag.relay = TRUE
    BY <1>5 DEF AddsRelay
  <2>2. CASE c.op = "relay" /\ c.arg = TRUE
    BY <2>1, <2>2
  <2>3. ASSUME NEW k \in DOMAIN new.list, c = TheCall("addOutbound", RelayOf(rtag, new.list[k]))
        PROVE  c.op = "addOutbound" /\ c.arg.of = rtag
    BY <2>3 DEF TheCall, RelayOf
  <2>4. ASSUME NEW k \in DOMAIN new.list,
               c = TheCall("addRule", RelayRouterBuilder(tag, rtag, new.list[k]))
        PROVE  c.op = "addRule" /\ RelayRule(c.arg)
    <3>1. c.op = "addRule" /\ c.arg = RelayRouterBuilder(tag, rtag, new.list[k])
      BY <2>4 DEF TheCall
    <3>3. PICK t : t = RelayOf(rtag, new.list[k])
      OBVIOUS
    <3>4. PICK u : u = [tag |-> tag, email |-> new.list[k].email, id |-> new.list[k].id]
      OBVIOUS
    <3>5. "id" \in DOMAIN u
      BY <3>4
    <3>6. t.of.relay = TRUE
      BY <2>1, <3>3 DEF RelayOf
    <3>7. c.arg.tag = t /\ c.arg.dest = t /\ c.arg.users = {u}
      BY <3>1, <3>3, <3>4 DEF RelayRouterBuilder
    <3>2. RelayRule(c.arg)
      BY <3>5, <3>6, <3>7 DEF RelayRule
    <3> QED
      BY <3>1, <3>2
  <2> QED
    BY <1>5, <2>1, <2>2, <2>3, <2>4 DEF AddsRelay
<1>8. Typed' /\ Known' /\ Place' = Place
  BY <1>6, <1>7, MadeTyped
<1>9. c.op = "addRule" => c.arg.dest \in outbounds
  <2> SUFFICES ASSUME c.op = "addRule" PROVE c.arg.dest \in outbounds
    OBVIOUS
  <2>1. 1 \in DOMAIN todo /\ todo[1] = c
    BY <1>2, <1>6
  <2>2. c.arg.dest \in outbounds \/ \E j \in 1..1 - 1 : todo[j] = TheCall("addOutbound", todo[1].arg.dest)
    BY <1>1, <2>1 DEF Relaying
  <2> QED
    BY <2>2
<1>10. Ours'
  BY <1>6, <1>7, <1>9, MadeOurs DEF KnownRule, RelayRule
<1>11. Inbound' /\ BlackholeInv'
  BY <1>6, <1>7, <1>8, MadeForRelay DEF RelayRule
<1>12. outbounds \subseteq outbounds' /\ (c.op = "addOutbound" => c.arg \in outbounds')
  BY <1>6, <1>7, Effects
<1>13. Relaying'
  <2>1. todo'[Len(todo')] = Return'
    <3>1. Len(todo) - 1 \in 1..Len(todo) - 1 /\ (Len(todo) - 1) + 1 = Len(todo)
      BY <1>2, <1>3
    <3>2. todo'[Len(todo) - 1] = todo[Len(todo)]
      BY <1>2, <3>1
    <3> QED
      BY <1>1, <1>2, <3>2 DEF Relaying, Return
  <2>2. ASSUME NEW i \in 1..Len(todo') - 1 PROVE AddsRelay(todo[i])'
    <3>1. i \in 1..Len(todo) - 1 /\ i + 1 \in 1..Len(todo) - 1
      BY <1>2, <2>2
    <3>2. AddsRelay(todo[i + 1]) /\ todo'[i] = todo[i + 1]
      BY <1>1, <1>2, <3>1 DEF Relaying
    <3> QED
      BY <1>1, <3>2 DEF AddsRelay
  <2>3. ASSUME NEW i \in DOMAIN todo', todo'[i].op = "addRule", todo'[i].arg.dest \notin outbounds'
        PROVE  \E j \in 1..i - 1 : todo'[j] = TheCall("addOutbound", todo'[i].arg.dest)
    <3>1. i + 1 \in DOMAIN todo /\ i \in 1..Len(todo) - 1 /\ todo'[i] = todo[i + 1]
      BY <1>2, <2>3
    <3>2. todo[i + 1].arg.dest \notin outbounds
      BY <1>12, <2>3, <3>1
    <3>3. PICK j \in 1..(i + 1) - 1 : todo[j] = TheCall("addOutbound", todo[i + 1].arg.dest)
      BY <1>1, <2>3, <3>1, <3>2 DEF Relaying
    <3>4. j # 1
      <4> SUFFICES ASSUME j = 1 PROVE FALSE
        OBVIOUS
      <4>1. c = TheCall("addOutbound", todo[i + 1].arg.dest)
        BY <1>2, <1>6, <3>3
      <4>2. c.op = "addOutbound" /\ c.arg = todo'[i].arg.dest
        BY <3>1, <4>1 DEF TheCall
      <4> QED
        BY <1>12, <2>3, <4>2
    <3>5. j - 1 \in 1..i - 1 /\ j - 1 \in 1..Len(todo) - 1 /\ (j - 1) + 1 = j
      BY <1>2, <3>1, <3>3, <3>4
    <3>6. todo'[j - 1] = todo[j]
      BY <1>2, <3>5
    <3>7. todo'[j - 1] = TheCall("addOutbound", todo'[i].arg.dest)
      BY <3>1, <3>3, <3>6
    <3> QED
      BY <3>5, <3>7
  <2> QED
    BY <1>2, <2>1, <2>2, <2>3 DEF Relaying, TheCall
<1>14. Left'
  BY <1>8, <1>13 DEF Left
<1> QED
  BY <1>8, <1>10, <1>11, <1>14 DEF Inv

\* What an outbound or a rule is tells it from the others.
LEMMA PartsDiffer ==
    /\ Own(tag) # Blackhole(tag) /\ DefaultTag # Blackhole(tag) /\ Own(tag) # DefaultTag
    /\ Known => /\ Own(tag).of.relay = FALSE /\ Blackhole(tag).of.relay = FALSE
                /\ DefaultTag.of.relay = FALSE
  BY DEF Own, Blackhole, DefaultTag, Known

\* A call that leaves the inbound, its outbound and its rule alone.
LEMMA InboundStays ==
    ASSUME Inv, UNCHANGED <<info, tag, status, mode, inbounds>>, Place' = Place,
           Place \notin {"remove", "inbound"},
           Own(tag) \in outbounds' <=> Own(tag) \in outbounds,
           DefaultTag \in Rules' <=> DefaultTag \in Rules
    PROVE  Inbound'
<1>1. DefaultTag' = DefaultTag /\ ToDirect' = ToDirect
  BY DEF DefaultTag, ToDirect
<1>2. NotListening' => NotListening
  BY DEF NotListening, In
<1> QED
  BY <1>1, <1>2 DEF Inv, Inbound

\* One that leaves the blackhole and its rule alone.
LEMMA BlackholeStays ==
    ASSUME Inv, UNCHANGED <<tag, status, mode>>, Place' = Place, Place # "unblock",
           Blackhole(tag) \in outbounds' <=> Blackhole(tag) \in outbounds,
           Blackhole(tag) \in Rules' <=> Blackhole(tag) \in Rules
    PROVE  BlackholeInv'
<1>1. NotBlocking' => NotBlocking
  BY DEF NotBlocking, In
<1> QED
  BY <1>1 DEF Inv, BlackholeInv

\* The first call of those that remove the blackhole.
LEMMA MadeUnblock ==
    ASSUME Inv, CallMade, Place = "unblock", Head(todo) # Return
    PROVE  Inv'
<1> DEFINE c == Head(todo)
<1>1. /\ todo \in {Unblock1, Unblock2, Unblock3} /\ todo' = Tail(todo)
      /\ UNCHANGED <<info, tag, status, mode>>
  BY Effects DEF CallMade, Busy, Inv, Left
<1>2. Unblock1' = Unblock1 /\ Unblock2' = Unblock2 /\ Unblock3' = Unblock3
  BY <1>1 DEF Unblock1, Unblock2, Unblock3
<1>3. \/ todo = Unblock2 /\ c = TheCall("delOutbound", Blackhole(tag)) /\ todo' = Unblock1
      \/ todo = Unblock3 /\ c = TheCall("delRule", Blackhole(tag)) /\ todo' = Unblock2
  <2>1. todo # Unblock1
    BY DEF Unblock1
  <2>2. /\ Head(Unblock2) = TheCall("delOutbound", Blackhole(tag)) /\ Tail(Unblock2) = Unblock1
        /\ Head(Unblock3) = TheCall("delRule", Blackhole(tag)) /\ Tail(Unblock3) = Unblock2
    BY DEF Unblock1, Unblock2, Unblock3
  <2> QED
    BY <1>1, <2>1, <2>2
<1>4. /\ \/ c.op = "delOutbound" /\ todo = Unblock2 /\ todo' = Unblock1
         \/ c.op = "delRule" /\ todo = Unblock3 /\ todo' = Unblock2
      /\ c.arg = Blackhole(tag)
  BY <1>3 DEF TheCall
<1> HIDE DEF c
<1>5. c = Head(todo)
  BY DEF c
<1>6. Typed' /\ Known' /\ Place' = Place
  BY <1>4, <1>5, MadeTyped
<1>7. Ours'
  BY <1>4, <1>5, MadeOurs, PartsDiffer DEF Inv
<1>8. Left'
  BY <1>1, <1>2, <1>4, <1>6 DEF Left
<1>9. /\ Rules' = IF c.op = "delRule" THEN Rules \ {Blackhole(tag)} ELSE Rules
      /\ outbounds' = IF c.op = "delOutbound" THEN outbounds \ {Blackhole(tag)} ELSE outbounds
      /\ inbounds' = inbounds
  <2>1. Rules' = IF c.op = "delRule" THEN Rules \ {Blackhole(tag)} ELSE Rules
    BY <1>4, <1>5, MadeRules DEF Inv
  <2> QED
    BY <1>4, <1>5, <2>1, Effects
<1>10. Inbound'
  BY <1>1, <1>6, <1>9, InboundStays, PartsDiffer
<1>11. BlackholeInv'
  <2>1. Unblock1 # Unblock2 /\ Unblock2 # Unblock3
    <3>1. Len(Unblock1) = 1 /\ Len(Unblock2) = 2 /\ Len(Unblock3) = 3
      BY DEF Unblock1, Unblock2, Unblock3
    <3> QED
      BY <3>1
  <2>2. Busy
    BY <1>4 DEF CallMade, Busy
  <2>3. Blackhole(tag) \notin Rules'
    BY <1>4, <1>9, <2>1, <2>2 DEF Inv, BlackholeInv
  <2>4. NotBlocking' => NotBlocking
    BY <1>1, <1>6 DEF NotBlocking, In
  <2>5. todo' = Unblock1' => Blackhole(tag) \notin outbounds'
    BY <1>2, <1>4, <1>9, <2>1
  <2> QED
    BY <1>1, <1>9, <2>3, <2>4, <2>5 DEF Inv, BlackholeInv
<1> QED
  BY <1>6, <1>7, <1>8, <1>10, <1>11 DEF Inv

\* The first call of those that remove the inbound.
LEMMA MadeRemove ==
    ASSUME Inv, CallMade, Place = "remove", Head(todo) # Return
    PROVE  Inv'
<1> DEFINE c == Head(todo)
<1>1. /\ todo \in {Remove1, Remove2, Remove3, Remove4} /\ todo' = Tail(todo)
      /\ UNCHANGED <<info, tag, status, mode>>
  BY Effects DEF CallMade, Busy, Inv, Left
<1>2. /\ Remove1' = Remove1 /\ Remove2' = Remove2 /\ Remove3' = Remove3 /\ Remove4' = Remove4
      /\ DefaultTag' = DefaultTag /\ ToDirect' = ToDirect
  BY <1>1 DEF Remove1, Remove2, Remove3, Remove4, DefaultTag, ToDirect
<1>3. \/ todo = Remove2 /\ c = TheCall("delRule", DefaultTag) /\ todo' = Remove1
      \/ todo = Remove3 /\ c = TheCall("delOutbound", Own(tag)) /\ todo' = Remove2
      \/ todo = Remove4 /\ c = TheCall("delInbound", tag) /\ todo' = Remove3
  <2>1. todo # Remove1
    BY DEF Remove1
  <2>2. /\ Head(Remove2) = TheCall("delRule", DefaultTag) /\ Tail(Remove2) = Remove1
        /\ Head(Remove3) = TheCall("delOutbound", Own(tag)) /\ Tail(Remove3) = Remove2
        /\ Head(Remove4) = TheCall("delInbound", tag) /\ Tail(Remove4) = Remove3
    BY DEF Remove1, Remove2, Remove3, Remove4
  <2> QED
    BY <1>1, <2>1, <2>2
<1>4. \/ c.op = "delRule" /\ c.arg = DefaultTag /\ todo = Remove2 /\ todo' = Remove1
      \/ c.op = "delOutbound" /\ c.arg = Own(tag) /\ todo = Remove3 /\ todo' = Remove2
      \/ c.op = "delInbound" /\ c.arg = tag /\ todo = Remove4 /\ todo' = Remove3
  BY <1>3 DEF TheCall
<1> HIDE DEF c
<1>5. c = Head(todo)
  BY DEF c
<1>6. Typed' /\ Known' /\ Place' = Place
  BY <1>4, <1>5, MadeTyped
<1>7. Ours'
  BY <1>4, <1>5, MadeOurs, PartsDiffer DEF Inv
<1>8. Left'
  BY <1>1, <1>2, <1>4, <1>6 DEF Left
<1>9. /\ Rules' = IF c.op = "delRule" THEN Rules \ {DefaultTag} ELSE Rules
      /\ outbounds' = IF c.op = "delOutbound" THEN outbounds \ {Own(tag)} ELSE outbounds
      /\ inbounds' = IF c.op = "delInbound" THEN inbounds \ {tag} ELSE inbounds
  <2>1. Rules' = IF c.op = "delRule" THEN Rules \ {DefaultTag} ELSE Rules
    BY <1>4, <1>5, MadeRules DEF Inv
  <2> QED
    BY <1>4, <1>5, <2>1, Effects
<1>10. BlackholeInv'
  BY <1>1, <1>6, <1>9, BlackholeStays, PartsDiffer
<1>11. Remove2 # Remove3 /\ Remove4 \notin {Remove1, Remove2, Remove3}
  <2>1. Len(Remove1) = 1 /\ Len(Remove2) = 2 /\ Len(Remove3) = 3 /\ Len(Remove4) = 4
    BY DEF Remove1, Remove2, Remove3, Remove4
  <2> QED
    BY <2>1
<1>12. inbounds' = {}
  BY <1>4, <1>9 DEF Inv, Inbound, NotListening
<1>13. todo = Remove2 => Own(tag) \notin outbounds
  BY <1>4, <1>9, <1>11, <1>12 DEF Inv, Inbound
<1>14. Own(tag) \in outbounds' => todo' = Remove3
  BY <1>4, <1>9, <1>13
<1>15. DefaultTag \in Rules' =>
          /\ todo' \in {Remove2, Remove3}
          /\ Own(tag) \in outbounds' \/ todo' = Remove2
  BY <1>4, <1>9, <1>11 DEF Inv, Inbound
<1>16. Own(tag) \in outbounds' /\ ToDirect => DefaultTag \in Rules'
  BY <1>4, <1>9, <1>13 DEF Inv, Inbound
<1>17. Inbound'
  BY <1>1, <1>2, <1>6, <1>12, <1>14, <1>15, <1>16 DEF Inbound
<1> QED
  BY <1>6, <1>7, <1>8, <1>10, <1>17 DEF Inv

\* Inbound and blackhole are added by a start or a rebuild only.
LEMMA PlacesUp ==
    ASSUME Inv, Place \in {"inbound", "blackhole"}
    PROVE  /\ status = "up" /\ mode \in {"start", "rebuild"}
           /\ Place = "inbound" => ~NotListening
           /\ Place = "blackhole" => ~NotBlocking
<1>1. steps # <<>>
  BY DEF Place, PlaceOf
<1>2. status = "up" /\ mode \in {"start", "rebuild", "keep", "close"} /\ Place \in DOMAIN After[mode]
  BY <1>1, NextPlace, OrderLengths DEF Inv, Typed
<1>3. mode \in {"start", "rebuild"}
  BY <1>2 DEF After
<1>4. Place = "inbound" => ~NotListening
  BY <1>2 DEF NotListening, In
<1>5. Place = "blackhole" => ~NotBlocking
  BY <1>2 DEF NotBlocking, In
<1> QED
  BY <1>2, <1>3, <1>4, <1>5

\* The three calls that AddTag makes, the first of them first.
LEMMA ListeningCall ==
    ASSUME Listening, todo # <<>>, ~Refused(Head(todo)), Head(todo) # Return, todo' = Tail(todo),
           UNCHANGED <<tag, info>>
    PROVE  \/ /\ Head(todo) = AddsDefault /\ todo = <<AddsDefault, Return>>
              /\ todo' = <<Return>> /\ Own(tag) \in outbounds
           \/ /\ Head(todo) = TheCall("addOutbound", Own(tag))
              /\ todo' = <<AddsDefault, Return>> \/ (todo' = <<Return>> /\ ~ToDirect)
           \/ /\ Head(todo) = AddsInbound
              /\ \E c \in AddsOwn :
                    \/ todo' = <<c, AddsDefault, Return>>
                    \/ todo' = <<c, Return>> /\ \A n \in info : ~Direct(n)
<1>1. Head(todo) \in AddsOwn => Head(todo) = TheCall("addOutbound", Own(tag))
  BY DEF AddsOwn, Refused, TheCall
<1>2. CASE todo = <<Return>>
  BY <1>2
<1>3. CASE todo = <<AddsDefault, Return>> /\ Own(tag) \in outbounds
  <2>1. Head(todo) = AddsDefault /\ Tail(todo) = <<Return>>
    BY <1>3
  <2> QED
    BY <1>3, <2>1
<1>4. ASSUME NEW c \in AddsOwn, todo = <<c, AddsDefault, Return>>
      PROVE  Head(todo) = TheCall("addOutbound", Own(tag)) /\ todo' = <<AddsDefault, Return>>
  <2>1. Head(todo) = c /\ Tail(todo) = <<AddsDefault, Return>>
    BY <1>4
  <2> QED
    BY <1>1, <1>4, <2>1
<1>5. ASSUME NEW c \in AddsOwn, todo = <<AddsInbound, c, AddsDefault, Return>>
      PROVE  Head(todo) = AddsInbound /\ todo' = <<c, AddsDefault, Return>>
  <2>1. Head(todo) = AddsInbound /\ Tail(todo) = <<c, AddsDefault, Return>>
    BY <1>5
  <2> QED
    BY <2>1
<1>6. ASSUME NEW c \in AddsOwn, todo = <<c, Return>>, \A n \in info : ~Direct(n)
      PROVE  Head(todo) = TheCall("addOutbound", Own(tag)) /\ todo' = <<Return>> /\ ~ToDirect
  <2>1. Head(todo) = c /\ Tail(todo) = <<Return>>
    BY <1>6
  <2> QED
    BY <1>1, <1>6, <2>1 DEF ToDirect
<1>7. ASSUME NEW c \in AddsOwn, todo = <<AddsInbound, c, Return>>
      PROVE  Head(todo) = AddsInbound /\ todo' = <<c, Return>>
  <2>1. Head(todo) = AddsInbound /\ Tail(todo) = <<c, Return>>
    BY <1>7
  <2> QED
    BY <2>1
<1> QED
  BY <1>2, <1>3, <1>4, <1>5, <1>6, <1>7 DEF Listening

\* The first call of those that add the inbound.
LEMMA MadeInbound ==
    ASSUME Inv, CallMade, Place = "inbound", Head(todo) # Return
    PROVE  Inv'
<1> DEFINE c == Head(todo)
<1>1. /\ Busy /\ Listening /\ todo' = Tail(todo) /\ todo # <<>> /\ ~Refused(c)
      /\ UNCHANGED <<info, tag, status, mode>>
  BY Effects DEF CallMade, Busy, Inv, Left
<1>2. /\ AddsOwn' = AddsOwn /\ AddsDefault' = AddsDefault /\ AddsInbound' = AddsInbound
      /\ DefaultTag' = DefaultTag /\ ToDirect' = ToDirect /\ Return' = Return
  BY <1>1 DEF AddsOwn, AddsDefault, AddsInbound, DefaultTag, ToDirect, Return
<1>3. \/ /\ c = AddsDefault /\ todo = <<AddsDefault, Return>>
         /\ todo' = <<Return>> /\ Own(tag) \in outbounds
      \/ /\ c = TheCall("addOutbound", Own(tag))
         /\ todo' = <<AddsDefault, Return>> \/ (todo' = <<Return>> /\ ~ToDirect)
      \/ /\ c = AddsInbound
         /\ \E d \in AddsOwn :
               \/ todo' = <<d, AddsDefault, Return>>
               \/ todo' = <<d, Return>> /\ \A n \in info : ~Direct(n)
  BY <1>1, ListeningCall
<1> HIDE DEF c
<1>5. c = Head(todo)
  BY DEF c
<1>6. /\ AddsDefault.op = "addRule" /\ AddsDefault.arg = DefaultRouterBuilder(tag)
      /\ AddsInbound.op = "addInbound" /\ AddsInbound.arg = tag
      /\ \A x \in AddsOwn : x.op # "addInbound"
      /\ TheCall("addOutbound", Own(tag)).op = "addOutbound"
      /\ TheCall("addOutbound", Own(tag)).arg = Own(tag)
      /\ Return.op # "addInbound" /\ DefaultRouterBuilder(tag).tag = DefaultTag
      /\ ~RelayRule(DefaultRouterBuilder(tag))
  BY DEF AddsDefault, AddsInbound, AddsOwn, TheCall, Return, DefaultRouterBuilder, DefaultTag, RelayRule
<1>7. /\ c.op \in {"addRule", "addInbound", "addOutbound"}
      /\ c.op = "addRule" => c.arg = DefaultRouterBuilder(tag) /\ todo' = <<Return>>
                             /\ Own(tag) \in outbounds /\ todo = <<AddsDefault, Return>>
      /\ c.op = "addInbound" => c.arg = tag
      /\ c.op = "addOutbound" => c.arg = Own(tag)
  BY <1>3, <1>6
<1>8. Typed' /\ Known' /\ Place' = Place
  BY <1>5, <1>7, MadeTyped
<1>9. Ours'
  BY <1>5, <1>6, <1>7, MadeOurs DEF KnownRule
<1>10. /\ Rules' = IF c.op = "addRule" THEN Rules \cup {DefaultTag} ELSE Rules
       /\ outbounds' = IF c.op = "addOutbound" THEN outbounds \cup {Own(tag)} ELSE outbounds
       /\ inbounds' = IF c.op = "addInbound" THEN inbounds \cup {tag} ELSE inbounds
  <2>1. Rules' = IF c.op = "addRule" THEN Rules \cup {DefaultTag} ELSE Rules
    BY <1>5, <1>6, <1>7, MadeRules DEF Inv
  <2> QED
    BY <1>5, <1>7, <2>1, Effects
<1>11. Left'
  <2>1. Listening'
    <3>1. CASE c = AddsDefault
      BY <1>2, <1>3, <1>6, <1>7, <3>1 DEF Listening
    <3>2. CASE c = TheCall("addOutbound", Own(tag))
      <4>1. Own(tag') \in outbounds' /\ (todo' = <<AddsDefault, Return>> \/ todo' = <<Return>>)
        BY <1>1, <1>3, <1>6, <1>7, <1>10, <3>2
      <4> QED
        BY <1>2, <4>1 DEF Listening
    <3>3. CASE c = AddsInbound
      <4>1. PICK d \in AddsOwn :
               \/ todo' = <<d, AddsDefault, Return>>
               \/ todo' = <<d, Return>> /\ \A n \in info : ~Direct(n)
        BY <1>3, <1>6, <3>3
      <4> QED
        BY <1>1, <1>2, <4>1 DEF Listening
    <3> QED
      BY <1>3, <3>1, <3>2, <3>3
  <2> QED
    BY <1>8, <2>1 DEF Left
<1>12. BlackholeInv'
  BY <1>1, <1>8, <1>10, BlackholeStays, PartsDiffer
<1>13. inbounds' = {tag}
  BY <1>1, <1>5, <1>7, <1>10 DEF Inv, Inbound
<1>14. ~NotListening'
  <2>1. status' = "up" /\ mode' \in {"start", "rebuild"} /\ Place' = "inbound"
    BY <1>1, <1>8, PlacesUp
  <2> QED
    BY <2>1 DEF NotListening, In
<1>15. DefaultTag \in Rules' => Own(tag) \in outbounds'
  BY <1>7, <1>10 DEF Inv, Inbound
<1>16. Own(tag) \in outbounds' /\ ToDirect => DefaultTag \in Rules' \/ todo' = <<AddsDefault, Return>>
  <2>1. CASE c = AddsDefault
    BY <1>6, <1>10, <2>1
  <2>2. CASE c = TheCall("addOutbound", Own(tag))
    BY <1>3, <1>6, <1>7, <2>2
  <2>3. CASE c = AddsInbound
    <3>1. c.op = "addInbound"
      BY <1>6, <2>3
    <3>2. tag \notin inbounds
      BY <1>1, <1>5, <1>7, <3>1 DEF Refused
    <3>3. Own(tag) \notin outbounds
      BY <3>2 DEF Inv, Inbound
    <3> QED
      BY <1>10, <3>1, <3>3
  <2> QED
    BY <1>3, <2>1, <2>2, <2>3
<1>17. Inbound'
  BY <1>1, <1>2, <1>8, <1>13, <1>14, <1>15, <1>16 DEF Inbound
<1> QED
  BY <1>8, <1>9, <1>11, <1>12, <1>17 DEF Inv

\* The two calls that AddBlackHoleRuleTag makes, the first of them first.
LEMMA BlockingCall ==
    ASSUME Blocking, todo # <<>>, ~Refused(Head(todo)), Head(todo) # Return, todo' = Tail(todo)
    PROVE  \/ /\ Head(todo) = AddsBlackhole
              /\ \/ todo' = <<Return>> /\ ~ToBlock
                 \/ todo' = <<Refuses, Return>>
                 \/ \E r : BlockRule(r) /\ todo' = <<TheCall("addRule", r), Return>>
           \/ /\ \E r : BlockRule(r) /\ Head(todo) = TheCall("addRule", r)
              /\ todo' = <<Return>> /\ Blackhole(tag) \in outbounds
<1>1. Head(todo) # Refuses
  BY DEF Refused, Refuses, TheCall
<1>2. CASE todo = <<AddsBlackhole, Return>> /\ ~ToBlock
  <2>1. Head(todo) = AddsBlackhole /\ Tail(todo) = <<Return>>
    BY <1>2
  <2> QED
    BY <1>2, <2>1
<1>3. CASE todo = <<AddsBlackhole, Refuses, Return>>
  <2>1. Head(todo) = AddsBlackhole /\ Tail(todo) = <<Refuses, Return>>
    BY <1>3
  <2> QED
    BY <2>1
<1>4. ASSUME NEW r, BlockRule(r), todo = <<TheCall("addRule", r), Return>>, Blackhole(tag) \in outbounds
      PROVE  Head(todo) = TheCall("addRule", r) /\ todo' = <<Return>>
  <2>1. Head(todo) = TheCall("addRule", r) /\ Tail(todo) = <<Return>>
    BY <1>4
  <2> QED
    BY <2>1
<1>5. ASSUME NEW r, BlockRule(r), todo = <<AddsBlackhole, TheCall("addRule", r), Return>>
      PROVE  Head(todo) = AddsBlackhole /\ todo' = <<TheCall("addRule", r), Return>>
  <2>1. Head(todo) = AddsBlackhole /\ Tail(todo) = <<TheCall("addRule", r), Return>>
    BY <1>5
  <2> QED
    BY <2>1
<1>6. todo # <<Return>> /\ todo # <<Refuses, Return>>
  BY <1>1
<1> QED
  BY <1>2, <1>3, <1>4, <1>5, <1>6 DEF Blocking

\* The first call of those that add the blackhole.
LEMMA MadeBlackhole ==
    ASSUME Inv, CallMade, Place = "blackhole", Head(todo) # Return
    PROVE  Inv'
<1> DEFINE c == Head(todo)
<1>1. /\ Busy /\ Blocking /\ todo' = Tail(todo) /\ todo # <<>> /\ ~Refused(c)
      /\ UNCHANGED <<info, tag, status, mode>>
  BY Effects DEF CallMade, Busy, Inv, Left
<1>2. /\ AddsBlackhole' = AddsBlackhole /\ Refuses' = Refuses /\ Return' = Return
      /\ ToBlock' = ToBlock
  BY <1>1 DEF AddsBlackhole, Refuses, Return, ToBlock
<1>3. \/ /\ c = AddsBlackhole
         /\ \/ todo' = <<Return>> /\ ~ToBlock
            \/ todo' = <<Refuses, Return>>
            \/ \E r : BlockRule(r) /\ todo' = <<TheCall("addRule", r), Return>>
      \/ /\ \E r : BlockRule(r) /\ c = TheCall("addRule", r)
         /\ todo' = <<Return>> /\ Blackhole(tag) \in outbounds
  BY <1>1, BlockingCall
<1> HIDE DEF c
<1>4. c = Head(todo)
  BY DEF c
<1>5. /\ AddsBlackhole.op = "addOutbound" /\ AddsBlackhole.arg = Blackhole(tag)
      /\ \A r : TheCall("addRule", r).op = "addRule" /\ TheCall("addRule", r).arg = r
      /\ \A r : BlockRule(r) => r.tag = Blackhole(tag) /\ ~RelayRule(r)
  BY DEF AddsBlackhole, TheCall, BlockRule, RelayRule
<1>6. \/ /\ c.op = "addOutbound" /\ c.arg = Blackhole(tag)
         /\ \/ todo' = <<Return>> /\ ~ToBlock
            \/ todo' = <<Refuses, Return>>
            \/ \E r : BlockRule(r) /\ todo' = <<TheCall("addRule", r), Return>>
      \/ /\ c.op = "addRule" /\ BlockRule(c.arg)
         /\ todo' = <<Return>> /\ Blackhole(tag) \in outbounds
  BY <1>3, <1>5
<1>7. Typed' /\ Known' /\ Place' = Place
  BY <1>4, <1>6, MadeTyped
<1>8. Ours'
  BY <1>4, <1>5, <1>6, MadeOurs DEF KnownRule
<1>9. /\ Rules' = IF c.op = "addRule" THEN Rules \cup {Blackhole(tag)} ELSE Rules
      /\ outbounds' = IF c.op = "addOutbound" THEN outbounds \cup {Blackhole(tag)} ELSE outbounds
      /\ inbounds' = inbounds
  <2>1. Rules' = IF c.op = "addRule" THEN Rules \cup {Blackhole(tag)} ELSE Rules
    BY <1>4, <1>5, <1>6, MadeRules DEF Inv
  <2> QED
    BY <1>4, <1>6, <2>1, Effects
<1>10. \A r : BlockRule(r)' <=> BlockRule(r)
  BY <1>1 DEF BlockRule
<1>11. Blocking'
  <2>1. CASE c.op = "addOutbound"
    <3>1. Blackhole(tag') \in outbounds'
      BY <1>1, <1>9, <2>1
    <3>2. CASE todo' = <<Return>> /\ ~ToBlock
      BY <1>2, <3>2 DEF Blocking
    <3>3. CASE todo' = <<Refuses, Return>>
      BY <1>2, <3>3 DEF Blocking
    <3>4. ASSUME NEW r, BlockRule(r), todo' = <<TheCall("addRule", r), Return>>
          PROVE  Blocking'
      BY <1>2, <1>10, <3>1, <3>4 DEF Blocking, TheCall
    <3> QED
      BY <1>6, <2>1, <3>2, <3>3, <3>4
  <2>2. CASE c.op = "addRule"
    <3>1. Blackhole(tag') \in Rules' /\ todo' = <<Return>>
      BY <1>1, <1>6, <1>9, <2>2
    <3> QED
      BY <1>2, <3>1 DEF Blocking
  <2> QED
    BY <1>6, <2>1, <2>2
<1>12. Left'
  BY <1>7, <1>11 DEF Left
<1>13. Inbound'
  BY <1>1, <1>7, <1>9, InboundStays, PartsDiffer
<1>14. ~NotBlocking'
  <2>1. status' = "up" /\ mode' \in {"start", "rebuild"} /\ Place' = "blackhole"
    BY <1>1, <1>7, PlacesUp
  <2> QED
    BY <2>1 DEF NotBlocking, In
<1>15. BlackholeInv'
  BY <1>1, <1>6, <1>7, <1>9, <1>14 DEF Inv, BlackholeInv
<1> QED
  BY <1>7, <1>8, <1>12, <1>13, <1>15 DEF Inv

\* The core does as it is told, whichever method asks.
LEMMA StepCallMade ==
    ASSUME Inv, CallMade
    PROVE  Inv'
<1>1. Place \in {"unrelay", "unblock", "remove", "transit", "inbound", "blackhole"}
  BY DEF CallMade, Inv, Left, Busy
<1> QED
  BY <1>1, MadeReturn, MadeUnrelay, MadeUnblock, MadeRemove, MadeTransit, MadeInbound, MadeBlackhole

\* Without a method there is no call.
LEMMA StepReboot ==
    ASSUME Inv, Reboot
    PROVE  Inv'
<1>1. status = "panic" /\ steps = <<>> /\ steps' = <<>> /\ Place = "none" /\ Place' = "none"
  BY FirstPlaces DEF Reboot, Inv, Typed, Place
<1>2. todo = <<>> /\ todo' = <<>>
  BY <1>1 DEF Inv, Left, Busy, Reboot
<1>3. "close" \in DOMAIN Order
  BY DEF Order
<1>4. Suffix("close", <<>>)
  BY <1>3, Suffixed
<1>5. Typed'
  BY <1>1, <1>3, <1>4 DEF Inv, Typed, Reboot, source, ctrl
<1>6. Known'
  BY <1>1 DEF Inv, Known, Reboot, ctrl, In
<1>7. Rules' = {} /\ DOMAIN rules' = {} /\ rules' \in Seq({})
  BY DEF Reboot, Rules
<1>8. Left'
  BY <1>2 DEF Left, Busy
<1>9. Ours'
  <2>1. IsInjective([k \in DOMAIN rules' |-> rules'[k].tag])
    BY <1>7 DEF IsInjective
  <2>2. outbounds' = {}
    BY DEF Reboot
  <2> QED
    BY <1>7, <2>1, <2>2 DEF Ours, Sequence
<1>10. Inbound'
  BY <1>1, <1>2, <1>7 DEF Inbound, Busy, Reboot
<1>11. BlackholeInv'
  BY <1>1, <1>2, <1>7 DEF BlackholeInv, Busy, Reboot
<1> QED
  BY <1>5, <1>6, <1>8, <1>9, <1>10, <1>11 DEF Inv

\* The invariant holds at first,
LEMMA InitInv == Init => Inv
<1> SUFFICES ASSUME Init PROVE Inv
  OBVIOUS
<1>1. Place = "none" /\ ~Busy
  BY FirstPlaces DEF Init, Place, Busy
<1>2. "close" \in DOMAIN Order
  BY DEF Order
<1>3. Suffix("close", <<>>)
  BY <1>2, Suffixed
<1>4. Typed
  BY <1>2, <1>3 DEF Init, Typed
<1>5. Known
  BY <1>1 DEF Init, Known, In, One, NoTag
<1>6. Rules = {} /\ DOMAIN rules = {} /\ rules \in Seq({})
  BY DEF Init, Rules
<1>7. Ours
  <2>1. IsInjective([k \in DOMAIN rules |-> rules[k].tag])
    BY <1>6 DEF IsInjective
  <2> QED
    BY <1>6, <2>1 DEF Ours, Sequence, Init
<1>8. Inbound
  BY <1>1, <1>6 DEF Inbound, Init
<1>9. BlackholeInv
  BY <1>1, <1>6 DEF BlackholeInv, Init
<1> QED
  BY <1>1, <1>4, <1>5, <1>7, <1>8, <1>9 DEF Inv, Left

\* and every step keeps it.
LEMMA NextInv == Inv /\ [Next]_vars => Inv'
<1> SUFFICES ASSUME Inv, [Next]_vars PROVE Inv'
  OBVIOUS
<1>1. CASE PanelChange
  <2>1. panel' \in [server : Servers, list : Lists] /\ seen' \in [server : Servers, list : Lists]
    BY <1>1, NodeManagerAssumption DEF PanelChange, Inv, Typed
  <2> QED
    BY <1>1, <2>1, IdleStep DEF PanelChange
<1>2. CASE Unreadable
  <2>1. panel' \in [server : Servers, list : Lists] /\ seen' \in [server : Servers, list : Lists]
    BY <1>2 DEF Unreadable, Inv, Typed
  <2> QED
    BY <1>2, <2>1, IdleStep DEF Unreadable
<1>3. CASE UNCHANGED vars
  <2>1. UNCHANGED <<panel, seen, info, subs, tag, rtag, relayOn, status, mode, steps, todo, new, past,
                    inbounds, outbounds, rules, first>>
    BY <1>3 DEF vars, source, ctrl, job, core
  <2>2. /\ Rules' = Rules /\ DefaultTag' = DefaultTag /\ ToDirect' = ToDirect /\ Place' = Place
        /\ Return' = Return /\ AddsDefault' = AddsDefault /\ AddsInbound' = AddsInbound
        /\ AddsOwn' = AddsOwn /\ AddsBlackhole' = AddsBlackhole /\ Refuses' = Refuses
        /\ ToBlock' = ToBlock
    BY <2>1 DEF Rules, DefaultTag, ToDirect, Place, Return, AddsDefault, AddsInbound, AddsOwn,
                AddsBlackhole, Refuses, ToBlock
  <2>3. Typed' /\ Known'
    BY <2>1, <2>2 DEF Inv, Typed, Known, In
  <2>4. \A r : (BlockRule(r)' <=> BlockRule(r)) /\ (RelayRule(r)' <=> RelayRule(r))
    BY <2>1 DEF BlockRule, RelayRule
  <2>5. Ours'
    BY <2>1, <2>4 DEF Inv, Ours, KnownRule
  <2>6. /\ Unblock1' = Unblock1 /\ Unblock2' = Unblock2 /\ Unblock3' = Unblock3
        /\ Remove1' = Remove1 /\ Remove2' = Remove2 /\ Remove3' = Remove3 /\ Remove4' = Remove4
    BY <2>1 DEF Unblock1, Unblock2, Unblock3, Remove1, Remove2, Remove3, Remove4, DefaultTag, Return
  <2>7. (NotListening' <=> NotListening) /\ (NotBlocking' <=> NotBlocking) /\ (Busy' <=> Busy)
    BY <2>1, <2>2, <2>6 DEF NotListening, NotBlocking, Busy, In
  <2>8. Inbound' /\ BlackholeInv'
    BY <2>1, <2>2, <2>6, <2>7 DEF Inv, Inbound, BlackholeInv
  <2>9. (Listening' <=> Listening) /\ (Blocking' <=> Blocking)
    <3>1. Listening' <=> Listening
      BY <2>1, <2>2 DEF Listening
    <3>2. Blocking' <=> Blocking
      BY <2>1, <2>2, <2>4 DEF Blocking, TheCall
    <3> QED
      BY <3>1, <3>2
  <2>10. (Unrelaying' <=> Unrelaying) /\ (Relaying' <=> Relaying)
    <3>1. \A c : (Unrelays(c)' <=> Unrelays(c)) /\ (AddsRelay(c)' <=> AddsRelay(c))
      BY <2>1 DEF Unrelays, AddsRelay
    <3> QED
      BY <2>1, <2>2, <3>1 DEF Unrelaying, Relaying
  <2>11. Left'
    BY <2>1, <2>2, <2>6, <2>7, <2>9, <2>10 DEF Inv, Left
  <2> QED
    BY <2>3, <2>5, <2>8, <2>11 DEF Inv
<1> QED
  BY <1>1, <1>2, <1>3, StepStart, StepSync, StepClose, StepRemoveRelay, StepRemoveBlockingRules,
     StepRemoveTag, StepAdopt, StepNotRelaying, StepAddRelayTag, StepNoTransit, StepAddTag,
     StepAddBlackHoleRuleTag, StepFinish, StepCallRefused, StepCallMade, StepReboot DEF Next

-----------------------------------------------------------------------------
(* What follows from the invariant.                                         *)

(* The inductive invariant of the manager: at every step the core holds     *)
(* what the place in the present method says, and every call still to be    *)
(* made belongs to that method.                                             *)
THEOREM Invariance == Spec => []Inv
  BY InitInv, NextInv, PTL DEF Spec

\* A set without two elements has at most one.
LEMMA AtMostOne ==
    ASSUME NEW S, One(S)
    PROVE  Cardinality(S) <= 1
<1>1. CASE S = {}
  BY <1>1, FS_EmptySet
<1>2. CASE S # {}
  <2>1. PICK x : S = {x}
    BY <1>2 DEF One
  <2>2. Cardinality({x}) = 1
    BY FS_Singleton
  <2> QED
    BY <2>1, <2>2
<1> QED
  BY <1>1, <1>2

\* The types and bounds that TypeOK states are among what the invariant states.
LEMMA InvTypes == Inv => TypeOK
<1> SUFFICES ASSUME Inv PROVE TypeOK
  OBVIOUS
<1>1. Cardinality(info) <= 1
  BY AtMostOne DEF Inv, Known
<1>2. One(inbounds)
  BY DEF Inv, Inbound, One
<1>3. Cardinality(inbounds) <= 1
  BY <1>2, AtMostOne
<1>4. \E k \in 0..Len(Order[mode]) : steps = SubSeq(Order[mode], k + 1, Len(Order[mode]))
  BY DEF Inv, Typed, Suffix, LastOf
<1>5. steps = <<>> => todo = <<>>
  BY FirstPlaces DEF Inv, Left, Busy, Place
<1>6. /\ {panel.list, seen.list} \subseteq Lists /\ subs \in Lists \cup {<<>>}
      /\ relayOn \in BOOLEAN /\ status \in {"off", "up", "panic"} /\ mode \in DOMAIN Order
      /\ past \subseteq {"rebuilt", "aborted"}
      /\ first \in outbounds \cup {CoreDefault, Nowhere}
  BY DEF Inv, Typed
<1>7. \A n \in info : tag = buildNodeTag(n)
  BY DEF Inv, Known
<1>8. IsInjective([k \in DOMAIN rules |-> rules[k].tag])
  BY DEF Inv, Ours
<1> QED
  BY <1>1, <1>3, <1>4, <1>5, <1>6, <1>7, <1>8 DEF TypeOK

(* Type correctness: whatever servers and lists the panel may hold, the tag *)
(* is that of the controller's record, the node has at most one inbound and *)
(* no two rules of the router share a tag (AddRule refuses the second).     *)
THEOREM TypeCorrect == Spec => []TypeOK
  BY Invariance, InvTypes, PTL

\* Each kind of rule has its outbound as long as its inbound listens.
LEMMA InvDangling == Inv => NoDangling
<1> SUFFICES ASSUME Inv, NEW k \in DOMAIN rules, rules[k].inbound \in inbounds
             PROVE  rules[k].dest \in outbounds
  BY DEF NoDangling
<1>1. rules[k].tag \in Rules /\ KnownRule(rules[k])
  BY DEF Rules, Inv, Ours
<1>2. CASE rules[k] = DefaultRouterBuilder(tag)
  <2>1. rules[k].tag = DefaultTag /\ rules[k].dest = Own(tag)
    BY <1>2 DEF DefaultRouterBuilder, DefaultTag
  <2>2. ~(Place = "remove" /\ todo = Remove2)
    BY DEF Inv, Inbound, NotListening
  <2> QED
    BY <1>1, <2>1, <2>2 DEF Inv, Inbound
<1>3. CASE BlockRule(rules[k])
  BY <1>1, <1>3 DEF BlockRule, Inv, BlackholeInv
<1>4. CASE RelayRule(rules[k])
  BY <1>4 DEF RelayRule, Inv, Ours
<1> QED
  BY <1>1, <1>2, <1>3, <1>4 DEF KnownRule

(* At no moment, also between two calls to the core, does a rule lead       *)
(* connections of an inbound that listens to an outbound that is not there: *)
(* the manager's methods add outbounds before rules and remove them in an   *)
(* order that never leaves a rule behind for a tag that listens.            *)
THEOREM NothingDangles == Spec => []NoDangling
  BY Invariance, InvDangling, PTL

\* The router takes the first of the rules that match.
LEMMA ExitOf ==
    ASSUME Inv, NEW user, NEW kind, NEW k \in Matching(user, kind), NEW dest,
           \A l \in Matching(user, kind) :
              rules[l].dest = dest \/ \E i \in Matching(user, kind) : i < l
    PROVE  Exit(user, kind) = dest
<1>1. DOMAIN rules \subseteq Nat
  BY SequenceIs DEF Inv, Ours
<1>2. PICK M : M = Matching(user, kind)
  OBVIOUS
<1>3. M \subseteq Nat /\ M # {}
  BY <1>1, <1>2 DEF Matching
<1>4. PICK m \in M : \A l \in M : m <= l
  BY <1>3, Least
<1>5. PICK c : c = CHOOSE i \in M : \A l \in M : i <= l
  OBVIOUS
<1>6. c \in M /\ \A l \in M : c <= l
  BY <1>4, <1>5
<1>7. ~\E i \in M : i < c
  BY <1>3, <1>6
<1>8. rules[c].dest = dest
  BY <1>2, <1>6, <1>7
<1> QED
  BY <1>2, <1>3, <1>5, <1>8 DEF Exit

-----------------------------------------------------------------------------
(* The order of the rules.                                                  *)

\* Until a rebuild what is blocked is blocked, before anything is let out.
Leaving == In({"rebuild", "close"}, {"unblock", "remove"})
Blocked == ToBlock => Blackhole(tag) \in Rules
BlackholeFirst ==
    \A k \in DOMAIN rules : rules[k].tag = DefaultTag =>
       \E l \in DOMAIN rules : l < k /\ rules[l].tag = Blackhole(tag)

First ==
    "rebuilt" \notin past =>
       /\ ~In({"rebuild"}, {"transit", "inbound", "blackhole", "end"})
       /\ In({"start"}, {"inbound", "end"}) => Blocked
       /\ status = "up" /\ inbounds = {tag} /\ ~Leaving => Blocked
       /\ ToBlock /\ ~Leaving => BlackholeFirst

\* RemoveTag is called by a rebuild and by a close.
LEMMA RemoveModes ==
    ASSUME Inv, Place = "remove"
    PROVE  Leaving
<1>1. steps # <<>>
  BY DEF Place, PlaceOf
<1>2. Place \in DOMAIN After[mode] /\ mode \in {"start", "rebuild", "keep", "close"}
  BY <1>1, NextPlace, OrderLengths DEF Inv, Typed
<1> QED
  BY <1>2 DEF After, Leaving, In

\* Nothing comes before the blackhole where nothing is let out.
Shut ==
    /\ Inv /\ inbounds = {}
    /\ ~In({"rebuild"}, {"transit", "inbound", "blackhole", "end"})
    /\ In({"start"}, {"inbound", "end"}) => Blocked

\* A node that lets nothing in has nothing to block.
LEMMA FirstShut == Shut => First
<1> SUFFICES ASSUME Shut PROVE First
  OBVIOUS
<1>1. Place = "remove" => Leaving
  BY RemoveModes DEF Shut
<1>2. ~Leaving => DefaultTag \notin Rules
  BY <1>1 DEF Shut, Inv, Inbound
<1>3. DefaultTag \notin Rules => BlackholeFirst
  BY DEF BlackholeFirst, Rules
<1> QED
  BY <1>2, <1>3 DEF Shut, First

\* Nor has it after a step.
LEMMA FirstShutNext == Shut' => First'
<1>1. Shut => First
  BY FirstShut
<1> QED
  BY <1>1, PTL

\* A step that leaves the core as it is.
LEMMA OrderStays ==
    ASSUME Inv, First, UNCHANGED <<info, tag, core>>,
           "rebuilt" \in past => "rebuilt" \in past',
           "rebuilt" \in past' \/ ~In({"rebuild"}, {"transit", "inbound", "blackhole", "end"})',
           In({"start"}, {"inbound", "end"})' => Blocked,
           Leaving => Leaving', status' = "up" => status = "up"
    PROVE  First'
<1>1. Blocked' = Blocked /\ (BlackholeFirst' <=> BlackholeFirst)
  BY SameTags DEF Blocked, BlackholeFirst
<1>2. ToBlock' = ToBlock /\ inbounds' = inbounds
  BY SameTags
<1> SUFFICES ASSUME "rebuilt" \notin past' PROVE First'
  BY DEF First
<1>3. /\ status = "up" /\ inbounds = {tag} /\ ~Leaving => Blocked
      /\ ToBlock /\ ~Leaving => BlackholeFirst
  BY DEF First
<1>4. status' = "up" /\ inbounds' = {tag'} /\ ~Leaving' => Blocked'
  BY <1>1, <1>2, <1>3
<1>5. ToBlock' /\ ~Leaving' => BlackholeFirst'
  BY <1>1, <1>2, <1>3
<1>6. In({"start"}, {"inbound", "end"})' => Blocked'
  BY <1>1
<1>7. ~In({"rebuild"}, {"transit", "inbound", "blackhole", "end"})'
  OBVIOUS
<1> QED
  BY <1>4, <1>5, <1>6, <1>7 DEF First

\* A rule goes that is not the blackhole's.
LEMMA FirstLess ==
    ASSUME Ours, BlackholeFirst, tag' = tag, NEW t, t # Blackhole(tag), rules' = Without(t)
    PROVE  BlackholeFirst'
<1> SUFFICES ASSUME NEW k \in DOMAIN rules', rules'[k].tag = DefaultTag
             PROVE  \E l \in DOMAIN rules' : l < k /\ rules'[l].tag = Blackhole(tag)
  BY DEF BlackholeFirst, DefaultTag
<1>1. /\ Sequence(rules')
      /\ \A m, l \in DOMAIN rules' : \E i, j \in DOMAIN rules :
            rules'[m] = rules[i] /\ rules'[l] = rules[j] /\ (i < j => m < l)
  BY WithoutRule
<1>2. PICK i \in DOMAIN rules : rules'[k] = rules[i]
  BY <1>1
<1>3. PICK b \in DOMAIN rules : b < i /\ rules[b].tag = Blackhole(tag)
  BY <1>2 DEF BlackholeFirst
<1>4. Blackhole(tag) \in Rules
  BY <1>3 DEF Rules
<1>5. PICK l \in DOMAIN rules' : rules'[l].tag = Blackhole(tag)
  BY <1>4, WithoutTags
<1>6. PICK c \in DOMAIN rules, d \in DOMAIN rules :
         rules'[l] = rules[c] /\ rules'[k] = rules[d] /\ (c < d => l < k)
  BY <1>1
<1>7. c = b /\ d = i
  BY <1>2, <1>3, <1>5, <1>6 DEF Ours, IsInjective
<1> QED
  BY <1>3, <1>5, <1>6, <1>7

\* A rule comes, the default one after the blackhole's.
LEMMA FirstMore ==
    ASSUME Ours, BlackholeFirst, tag' = tag, NEW r, r.tag \notin Rules, rules' = Append(rules, r),
           r.tag = DefaultTag => Blackhole(tag) \in Rules
    PROVE  BlackholeFirst'
<1> SUFFICES ASSUME NEW k \in DOMAIN rules', rules'[k].tag = DefaultTag
             PROVE  \E l \in DOMAIN rules' : l < k /\ rules'[l].tag = Blackhole(tag)
  BY DEF BlackholeFirst, DefaultTag
<1>1. PICK S : rules \in Seq(S \cup {r})
  <2>1. PICK T : rules \in Seq(T)
    BY DEF Ours, Sequence
  <2>2. T \subseteq T \cup {r}
    OBVIOUS
  <2> QED
    BY <2>1, <2>2, SeqMonotonic
<1>2. /\ Len(rules) \in Nat /\ DOMAIN rules = 1..Len(rules) /\ DOMAIN rules' = 1..Len(rules) + 1
      /\ \A l \in DOMAIN rules : rules'[l] = rules[l]
      /\ rules'[Len(rules) + 1] = r
  <2>1. r \in S \cup {r}
    OBVIOUS
  <2> QED
    BY <1>1, <2>1, AppendProperties
<1>3. CASE k = Len(rules) + 1
  <2>1. PICK l \in DOMAIN rules : rules[l].tag = Blackhole(tag)
    BY <1>2, <1>3 DEF Rules
  <2> QED
    BY <1>2, <1>3, <2>1
<1>4. CASE k \in DOMAIN rules
  <2>1. PICK l \in DOMAIN rules : l < k /\ rules[l].tag = Blackhole(tag)
    BY <1>2, <1>4 DEF BlackholeFirst
  <2> QED
    BY <1>2, <2>1
<1> QED
  BY <1>2, <1>3, <1>4

\* The places that a failure leads to, besides the end of the execution.
LEMMA FailPlaces ==
    ASSUME Inv, Fails, steps # <<>>, mode' = mode
    PROVE  /\ todo' = <<>> /\ ("rebuilt" \in past => "rebuilt" \in past')
           /\ \/ Place' = "none" /\ mode # "close"
              \/ /\ Place' = After[mode][Place] /\ Place \in DOMAIN After[mode]
                 /\ \/ mode = "close"
                    \/ mode = "rebuild" /\ Place = "blackhole"
           /\ status' = "up" => status = "up"
<1>1. /\ Place = Head(steps) /\ Place \in DOMAIN After[mode]
      /\ PlaceOf(Tail(steps)) = After[mode][Place]
      /\ mode \in {"start", "rebuild", "keep", "close"} /\ status = "up"
  BY NextPlace, OrderLengths DEF Inv, Typed
<1>2. mode # "start" /\ mode # "close" /\ Place = "blackhole" => mode = "rebuild"
  BY <1>1 DEF After
<1>3. steps' = <<>> => Place' = "none"
  BY FirstPlaces DEF Place
<1>4. steps' = Tail(steps) => Place' = After[mode][Place]
  BY <1>1 DEF Place
<1>5. CASE mode = "start"
  BY <1>3, <1>5 DEF Fails, Panic
<1>6. CASE mode # "start"
  BY <1>1, <1>2, <1>3, <1>4, <1>6 DEF Fails
<1> QED
  BY <1>5, <1>6

\* A method fails.
LEMMA FailFirst ==
    ASSUME Inv, Inv', First, Fails, steps # <<>>, UNCHANGED <<info, tag, core, mode>>,
           mode = "close" \/ Leaving => inbounds = {}
    PROVE  First'
<1>1. /\ todo' = <<>> /\ ("rebuilt" \in past => "rebuilt" \in past')
      /\ \/ Place' = "none" /\ mode # "close"
         \/ /\ Place' = After[mode][Place] /\ Place \in DOMAIN After[mode]
            /\ \/ mode = "close"
               \/ mode = "rebuild" /\ Place = "blackhole"
      /\ status' = "up" => status = "up"
  BY FailPlaces
<1>2. inbounds' = inbounds
  BY SameTags
<1>3. CASE mode = "close" \/ (Leaving /\ Place' = "none")
  <2>1. ~In({"rebuild"}, {"transit", "inbound", "blackhole", "end"})' /\ ~In({"start"}, {"inbound", "end"})'
    BY <1>3 DEF In
  <2> QED
    BY <1>2, <1>3, <2>1, FirstShutNext DEF Shut
<1>4. CASE mode = "rebuild" /\ Place = "blackhole"
  <2>1. "rebuilt" \in past
    BY <1>4 DEF First, In
  <2> QED
    BY <1>1, <2>1 DEF First
<1>5. CASE Place' = "none" /\ ~Leaving
  <2>1. ~In({"rebuild"}, {"transit", "inbound", "blackhole", "end"})' /\ ~In({"start"}, {"inbound", "end"})'
    BY <1>5 DEF In
  <2> QED
    BY <1>1, <1>5, <2>1, OrderStays
<1> QED
  BY <1>1, <1>3, <1>4, <1>5

\* The answers of the core.
LEMMA RefusedFirst ==
    ASSUME Inv, Inv', First, CallRefused
    PROVE  First'
<1>1. todo # <<>> /\ Refused(Head(todo)) /\ Fails
  BY DEF CallRefused
<1>2. /\ Place \in {"remove", "transit", "inbound", "blackhole"}
      /\ Place = "remove" => inbounds = {}
      /\ mode = "close" => Place = "remove"
  BY <1>1, SomeRefused
<1>3. steps # <<>>
  BY <1>2 DEF Place, PlaceOf
<1> QED
  BY <1>1, <1>2, <1>3, FailFirst DEF CallRefused, ctrl, Leaving, In

\* AddBlackHoleRuleTag is not left before what it has to block is blocked.
LEMMA LastBlocking ==
    ASSUME Blocking, todo = <<Return>>
    PROVE  Blocked
<1>1. AddsBlackhole # Return /\ Refuses # Return /\ \A r : TheCall("addRule", r) # Return
  BY DEF AddsBlackhole, Refuses, Return, TheCall
<1>2. Head(todo) = Return
  OBVIOUS
<1>3. /\ todo # <<AddsBlackhole, Return>> /\ todo # <<Refuses, Return>>
      /\ todo # <<AddsBlackhole, Refuses, Return>>
      /\ \A r : /\ todo # <<TheCall("addRule", r), Return>>
               /\ todo # <<AddsBlackhole, TheCall("addRule", r), Return>>
  BY <1>1, <1>2
<1> QED
  BY <1>3, Zenon DEF Blocking, Blocked

\* A method is left.
LEMMA ReturnFirst ==
    ASSUME Inv, Inv', First, CallMade, Head(todo) = Return
    PROVE  First'
<1>1. /\ todo' = <<>> /\ UNCHANGED <<info, tag, core, mode, status, past>>
      /\ todo = <<Return>>
      /\ Busy
  BY ReturnPlaces DEF CallMade, Busy
<1>2. inbounds' = inbounds /\ (Blocked' <=> Blocked) /\ ToBlock' = ToBlock
  BY <1>1, SameTags DEF Blocked
<1>3. CASE mode = "start"
  <2>1. \/ Place = "transit" /\ Place' = "blackhole"
        \/ Place = "blackhole" /\ Place' = "inbound"
        \/ Place = "inbound" /\ Place' = "end"
    BY <1>3, ReturnPlaces
  <2>2. Place = "blackhole" => Blocked
    BY <1>1, LastBlocking DEF Inv, Left, Blocked
  <2>3. "rebuilt" \notin past => (Place = "inbound" => Blocked)
    BY <1>3 DEF First, In
  <2>4. CASE "rebuilt" \in past
    BY <1>1, <2>4 DEF First
  <2>5. CASE "rebuilt" \notin past
    BY <1>1, <1>3, <2>1, <2>2, <2>3, <2>5, OrderStays DEF In, Leaving
  <2> QED
    BY <2>4, <2>5
<1>4. CASE mode = "rebuild"
  <2>1. \/ Place = "unrelay" /\ Place' = "unblock"
        \/ Place = "unblock" /\ Place' = "remove"
        \/ Place = "remove" /\ Place' = "adopt"
        \/ Place \in {"transit", "inbound", "blackhole"}
    BY <1>4, ReturnPlaces
  <2>2. CASE Place \in {"transit", "inbound", "blackhole"}
    BY <1>1, <1>4, <2>2 DEF First, In
  <2>3. CASE Place' \in {"unblock", "remove"}
    BY <1>1, <1>4, <2>3, OrderStays DEF In, Leaving
  <2>4. CASE Place = "remove" /\ Place' = "adopt"
    <3>1. inbounds = {}
      BY <1>1, <2>4 DEF Inv, Inbound, NotListening, Remove1
    <3> QED
      BY <1>1, <1>2, <1>4, <2>4, <3>1, FirstShutNext DEF Shut, In
  <2> QED
    BY <2>1, <2>2, <2>3, <2>4
<1>5. CASE mode = "keep"
  BY <1>1, <1>5, OrderStays DEF In, Leaving
<1>6. CASE mode = "close"
  <2>1. \/ Place = "unblock" /\ Place' = "remove"
        \/ Place = "remove" /\ Place' = "unrelay"
        \/ Place = "unrelay" /\ Place' = "off"
    BY <1>6, ReturnPlaces
  <2>2. CASE Place # "remove"
    BY <1>1, <1>6, <2>1, <2>2, OrderStays DEF In, Leaving
  <2>3. CASE Place = "remove"
    <3>1. inbounds = {}
      BY <1>1, <2>3 DEF Inv, Inbound, NotListening, Remove1
    <3> QED
      BY <1>1, <1>2, <1>6, <2>1, <3>1, FirstShutNext DEF Shut, In
  <2> QED
    BY <2>2, <2>3
<1> QED
  BY <1>3, <1>4, <1>5, <1>6, ReturnPlaces

\* The calls that are not of the inbound or the blackhole keep the order.
LEMMA RelayFirst ==
    ASSUME Inv, First, CallMade, NEW c, c = Head(todo), Place' = Place, Place \in {"unrelay", "transit"},
           c.op = "addRule" => c.arg.tag.of.relay = TRUE,
           c.op \in {"delRule", "addOutbound", "delOutbound"} => c.arg.of.relay = TRUE,
           c.op \notin {"addInbound", "delInbound"}
    PROVE  First'
<1> SUFFICES ASSUME "rebuilt" \notin past' PROVE First'
  BY DEF First
<1>1. /\ UNCHANGED <<info, tag, status, mode, past>> /\ inbounds' = inbounds
  BY Effects
<1>2. Blackhole(tag).of.relay = FALSE /\ DefaultTag.of.relay = FALSE /\ Ours
  BY PartsDiffer DEF Inv
<1>3. Rules' = CASE c.op = "addRule" -> Rules \cup {c.arg.tag}
                 [] c.op = "delRule" -> Rules \ {c.arg}
                 [] OTHER -> Rules
  BY <1>2, MadeRules
<1>4. Blackhole(tag') \in Rules' <=> Blackhole(tag) \in Rules
  BY <1>1, <1>2, <1>3
<1>5. ToBlock' = ToBlock /\ (Blocked' <=> Blocked) /\ (Leaving' <=> Leaving)
  BY <1>1, <1>4 DEF ToBlock, Blocked, Leaving, In
<1>6. BlackholeFirst => BlackholeFirst'
  <2> SUFFICES ASSUME BlackholeFirst PROVE BlackholeFirst'
    OBVIOUS
  <2>1. CASE c.op = "addRule"
    <3>1. rules' = Append(rules, c.arg) /\ c.arg.tag \notin Rules
      BY <2>1, Effects
    <3>2. c.arg.tag # DefaultTag
      BY <1>2, <2>1
    <3> QED
      BY <1>1, <1>2, <3>1, <3>2, FirstMore
  <2>2. CASE c.op = "delRule"
    <3>1. rules' = Without(c.arg) /\ c.arg # Blackhole(tag)
      BY <1>2, <2>2, Effects
    <3> QED
      BY <1>1, <1>2, <3>1, FirstLess
  <2>3. CASE c.op \notin {"addRule", "delRule"}
    <3>1. rules' = rules
      BY <2>3, Effects
    <3> QED
      BY <1>1, <3>1 DEF BlackholeFirst, DefaultTag
  <2> QED
    BY <2>1, <2>2, <2>3
<1>7. ~In({"rebuild"}, {"transit", "inbound", "blackhole", "end"})'
      /\ ~In({"start"}, {"inbound", "end"})'
  BY <1>1 DEF First, In
<1> QED
  BY <1>1, <1>5, <1>6, <1>7 DEF First

\* What the calls of the two relay methods are about.
LEMMA FirstRelayCalls ==
    ASSUME Inv, CallMade, Place \in {"unrelay", "transit"}, Head(todo) # Return, NEW c, c = Head(todo)
    PROVE  /\ c.op = "addRule" => c.arg.tag.of.relay = TRUE
           /\ c.op \in {"delRule", "addOutbound", "delOutbound"} => c.arg.of.relay = TRUE
           /\ c.op \notin {"addInbound", "delInbound", "return"}
<1>1. Busy /\ todo # <<>>
  BY DEF CallMade, Busy
<1>2. CASE Place = "unrelay"
  <2>1. Unrelaying
    BY <1>1, <1>2 DEF Inv, Left
  <2>2. Len(todo) \in Nat \ {0} /\ Head(todo) = todo[1]
    BY <1>1, <2>1, Shift DEF Unrelaying
  <2>3. Len(todo) # 1
    BY <2>1, <2>2 DEF Unrelaying
  <2>4. 1 \in 1..Len(todo) - 1
    BY <2>2, <2>3
  <2>5. Unrelays(c)
    BY <2>1, <2>2, <2>4 DEF Unrelaying
  <2> QED
    BY <2>5 DEF Unrelays
<1>3. CASE Place = "transit"
  <2>1. Relaying
    BY <1>1, <1>3 DEF Inv, Left
  <2>2. Len(todo) \in Nat \ {0} /\ Head(todo) = todo[1]
    BY <1>1, <2>1, Shift DEF Relaying
  <2>3. Len(todo) # 1
    BY <2>1, <2>2 DEF Relaying
  <2>4. 1 \in 1..Len(todo) - 1
    BY <2>2, <2>3
  <2>5. AddsRelay(c)
    BY <2>1, <2>2, <2>4 DEF Relaying
  <2>6. rtag.relay = TRUE
    BY <2>5 DEF AddsRelay
  <2>7. ASSUME NEW k \in DOMAIN new.list, c = TheCall("addOutbound", RelayOf(rtag, new.list[k]))
        PROVE  c.op = "addOutbound" /\ c.arg.of.relay = TRUE
    BY <2>6, <2>7 DEF TheCall, RelayOf
  <2>8. ASSUME NEW k \in DOMAIN new.list,
               c = TheCall("addRule", RelayRouterBuilder(tag, rtag, new.list[k]))
        PROVE  c.op = "addRule" /\ c.arg.tag.of.relay = TRUE
    BY <2>6, <2>8 DEF TheCall, RelayOf, RelayRouterBuilder
  <2> QED
    BY <2>5, <2>7, <2>8 DEF AddsRelay
<1> QED
  BY <1>2, <1>3

\* A call is made.
LEMMA MadeFirst ==
    ASSUME Inv, Inv', First, CallMade
    PROVE  First'
<1> DEFINE c == Head(todo)
<1>1. /\ Busy /\ todo # <<>> /\ todo' = Tail(todo) /\ ~Refused(c)
      /\ UNCHANGED <<info, tag, status, mode, past>>
      /\ steps' = IF c.op = "return" THEN Tail(steps) ELSE steps
  BY Effects DEF CallMade, Busy
<1>2. Place \in {"unrelay", "unblock", "remove", "transit", "inbound", "blackhole"}
  BY <1>1 DEF Inv, Left
<1>3. CASE c = Return
  BY <1>3, ReturnFirst
<1>4. CASE c # Return /\ Place \in {"unrelay", "transit"}
  <2>1. /\ c.op = "addRule" => c.arg.tag.of.relay = TRUE
        /\ c.op \in {"delRule", "addOutbound", "delOutbound"} => c.arg.of.relay = TRUE
        /\ c.op \notin {"addInbound", "delInbound", "return"}
    BY <1>4, FirstRelayCalls
  <2>2. Place' = Place
    BY <1>1, <2>1 DEF Place
  <2> QED
    BY <1>4, <2>1, <2>2, RelayFirst
<1>5. CASE c # Return /\ Place \in {"unblock", "remove"}
  <2>1. c.op # "return"
    <3>1. todo \in {Unblock1, Unblock2, Unblock3, Remove1, Remove2, Remove3, Remove4}
      BY <1>1, <1>5 DEF Inv, Left
    <3>2. c \in {Return, TheCall("delOutbound", Blackhole(tag)), TheCall("delRule", Blackhole(tag)),
                 TheCall("delRule", DefaultTag), TheCall("delOutbound", Own(tag)),
                 TheCall("delInbound", tag)}
      BY <3>1 DEF Unblock1, Unblock2, Unblock3, Remove1, Remove2, Remove3, Remove4
    <3> QED
      BY <1>5, <3>2 DEF TheCall
  <2>2. Place' = Place
    BY <1>1, <2>1 DEF Place
  <2>3. mode \in {"rebuild", "close"}
    <3>1. steps # <<>>
      BY <1>5 DEF Place, PlaceOf
    <3>2. Place \in DOMAIN After[mode] /\ mode \in {"start", "rebuild", "keep", "close"}
      BY <3>1, NextPlace, OrderLengths DEF Inv, Typed
    <3> QED
      BY <1>5, <3>2 DEF After
  <2> QED
    BY <1>1, <1>5, <2>2, <2>3 DEF First, Leaving, In
<1>6. CASE c # Return /\ Place = "inbound"
  <2>1. mode \in {"start", "rebuild"}
    BY <1>6, PlacesUp
  <2>2. CASE mode = "rebuild"
    BY <1>1, <1>6, <2>2 DEF First, In
  <2>3. CASE mode = "start" /\ "rebuilt" \notin past
    <3>1. Blocked
      BY <1>6, <2>3 DEF First, In
    <3>2. Listening
      BY <1>1, <1>6 DEF Inv, Left
    <3>3. \/ c = AddsDefault
          \/ c = TheCall("addOutbound", Own(tag))
          \/ c = AddsInbound
      BY <1>1, <1>6, <3>2, ListeningCall
    <3>4. /\ c.op \in {"addRule", "addInbound", "addOutbound"}
          /\ c.op = "addRule" => c.arg = DefaultRouterBuilder(tag)
      BY <3>3 DEF AddsDefault, AddsInbound, TheCall
    <3>5. Place' = Place
      BY <1>1, <3>4 DEF Place
    <3>6. Ours /\ DefaultRouterBuilder(tag).tag = DefaultTag
      BY DEF Inv, DefaultRouterBuilder, DefaultTag
    <3>7. Rules' = IF c.op = "addRule" THEN Rules \cup {DefaultTag} ELSE Rules
      BY <3>4, <3>6, MadeRules
    <3>8. Blocked' /\ ToBlock' = ToBlock /\ ~Leaving
      BY <1>1, <1>6, <3>1, <3>7 DEF Blocked, ToBlock, Leaving, In
    <3>9. ToBlock' => BlackholeFirst'
      <4> SUFFICES ASSUME ToBlock' PROVE BlackholeFirst'
        OBVIOUS
      <4>1. BlackholeFirst /\ Blackhole(tag) \in Rules
        BY <2>3, <3>1, <3>8 DEF First, Blocked
      <4>2. CASE c.op = "addRule"
        <5>1. rules' = Append(rules, c.arg) /\ c.arg.tag \notin Rules
          BY <4>2, Effects
        <5> QED
          BY <1>1, <3>6, <4>1, <5>1, FirstMore
      <4>3. CASE c.op # "addRule"
        <5>1. rules' = rules
          BY <3>4, <4>3, Effects
        <5> QED
          BY <1>1, <4>1, <5>1 DEF BlackholeFirst, DefaultTag
      <4> QED
        BY <4>2, <4>3
    <3> QED
      BY <1>1, <2>3, <3>8, <3>9 DEF First, In
  <2> QED
    BY <1>1, <2>1, <2>2, <2>3 DEF First
<1>7. CASE c # Return /\ Place = "blackhole"
  <2>1. mode \in {"start", "rebuild"}
    BY <1>7, PlacesUp
  <2>2. CASE mode = "rebuild"
    BY <1>1, <1>7, <2>2 DEF First, In
  <2>3. CASE mode = "start"
    <3>1. Blocking
      BY <1>1, <1>7 DEF Inv, Left
    <3>2. c = AddsBlackhole \/ \E r : c = TheCall("addRule", r)
      BY <1>1, <1>7, <3>1, BlockingCall
    <3>3. c.op \in {"addOutbound", "addRule"}
      BY <3>2 DEF AddsBlackhole, TheCall
    <3>4. Place' = Place /\ inbounds' = inbounds
      BY <1>1, <3>3, Effects DEF Place
    <3>5. inbounds = {}
      BY <1>7, <2>3 DEF Inv, Inbound, NotListening, In
    <3> QED
      BY <1>1, <1>7, <2>3, <3>4, <3>5, FirstShutNext DEF Shut, In
  <2> QED
    BY <2>1, <2>2, <2>3
<1> QED
  BY <1>2, <1>3, <1>4, <1>5, <1>6, <1>7

\* A method of the manager that has nothing to do with the core yet.
LEMMA SamePlaceFirst ==
    ASSUME Inv, First, UNCHANGED <<info, tag, core, mode, steps, past>>,
           status' = "up" => status = "up"
    PROVE  First'
<1>1. Place' = Place
  BY DEF Place
<1>2. (Leaving' <=> Leaving)
  BY <1>1 DEF Leaving, In
<1>3. CASE "rebuilt" \in past
  BY <1>3 DEF First
<1>4. CASE "rebuilt" \notin past
  BY <1>1, <1>2, <1>4, OrderStays DEF First, In
<1> QED
  BY <1>3, <1>4

\* A method panics.
LEMMA PanicFirst ==
    ASSUME Inv, First, Panic, UNCHANGED <<info, tag, core, mode>>, ~Leaving
    PROVE  First'
<1>1. Place' = "none" /\ status' = "panic" /\ past' = past
  BY FirstPlaces DEF Panic, Place
<1> QED
  BY <1>1, OrderStays DEF In, Leaving

\* Every step keeps the order of the rules,
LEMMA FirstNext ==
    ASSUME Inv, Inv', First, [Next]_vars
    PROVE  First'
<1>1. CASE PanelChange \/ Unreadable
  BY <1>1, SamePlaceFirst DEF PanelChange, Unreadable, ctrl, job
<1>2. CASE Start
  <2>1. Place' = "transit" /\ mode' = "start" /\ status = "off" /\ inbounds' = inbounds
    BY <1>2, FirstPlaces DEF Start, Place, core
  <2>2. inbounds' = {}
    BY <2>1 DEF Inv, Inbound, NotListening
  <2> QED
    BY <2>1, <2>2, FirstShutNext DEF Shut, In
<1>3. CASE Sync
  <2>1. /\ Place' = "unrelay" /\ mode' \in {"rebuild", "keep"} /\ status = "up" /\ Place = "none"
        /\ UNCHANGED <<info, tag, core, past>>
    BY <1>3, FirstPlaces DEF Sync, Idle, Place, ctrl
  <2> QED
    BY <2>1, OrderStays DEF In, Leaving
<1>4. CASE Close
  <2>1. /\ Place' = "unblock" /\ mode' = "close" /\ status = "up"
        /\ UNCHANGED <<info, tag, core, past>>
    BY <1>4, FirstPlaces DEF Close, Place, ctrl
  <2> QED
    BY <2>1, OrderStays DEF In, Leaving
<1>5. CASE RemoveRelay \/ RemoveBlockingRules \/ RemoveTag
  BY <1>5, SamePlaceFirst DEF RemoveRelay, RemoveBlockingRules, RemoveTag, Makes, ctrl
<1>6. CASE Adopt
  <2>1. /\ Place = "adopt" /\ mode \in {"rebuild", "keep"} /\ steps # <<>>
    <3>1. Place = "adopt" /\ "adopt" \in DOMAIN After[mode] /\ mode \in {"start", "rebuild", "keep", "close"}
          /\ steps # <<>>
      BY <1>6, AtMethod DEF Adopt
    <3> QED
      BY <3>1 DEF After
  <2>2. CASE mode = "rebuild"
    BY <1>6, <2>2 DEF Adopt, First
  <2>3. CASE mode = "keep"
    <3>1. new.info = info
      BY <2>1, <2>3 DEF Inv, Known, In
    <3>2. UNCHANGED <<info, tag, core, mode, status, past>>
      BY <1>6, <2>3, <3>1 DEF Adopt
    <3> QED
      BY <2>3, <3>2, OrderStays DEF In, Leaving
  <2> QED
    BY <2>1, <2>2, <2>3
<1>7. CASE NotRelaying
  <2>1. /\ Place = "transit" /\ mode \in {"start", "rebuild", "keep", "close"} /\ steps # <<>>
        /\ "transit" \in DOMAIN After[mode] /\ Typed
    BY <1>7, AtMethod DEF NotRelaying, Inv
  <2>2. Place' = After[mode]["transit"]
    BY <1>7, <2>1, NextPlace DEF NotRelaying, Place
  <2>3. UNCHANGED <<info, tag, core, mode, status, past>>
    BY <1>7 DEF NotRelaying, ctrl
  <2>4. CASE mode = "rebuild"
    BY <2>1, <2>3, <2>4 DEF First, In
  <2>5. CASE mode = "start" \/ mode = "keep"
    <3>1. Place' \in {"blackhole", "end"} /\ (mode = "start" => Place' = "blackhole")
      BY <2>1, <2>2, <2>5 DEF After
    <3> QED
      BY <2>1, <2>3, <2>5, <3>1, OrderStays DEF In, Leaving
  <2> QED
    BY <2>1, <2>4, <2>5 DEF After
<1>8. CASE AddRelayTag \/ NoTransit
  <2>1. /\ Place = "transit" /\ mode \in {"start", "rebuild", "keep", "close"} /\ steps # <<>>
        /\ "transit" \in DOMAIN After[mode]
    BY <1>8, AtMethod DEF AddRelayTag, NoTransit
  <2>2. mode # "close"
    BY <2>1 DEF After
  <2>3. UNCHANGED <<info, tag, core, mode>>
    BY <1>8 DEF AddRelayTag, NoTransit, ctrl
  <2>4. Fails \/ Panic \/ (UNCHANGED <<steps, past, status>>)
    BY <1>8 DEF AddRelayTag, NoTransit, Makes
  <2>5. ~Leaving
    BY <2>1 DEF Leaving, In
  <2> QED
    BY <2>1, <2>2, <2>3, <2>4, <2>5, FailFirst, PanicFirst, SamePlaceFirst
<1>9. CASE AddTag \/ AddBlackHoleRuleTag
  <2>1. /\ Place \in {"inbound", "blackhole"} /\ mode \in {"start", "rebuild", "keep", "close"}
        /\ steps # <<>> /\ Place \in DOMAIN After[mode]
    BY <1>9, AtMethod DEF AddTag, AddBlackHoleRuleTag
  <2>2. mode # "close"
    BY <2>1 DEF After
  <2>3. UNCHANGED <<info, tag, core, mode>>
    BY <1>9 DEF AddTag, AddBlackHoleRuleTag, ctrl
  <2>4. Fails \/ Panic \/ (UNCHANGED <<steps, past, status>>)
    BY <1>9 DEF AddTag, AddBlackHoleRuleTag, Makes
  <2>5. ~Leaving
    BY <2>1 DEF Leaving, In
  <2> QED
    BY <2>1, <2>2, <2>3, <2>4, <2>5, FailFirst, PanicFirst, SamePlaceFirst
<1>10. CASE Finish
  <2>1. /\ Place \in {"end", "off"} /\ Place' = "none" /\ UNCHANGED <<info, tag, core, mode, past>>
        /\ status = "up"
    BY <1>10, AtMethod, FirstPlaces DEF Finish, Place
  <2> QED
    BY <2>1, OrderStays DEF In, Leaving
<1>11. CASE CallRefused
  BY <1>11, RefusedFirst
<1>12. CASE CallMade
  BY <1>12, MadeFirst
<1>13. CASE Reboot
  <2>1. Place' = "none" /\ inbounds' = {}
    BY <1>13, FirstPlaces DEF Reboot, Inv, Typed, Place
  <2> QED
    BY <2>1, FirstShutNext DEF Shut, In
<1>14. CASE UNCHANGED vars
  BY <1>14, SamePlaceFirst DEF vars, ctrl, job
<1> QED
  BY <1>1, <1>2, <1>3, <1>4, <1>5, <1>6, <1>7, <1>8, <1>9, <1>10, <1>11, <1>12, <1>13, <1>14 DEF Next

\* and it holds at first.
LEMMA InitFirst == Init => First
<1> SUFFICES ASSUME Init PROVE First
  OBVIOUS
<1>1. Place = "none" /\ inbounds = {} /\ Inv
  BY FirstPlaces, InitInv DEF Init, Place
<1> QED
  BY <1>1, FirstShut DEF Shut, In

\* The first rule that matches a connection to be blocked is the blackhole's.
LEMMA InvBlocks == Inv /\ First => BlocksApply
<1> SUFFICES ASSUME Inv, First, Serving, "rebuilt" \notin past, NEW n \in info,
                    HasBlockingRules(n.rules), NEW k \in DOMAIN subs
             PROVE  Exit(buildUserTag(tag, subs[k]), "blocked") = Blackhole(tag)
  BY DEF BlocksApply
<1>1. Place = "none" /\ status = "up" /\ inbounds = {tag} /\ ToBlock
  BY FirstPlaces DEF Serving, Idle, Place, Inv, Inbound, ToBlock
<1>2. ~Leaving
  BY <1>1 DEF Leaving, In
<1>3. Blackhole(tag) \in Rules /\ BlackholeFirst
  BY <1>1, <1>2 DEF First, Blocked
<1>4. PICK b \in DOMAIN rules : rules[b].tag = Blackhole(tag)
  BY <1>3 DEF Rules
<1>5. tag.relay = FALSE
  BY DEF Inv, Known
<1>6. BlockRule(rules[b])
  <2>1. rules[b] # DefaultRouterBuilder(tag) /\ ~RelayRule(rules[b])
    BY <1>4, <1>5 DEF DefaultRouterBuilder, RelayRule, Blackhole
  <2> QED
    BY <2>1 DEF Inv, Ours, KnownRule
<1> DEFINE user == buildUserTag(tag, subs[k])
<1>7. "id" \notin DOMAIN user
  BY DEF buildUserTag
<1> HIDE DEF user
<1>8. \A r \in DOMAIN rules : rules[r].tag = Blackhole(tag) => r \in Matching(user, "blocked")
  <2> SUFFICES ASSUME NEW r \in DOMAIN rules, rules[r].tag = Blackhole(tag)
               PROVE  r \in Matching(user, "blocked")
    OBVIOUS
  <2>1. rules[r] # DefaultRouterBuilder(tag) /\ ~RelayRule(rules[r])
    BY <1>5 DEF DefaultRouterBuilder, RelayRule, Blackhole
  <2>2. BlockRule(rules[r])
    BY <2>1 DEF Inv, Ours, KnownRule
  <2> QED
    BY <2>2 DEF BlockRule, Matching
<1>9. ASSUME NEW l \in Matching(user, "blocked")
      PROVE  rules[l].dest = Blackhole(tag) \/ \E i \in Matching(user, "blocked") : i < l
  <2>1. /\ l \in DOMAIN rules /\ KnownRule(rules[l])
        /\ rules[l].users = {} \/ user \in rules[l].users
    BY DEF Matching, Inv, Ours
  <2>2. ~RelayRule(rules[l])
    BY <1>7, <2>1 DEF RelayRule
  <2>3. CASE BlockRule(rules[l])
    BY <2>3 DEF BlockRule
  <2>4. CASE rules[l] = DefaultRouterBuilder(tag)
    <3>1. rules[l].tag = DefaultTag
      BY <2>4 DEF DefaultRouterBuilder, DefaultTag
    <3>2. PICK i \in DOMAIN rules : i < l /\ rules[i].tag = Blackhole(tag)
      BY <1>3, <2>1, <3>1 DEF BlackholeFirst
    <3> QED
      BY <1>8, <3>2
  <2> QED
    BY <2>1, <2>2, <2>3, <2>4 DEF KnownRule
<1>10. b \in Matching(user, "blocked")
  BY <1>4, <1>8
<1> QED
  BY <1>9, <1>10, ExitOf DEF user

(* What the panel blocks goes to the blackhole from the start of a node     *)
(* until its inbound is rebuilt: Controller.Start adds the blocking rule    *)
(* before the default one and no step before a rebuild swaps them.          *)
THEOREM WhatIsBlockedStaysBlocked == Spec => []BlocksApply
<1>1. Inv /\ Inv' /\ First /\ [Next]_vars => First'
  BY FirstNext
<1>2. Spec => []First
  BY <1>1, InitFirst, Invariance, PTL DEF Spec
<1> QED
  BY <1>2, Invariance, InvBlocks, PTL

-----------------------------------------------------------------------------
(* The relays in the core.                                                  *)

\* The relays the core holds, as outbounds or as rules.
Held == {o \in outbounds \cup Rules : o.of.relay = TRUE}
NoRelay == Held = {}
RelaysOf(list) ==
    /\ \A o \in Held : \E k \in DOMAIN list : o = RelayOf(rtag, list[k])
    /\ relayOn \/ NoRelay

\* Where they are those of the list the controller has, where there are none,
\* and where they are those of the list it is about to have.
HoldsOld ==
    \/ status = "up" /\ Place = "none"
    \/ Place = "unrelay" /\ ~Busy
    \/ In({"close"}, {"unblock", "remove"})
Unrelayed ==
    \/ In({"rebuild", "keep"}, {"unblock", "remove", "adopt"})
    \/ Place = "transit" /\ ~Busy
HoldsNew == Place \in {"blackhole", "inbound", "end"}

Telling == \E i \in DOMAIN todo : todo[i].op = "relay"

\* Every relay is still to be removed, and the controller to be told so.
Removing ==
    /\ \A o \in outbounds : o.of.relay = TRUE =>
          \E i \in DOMAIN todo : todo[i] = TheCall("delOutbound", o)
    /\ \A o \in Rules : o.of.relay = TRUE =>
          \E i \in DOMAIN todo : todo[i] = TheCall("delRule", o)
    /\ mode # "close" /\ relayOn => Telling

Adding ==
    /\ \A o \in Held : \E k \in DOMAIN new.list : o = RelayOf(rtag, new.list[k])
    /\ relayOn \/ Telling

\* What is in the core of relays, as long as no sync was aborted.
Inventory ==
    "aborted" \notin past =>
       /\ status = "off" \/ Place = "off" => NoRelay
       /\ HoldsOld => RelaysOf(subs)
       /\ Place = "unrelay" /\ Busy => Removing
       /\ Unrelayed => NoRelay /\ ~relayOn
       /\ Place = "transit" /\ Busy => Adding
       /\ HoldsNew => RelaysOf(new.list)

\* The relays are the same when the core and the controller's view of it are.
LEMMA HeldStays ==
    ASSUME outbounds' = outbounds, Rules' = Rules
    PROVE  Held' = Held /\ (NoRelay' <=> NoRelay)
  BY DEF Held, NoRelay

\* So are those of a list that is the same, and where there are none they are of any.
LEMMA RelaysOfStays ==
    ASSUME outbounds' = outbounds, Rules' = Rules, UNCHANGED <<rtag, relayOn>>
    PROVE  /\ subs' = subs => (RelaysOf(subs)' <=> RelaysOf(subs))
           /\ new' = new => (RelaysOf(new.list)' <=> RelaysOf(new.list))
           /\ NoRelay => RelaysOf(subs)' /\ RelaysOf(new.list)'
<1>1. Held' = Held /\ (NoRelay' <=> NoRelay)
  BY HeldStays
<1> QED
  BY <1>1 DEF RelaysOf, NoRelay

\* A method that has nothing to do with relays, at work or begun.
LEMMA OtherPlace ==
    ASSUME Inventory, UNCHANGED <<subs, rtag, relayOn, status, mode, steps, new, past>>,
           Place \notin {"unrelay", "transit"},
           (outbounds' = outbounds /\ Rules' = Rules) \/ (Held' = Held /\ (NoRelay' <=> NoRelay))
    PROVE  Inventory'
<1>1. Place' = Place
  BY DEF Place
<1>2. Held' = Held /\ (NoRelay' <=> NoRelay)
  BY HeldStays
<1>3. RelaysOf(subs)' <=> RelaysOf(subs)
  BY <1>2 DEF RelaysOf
<1>4. RelaysOf(new.list)' <=> RelaysOf(new.list)
  BY <1>2 DEF RelaysOf
<1>5. (HoldsOld' <=> HoldsOld) /\ (Unrelayed' <=> Unrelayed) /\ (HoldsNew' <=> HoldsNew)
  BY <1>1 DEF HoldsOld, Unrelayed, HoldsNew, In
<1> QED
  BY <1>1, <1>2, <1>3, <1>4, <1>5 DEF Inventory

\* A failure leaves nothing to say: it is an aborted sync, or a panic.
LEMMA FailInventory ==
    ASSUME Fails \/ Panic
    PROVE  Inventory'
<1>1. CASE "aborted" \in past'
  BY <1>1 DEF Inventory
<1>2. CASE Panic
  <2>1. status' = "panic" /\ Place' = "none"
    BY <1>2 DEF Panic, Place, PlaceOf
  <2> QED
    BY <2>1 DEF Inventory, HoldsOld, Unrelayed, HoldsNew, In
<1> QED
  BY <1>1, <1>2 DEF Fails

\* No call is due in the next state, which is at another place.
LEMMA Arrives ==
    ASSUME todo' = <<>>, "aborted" \notin past => "aborted" \notin past',
           "aborted" \notin past' =>
              /\ status' = "off" \/ Place' = "off" => NoRelay'
              /\ HoldsOld' => RelaysOf(subs)'
              /\ Unrelayed' => NoRelay' /\ ~relayOn'
              /\ HoldsNew' => RelaysOf(new.list)'
    PROVE  Inventory'
<1>1. ~Busy'
  BY DEF Busy
<1> QED
  BY <1>1 DEF Inventory

\* Nothing has changed but what the panel holds.
LEMMA SameInventory ==
    ASSUME Inventory, UNCHANGED <<ctrl, relayOn, job, core>>
    PROVE  Inventory'
<1>1. /\ UNCHANGED <<subs, rtag, relayOn, status, mode, steps, todo, new, past>>
      /\ UNCHANGED <<outbounds, rules>>
  BY DEF ctrl, job, core
<1>2. Rules' = Rules
  BY <1>1 DEF Rules
<1>3. Held' = Held /\ (NoRelay' <=> NoRelay)
  BY <1>1, <1>2, HeldStays
<1>4. (RelaysOf(subs)' <=> RelaysOf(subs)) /\ (RelaysOf(new.list)' <=> RelaysOf(new.list))
  BY <1>1, <1>2, RelaysOfStays
<1>5. Place' = Place /\ (Busy' <=> Busy)
  BY <1>1 DEF Place, Busy
<1>6. (HoldsOld' <=> HoldsOld) /\ (Unrelayed' <=> Unrelayed) /\ (HoldsNew' <=> HoldsNew)
  BY <1>1, <1>5 DEF HoldsOld, Unrelayed, HoldsNew, In
<1>7. (Removing' <=> Removing) /\ (Adding' <=> Adding)
  BY <1>1, <1>2, <1>3 DEF Removing, Adding, Telling, TheCall
<1> QED
  BY <1>1, <1>3, <1>4, <1>5, <1>6, <1>7 DEF Inventory

\* A node that is off holds no relay when it starts.
LEMMA StartInventory ==
    ASSUME Inv, Inventory, Start
    PROVE  Inventory'
<1>1. /\ status = "off" /\ todo' = <<>> /\ past' = past /\ relayOn' = FALSE
      /\ status' = "up" /\ mode' = "start" /\ steps' = Order.start
      /\ outbounds' = outbounds /\ rules' = rules
  BY DEF Start, Idle, core
<1>2. Rules' = Rules
  BY <1>1 DEF Rules
<1>3. Place' = "transit"
  BY <1>1, FirstPlaces DEF Place
<1>4. "aborted" \notin past => NoRelay'
  BY <1>1, <1>2, HeldStays DEF Inventory
<1>5. ~HoldsOld' /\ ~HoldsNew'
  BY <1>1, <1>3 DEF HoldsOld, HoldsNew, In
<1> QED
  BY <1>1, <1>3, <1>4, <1>5, Arrives

\* A sync and a close begin with the relays of the list the controller has.
LEMMA SyncInventory ==
    ASSUME Inv, Inventory, Sync \/ Close
    PROVE  Inventory'
<1>1. /\ status = "up" /\ steps = <<>> /\ todo' = <<>> /\ past' = past /\ status' = "up"
      /\ UNCHANGED <<subs, rtag, relayOn, outbounds, rules>>
      /\ \/ mode' \in {"rebuild", "keep"} /\ steps' = Order[mode']
         \/ mode' = "close" /\ steps' = Order.close
  BY DEF Sync, Close, Idle, core, ctrl
<1>2. Rules' = Rules
  BY <1>1 DEF Rules
<1>3. Place = "none"
  BY <1>1 DEF Place, PlaceOf
<1>4. \/ mode' \in {"rebuild", "keep"} /\ Place' = "unrelay"
      \/ mode' = "close" /\ Place' = "unblock"
  BY <1>1, FirstPlaces DEF Place
<1>5. "aborted" \notin past => RelaysOf(subs)
  BY <1>1, <1>3 DEF Inventory, HoldsOld
<1>6. RelaysOf(subs)' <=> RelaysOf(subs)
  BY <1>1, <1>2, RelaysOfStays
<1>7. ~Unrelayed' /\ ~HoldsNew'
  BY <1>4 DEF Unrelayed, HoldsNew, In
<1> QED
  BY <1>1, <1>4, <1>5, <1>6, <1>7, Arrives

\* A step of the controller's own, which calls nothing.
LEMMA AdoptInventory ==
    ASSUME Inv, Inventory, Adopt \/ NotRelaying
    PROVE  Inventory'
<1>1. /\ At("adopt") \/ At("transit")
      /\ todo' = <<>> /\ steps' = Tail(steps)
      /\ UNCHANGED <<subs, rtag, relayOn, status, mode, new, outbounds, rules>>
      /\ "aborted" \in past' <=> "aborted" \in past
  BY DEF Adopt, NotRelaying, At, core, ctrl
<1>2. /\ Place \in {"adopt", "transit"} /\ ~Busy /\ steps # <<>> /\ status = "up"
      /\ mode \in {"start", "rebuild", "keep", "close"} /\ Place \in DOMAIN After[mode]
  BY <1>1, AtMethod
<1>3. Place' = After[mode][Place]
  BY <1>1, <1>2, NextPlace DEF Inv, Place
<1>4. \/ Place = "adopt" /\ mode \in {"rebuild", "keep"} /\ Place' = "transit"
      \/ Place = "transit" /\ Place' \in {"blackhole", "inbound", "end"}
  BY <1>2, <1>3 DEF After
<1>5. Unrelayed
  BY <1>2, <1>4 DEF Unrelayed, In
<1>6. Rules' = Rules
  BY <1>1 DEF Rules
<1>7. "aborted" \notin past' => NoRelay' /\ ~relayOn' /\ RelaysOf(new.list)'
  BY <1>1, <1>5, <1>6, HeldStays, RelaysOfStays DEF Inventory
<1>8. ~HoldsOld'
  BY <1>4 DEF HoldsOld, In
<1> QED
  BY <1>1, <1>2, <1>4, <1>7, <1>8, Arrives

\* The new list becomes the controller's.
LEMMA FinishInventory ==
    ASSUME Inv, Inventory, Finish
    PROVE  Inventory'
<1>1. /\ At("end") \/ At("off")
      /\ subs' = IF At("end") THEN new.list ELSE subs
      /\ status' = IF At("end") THEN "up" ELSE "off"
      /\ todo' = <<>> /\ steps' = <<>>
      /\ UNCHANGED <<rtag, relayOn, past, outbounds, rules>>
  BY DEF Finish, At, core
<1>2. Place' = "none"
  BY <1>1 DEF Place, PlaceOf
<1>3. Rules' = Rules
  BY <1>1 DEF Rules
<1>4. Held' = Held /\ (NoRelay' <=> NoRelay)
  BY <1>1, <1>3, HeldStays
<1>5. ~Unrelayed' /\ ~HoldsNew'
  BY <1>2 DEF Unrelayed, HoldsNew, In
<1>6. CASE At("end")
  <2>1. Place = "end"
    BY <1>6, AtMethod
  <2>2. "aborted" \notin past => RelaysOf(new.list)
    BY <2>1 DEF Inventory, HoldsNew
  <2>3. subs' = new.list /\ status' = "up"
    BY <1>1, <1>6
  <2>4. RelaysOf(new.list) => RelaysOf(subs)'
    BY <1>1, <1>4, <2>3 DEF RelaysOf
  <2> QED
    BY <1>1, <1>2, <1>5, <2>2, <2>3, <2>4, Arrives
<1>7. CASE ~At("end")
  <2>1. Place = "off" /\ status' = "off"
    BY <1>1, <1>7, AtMethod
  <2>2. "aborted" \notin past => NoRelay'
    BY <1>4, <2>1 DEF Inventory
  <2>3. ~HoldsOld'
    BY <1>2, <2>1 DEF HoldsOld, In
  <2> QED
    BY <1>1, <1>5, <2>2, <2>3, Arrives
<1> QED
  BY <1>6, <1>7

\* RemoveRelayRules and RemoveRelayTag remove all that the core has of relays.
LEMMA RemoveRelayInventory ==
    ASSUME Inv, Inventory, RemoveRelay
    PROVE  Inventory'
<1>1. /\ At("unrelay") /\ Busy' /\ outbounds' = outbounds /\ rules' = rules
      /\ UNCHANGED <<subs, rtag, relayOn, status, mode, steps, new, past>>
  <2>1. /\ At("unrelay") /\ outbounds' = outbounds /\ rules' = rules
        /\ UNCHANGED <<subs, rtag, relayOn, status, mode, steps, new, past>>
    BY DEF RemoveRelay, Makes, core, ctrl
  <2>2. Unrelaying'
    BY RemovalsUnrelay
  <2>3. todo' # <<>>
    <3>1. IF relayOn THEN Removals(todo', subs) ELSE todo' = <<Return>>
      BY RemovalsMade
    <3>2. CASE relayOn
      <4>1. Len(todo') \in Nat \ {0}
        BY <3>1, <3>2, RemovalsShape DEF Inv, Typed
      <4> QED
        BY <4>1
    <3>3. CASE ~relayOn
      BY <3>1, <3>3
    <3> QED
      BY <3>2, <3>3
  <2> QED
    BY <2>1, <2>3 DEF Busy
<1>2. Place = "unrelay" /\ ~Busy /\ Place' = Place
  BY <1>1, AtMethod DEF Place
<1>3. Rules' = Rules
  BY <1>1 DEF Rules
<1>4. "aborted" \notin past => RelaysOf(subs)
  BY <1>2 DEF Inventory, HoldsOld
<1>5. ~HoldsOld' /\ ~Unrelayed' /\ ~HoldsNew'
  BY <1>1, <1>2 DEF HoldsOld, Unrelayed, HoldsNew, In
<1>6. status # "off"
  BY <1>1, AtMethod
<1>7. ASSUME "aborted" \notin past PROVE Removing'
  <2>1. CASE relayOn
    <3>1. Removals(todo', subs)
      BY <2>1, RemovalsMade
    <3>2. Sequence(subs) /\ Sequence(todo')
      BY <3>1, ListIs DEF Inv, Typed, Removals
    <3>3. PICK n : n = Len(subs)
      OBVIOUS
    <3>4. n \in Nat /\ DOMAIN subs = 1..n /\ DOMAIN todo' = 1..Len(todo') /\ Len(todo') \in Nat
      BY <3>2, <3>3, SequenceIs
    <3>5. /\ Len(todo') = n + n + (IF mode = "close" THEN 0 ELSE 1) + 1
          /\ \A i \in 1..n : /\ todo'[i] = TheCall("delRule", RelayOf(rtag, subs[i]))
                             /\ todo'[n + i] = TheCall("delOutbound", RelayOf(rtag, subs[i]))
          /\ mode # "close" => todo'[n + n + 1] = TheCall("relay", FALSE)
      BY <3>1, <3>3 DEF Removals
    <3>6. \A i \in 1..n : i \in DOMAIN todo' /\ n + i \in DOMAIN todo'
      BY <3>4, <3>5
    <3>7. mode # "close" => n + n + 1 \in DOMAIN todo'
      BY <3>4, <3>5
    <3>8. ASSUME NEW o \in outbounds \cup Rules, o.of.relay = TRUE
          PROVE  /\ \E i \in DOMAIN todo' : todo'[i] = TheCall("delRule", o)
                 /\ \E i \in DOMAIN todo' : todo'[i] = TheCall("delOutbound", o)
      <4>1. PICK k \in DOMAIN subs : o = RelayOf(rtag, subs[k])
        BY <1>4, <1>7, <3>8 DEF RelaysOf, Held
      <4>2. k \in 1..n
        BY <3>4
      <4> QED
        BY <3>5, <3>6, <4>1, <4>2
    <3>9. mode # "close" => \E i \in DOMAIN todo' : todo'[i].op = "relay"
      BY <3>5, <3>7 DEF TheCall
    <3> QED
      BY <1>1, <1>3, <3>8, <3>9 DEF Removing, Telling, TheCall
  <2>2. CASE ~relayOn
    <3>1. Held = {}
      BY <1>4, <1>7, <2>2 DEF RelaysOf, NoRelay
    <3>2. \A o \in outbounds \cup Rules : o.of.relay # TRUE
      BY <3>1 DEF Held
    <3> QED
      BY <1>1, <1>3, <2>2, <3>2 DEF Removing
  <2> QED
    BY <2>1, <2>2
<1> QED
  BY <1>1, <1>2, <1>5, <1>6, <1>7 DEF Inventory

\* AddRelayTag begins when the core has no relay.
LEMMA AddRelayInventory ==
    ASSUME Inv, Inventory, AddRelayTag
    PROVE  Inventory'
<1>1. /\ UNCHANGED <<source, info, subs, tag, relayOn, mode, new, core>>
      /\ \/ Panic
         \/ Fails
         \/ RelayTodo(todo', new.list, rtag') /\ UNCHANGED <<status, steps, past>>
  BY RelayTagMakes
<1>2. CASE Panic \/ Fails
  BY <1>2, FailInventory
<1>3. CASE RelayTodo(todo', new.list, rtag') /\ UNCHANGED <<status, steps, past>>
  <2>1. Place = "transit" /\ ~Busy /\ Place' = "transit" /\ status' # "off"
    BY <1>3, AtMethod DEF Place, AddRelayTag
  <2>2. outbounds' = outbounds /\ Rules' = Rules
    BY <1>1 DEF core, Rules
  <2>3. "aborted" \notin past => Held' = {}
    BY <2>1, <2>2, HeldStays DEF Inventory, Unrelayed, NoRelay
  <2>4. /\ Sequence(todo') /\ Len(todo') >= 2
        /\ todo'[Len(todo') - 1] = TheCall("relay", TRUE)
    BY <1>3 DEF RelayTodo
  <2>5. DOMAIN todo' = 1..Len(todo') /\ Len(todo') \in Nat
    BY <2>4, SequenceIs
  <2>6. Len(todo') - 1 \in DOMAIN todo'
    BY <2>4, <2>5
  <2>7. Telling'
    BY <2>4, <2>6 DEF Telling, TheCall
  <2>8. Busy'
    BY <2>4 DEF Busy
  <2>9. ~HoldsOld' /\ ~Unrelayed' /\ ~HoldsNew'
    BY <2>1, <2>8 DEF HoldsOld, Unrelayed, HoldsNew, In
  <2>10. "aborted" \notin past => Adding'
    BY <2>3, <2>7 DEF Adding
  <2> QED
    BY <1>3, <2>1, <2>9, <2>10 DEF Inventory
<1> QED
  BY <1>1, <1>2, <1>3

\* The core removes one of them.
LEMMA UnrelayInventory ==
    ASSUME Inv, Inventory, CallMade, Place = "unrelay", Head(todo) # Return
    PROVE  Inventory'
<1> DEFINE c == Head(todo)
<1>1. /\ Busy /\ todo # <<>> /\ todo' = Tail(todo) /\ Unrelaying
      /\ UNCHANGED <<subs, rtag, status, mode, new, past>>
  BY Effects DEF CallMade, Busy, Inv, Left
<1>2. /\ Len(todo) \in Nat \ {0} /\ Head(todo) = todo[1] /\ DOMAIN todo = 1..Len(todo)
      /\ DOMAIN todo' = 1..Len(todo) - 1
      /\ \A i \in 1..Len(todo) - 1 : todo'[i] = todo[i + 1]
  BY <1>1, Shift DEF Unrelaying
<1>3. Len(todo) # 1
  BY <1>1, <1>2 DEF Unrelaying
<1>4. 1 \in 1..Len(todo) - 1
  BY <1>2, <1>3
<1>5. Unrelays(c)
  BY <1>1, <1>2, <1>4 DEF Unrelaying
<1> HIDE DEF c
<1>6. c = Head(todo) /\ c = todo[1]
  BY <1>2 DEF c
<1>7. /\ c.op = "relay" => c.arg = FALSE
      /\ c.op \in {"delRule", "delOutbound", "relay"}
  BY <1>5 DEF Unrelays
<1>8. Place' = Place /\ status # "off"
  BY <1>6, <1>7, Effects DEF Place, PlaceOf, Inv, Typed
<1>9. /\ outbounds' = IF c.op = "delOutbound" THEN outbounds \ {c.arg} ELSE outbounds
      /\ Rules' = IF c.op = "delRule" THEN Rules \ {c.arg} ELSE Rules
      /\ relayOn' = IF c.op = "relay" THEN FALSE ELSE relayOn
  BY <1>6, <1>7, Effects, MadeRules DEF Inv
<1>10. ASSUME NEW i \in DOMAIN todo, todo[i] # c
       PROVE  i - 1 \in DOMAIN todo' /\ todo'[i - 1] = todo[i]
  <2>1. i - 1 \in 1..Len(todo) - 1 /\ (i - 1) + 1 = i
    BY <1>2, <1>6, <1>10
  <2> QED
    BY <1>2, <2>1
<1>11. ASSUME "aborted" \notin past PROVE Removing'
  <2>1. Removing
    BY <1>1, <1>11 DEF Inventory
  <2>2. ASSUME NEW o \in outbounds', o.of.relay = TRUE
        PROVE  \E i \in DOMAIN todo' : todo'[i] = TheCall("delOutbound", o)
    <3>1. o \in outbounds /\ c # TheCall("delOutbound", o)
      BY <1>9, <2>2 DEF TheCall
    <3>2. PICK i \in DOMAIN todo : todo[i] = TheCall("delOutbound", o)
      BY <2>1, <2>2, <3>1 DEF Removing
    <3> QED
      BY <1>10, <3>1, <3>2
  <2>3. ASSUME NEW o \in Rules', o.of.relay = TRUE
        PROVE  \E i \in DOMAIN todo' : todo'[i] = TheCall("delRule", o)
    <3>1. o \in Rules /\ c # TheCall("delRule", o)
      BY <1>9, <2>3 DEF TheCall
    <3>2. PICK i \in DOMAIN todo : todo[i] = TheCall("delRule", o)
      BY <2>1, <2>3, <3>1 DEF Removing
    <3> QED
      BY <1>10, <3>1, <3>2
  <2>4. ASSUME mode' # "close", relayOn' PROVE Telling'
    <3>1. c.op # "relay" /\ relayOn /\ mode # "close"
      BY <1>1, <1>9, <2>4
    <3>2. PICK i \in DOMAIN todo : todo[i].op = "relay"
      BY <2>1, <3>1 DEF Removing, Telling
    <3>3. todo[i] # c
      BY <3>1, <3>2
    <3> QED
      BY <1>10, <3>2, <3>3 DEF Telling
  <2> QED
    BY <2>2, <2>3, <2>4 DEF Removing, TheCall
<1>12. ~HoldsOld' /\ ~Unrelayed' /\ ~HoldsNew'
  <2>1. 1 \in DOMAIN todo'
    BY <1>2, <1>4
  <2>2. Busy'
    BY <2>1 DEF Busy
  <2> QED
    BY <1>8, <2>2 DEF HoldsOld, Unrelayed, HoldsNew, In
<1> QED
  BY <1>1, <1>8, <1>11, <1>12 DEF Inventory

\* The core adds one.
LEMMA TransitInventory ==
    ASSUME Inv, Inventory, CallMade, Place = "transit", Head(todo) # Return
    PROVE  Inventory'
<1> DEFINE c == Head(todo)
<1>1. /\ Busy /\ todo # <<>> /\ todo' = Tail(todo) /\ Relaying
      /\ UNCHANGED <<subs, rtag, status, mode, new, past>>
  BY Effects DEF CallMade, Busy, Inv, Left
<1>2. /\ Len(todo) \in Nat \ {0} /\ Head(todo) = todo[1] /\ DOMAIN todo = 1..Len(todo)
      /\ DOMAIN todo' = 1..Len(todo) - 1
      /\ \A i \in 1..Len(todo) - 1 : todo'[i] = todo[i + 1]
  BY <1>1, Shift DEF Relaying
<1>3. Len(todo) # 1
  BY <1>1, <1>2 DEF Relaying
<1>4. 1 \in 1..Len(todo) - 1
  BY <1>2, <1>3
<1>5. AddsRelay(c)
  BY <1>1, <1>2, <1>4 DEF Relaying
<1> HIDE DEF c
<1>6. c = Head(todo) /\ c = todo[1]
  BY <1>2 DEF c
<1>7. \/ c.op = "relay" /\ c.arg = TRUE
      \/ c.op = "addOutbound" /\ \E k \in DOMAIN new.list : c.arg = RelayOf(rtag, new.list[k])
      \/ c.op = "addRule" /\ \E k \in DOMAIN new.list : c.arg.tag = RelayOf(rtag, new.list[k])
  BY <1>5 DEF AddsRelay, TheCall, RelayRouterBuilder
<1>8. Place' = Place /\ status # "off"
  BY <1>6, <1>7, Effects DEF Place, PlaceOf, Inv, Typed
<1>9. /\ outbounds' = IF c.op = "addOutbound" THEN outbounds \cup {c.arg} ELSE outbounds
      /\ Rules' = IF c.op = "addRule" THEN Rules \cup {c.arg.tag} ELSE Rules
      /\ relayOn' = IF c.op = "relay" THEN TRUE ELSE relayOn
  BY <1>6, <1>7, Effects, MadeRules DEF Inv
<1>10. ASSUME "aborted" \notin past PROVE Adding'
  <2>1. Adding
    BY <1>1, <1>10 DEF Inventory
  <2>2. ASSUME NEW o \in Held' PROVE \E k \in DOMAIN new.list : o = RelayOf(rtag, new.list[k])
    <3>1. o \in outbounds' \cup Rules' /\ o.of.relay = TRUE
      BY <2>2 DEF Held
    <3>2. \/ o \in Held
          \/ c.op = "addOutbound" /\ o = c.arg
          \/ c.op = "addRule" /\ o = c.arg.tag
      BY <1>9, <3>1 DEF Held
    <3> QED
      BY <1>7, <2>1, <3>2 DEF Adding
  <2>3. relayOn' \/ Telling'
    <3> SUFFICES ASSUME ~relayOn' PROVE Telling'
      OBVIOUS
    <3>1. c.op # "relay" /\ ~relayOn
      BY <1>9
    <3>2. PICK i \in DOMAIN todo : todo[i].op = "relay"
      BY <2>1, <3>1 DEF Adding, Telling
    <3>3. i # 1
      BY <1>6, <3>1, <3>2
    <3>4. i - 1 \in 1..Len(todo) - 1 /\ (i - 1) + 1 = i
      BY <1>2, <3>3
    <3>5. i - 1 \in DOMAIN todo' /\ todo'[i - 1] = todo[i]
      BY <1>2, <3>4
    <3> QED
      BY <3>2, <3>5 DEF Telling
  <2> QED
    BY <1>1, <2>2, <2>3 DEF Adding
<1>11. ~HoldsOld' /\ ~Unrelayed' /\ ~HoldsNew'
  <2>1. 1 \in DOMAIN todo'
    BY <1>2, <1>4
  <2>2. Busy'
    BY <2>1 DEF Busy
  <2> QED
    BY <1>8, <2>2 DEF HoldsOld, Unrelayed, HoldsNew, In
<1> QED
  BY <1>1, <1>8, <1>10, <1>11 DEF Inventory

\* A method is left when nothing of it is due any more.
LEMMA ReturnInventory ==
    ASSUME Inv, Inventory, CallMade, Head(todo) = Return
    PROVE  Inventory'
<1>1. /\ todo' = <<>> /\ todo = <<Return>> /\ UNCHANGED <<core, mode, status, past>>
      /\ Busy
  BY ReturnPlaces DEF Busy, CallMade
<1>2. UNCHANGED <<subs, rtag, new, relayOn>>
  BY <1>1, Effects DEF Return, TheCall
<1>3. outbounds' = outbounds /\ Rules' = Rules
  BY <1>1 DEF core, Rules
<1>4. /\ NoRelay' <=> NoRelay
      /\ RelaysOf(subs)' <=> RelaysOf(subs)
      /\ RelaysOf(new.list)' <=> RelaysOf(new.list)
      /\ NoRelay => RelaysOf(subs)' /\ RelaysOf(new.list)'
  BY <1>2, <1>3, HeldStays, RelaysOfStays
<1>5. \A i \in DOMAIN todo : todo[i] = Return
  BY <1>1
<1>6. Return.op = "return"
  BY DEF Return, TheCall
<1>7. ~Telling
  BY <1>5, <1>6 DEF Telling
<1>8. "aborted" \notin past /\ Place = "unrelay" => NoRelay /\ (mode # "close" => ~relayOn)
  <2> SUFFICES ASSUME "aborted" \notin past, Place = "unrelay"
               PROVE  NoRelay /\ (mode # "close" => ~relayOn)
    OBVIOUS
  <2>1. Removing
    BY <1>1 DEF Inventory
  <2>2. \A o : TheCall("delOutbound", o) # Return /\ TheCall("delRule", o) # Return
    BY <1>6 DEF TheCall
  <2>3. \A o \in outbounds \cup Rules : o.of.relay # TRUE
    BY <1>5, <2>1, <2>2 DEF Removing
  <2> QED
    BY <1>7, <2>1, <2>3 DEF Removing, NoRelay, Held
<1>9. "aborted" \notin past /\ Place = "transit" => RelaysOf(new.list)
  BY <1>1, <1>7 DEF Inventory, Adding, RelaysOf
<1>10. /\ Place \in {"blackhole", "inbound"} => HoldsNew
       /\ In({"rebuild"}, {"unblock", "remove"}) => Unrelayed
       /\ In({"close"}, {"unblock", "remove"}) => HoldsOld
  BY DEF HoldsNew, Unrelayed, HoldsOld, In
<1>11. status' # "off" /\ status = status'
  BY <1>1, ReturnPlaces DEF Inv, Typed, Place, PlaceOf
<1>12. CASE Place' \in {"blackhole", "inbound", "end"}
  <2>1. Place \in {"blackhole", "inbound", "transit"}
    BY <1>12, ReturnPlaces
  <2>2. "aborted" \notin past => RelaysOf(new.list)
    BY <1>9, <1>10, <2>1 DEF Inventory
  <2>3. ~HoldsOld' /\ ~Unrelayed'
    BY <1>12 DEF HoldsOld, Unrelayed, In
  <2> QED
    BY <1>1, <1>4, <1>11, <1>12, <2>2, <2>3, Arrives
<1>13. CASE mode \in {"rebuild", "keep"} /\ Place' \in {"unblock", "remove", "adopt"}
  <2>1. Place = "unrelay" \/ In({"rebuild"}, {"unblock", "remove"})
    BY <1>13, ReturnPlaces DEF In
  <2>2. "aborted" \notin past => NoRelay /\ ~relayOn
    BY <1>8, <1>10, <1>13, <2>1 DEF Inventory
  <2>3. ~HoldsOld' /\ ~HoldsNew'
    BY <1>1, <1>13 DEF HoldsOld, HoldsNew, In
  <2> QED
    BY <1>1, <1>2, <1>4, <1>11, <1>13, <2>2, <2>3, Arrives
<1>14. CASE mode = "close" /\ Place' \in {"remove", "unrelay"}
  <2>1. In({"close"}, {"unblock", "remove"})
    BY <1>14, ReturnPlaces DEF In
  <2>2. "aborted" \notin past => RelaysOf(subs)
    BY <1>10, <2>1 DEF Inventory
  <2>3. ~Unrelayed' /\ ~HoldsNew'
    BY <1>1, <1>14 DEF Unrelayed, HoldsNew, In
  <2> QED
    BY <1>1, <1>4, <1>11, <1>14, <2>2, <2>3, Arrives
<1>15. CASE mode = "close" /\ Place' = "off"
  <2>1. Place = "unrelay"
    BY <1>15, ReturnPlaces
  <2>2. ~HoldsOld' /\ ~Unrelayed' /\ ~HoldsNew'
    BY <1>1, <1>15 DEF HoldsOld, Unrelayed, HoldsNew, In
  <2> QED
    BY <1>1, <1>4, <1>8, <2>1, <2>2, Arrives
<1> QED
  BY <1>12, <1>13, <1>14, <1>15, ReturnPlaces

\* The calls of the other methods: none is about a relay.
LEMMA OtherCalls ==
    ASSUME Inv, CallMade, Place \notin {"unrelay", "transit"}, Head(todo) # Return,
           NEW c, c = Head(todo)
    PROVE  /\ c.op \notin {"relay", "return"}
           /\ c.op \in {"addOutbound", "delOutbound", "delRule"} => c.arg.of.relay = FALSE
           /\ c.op = "addRule" => c.arg.tag.of.relay = FALSE
<1>1. /\ Left /\ Place \in {"unblock", "remove", "inbound", "blackhole"} /\ todo # <<>>
      /\ ~Refused(c) /\ todo' = Tail(todo) /\ UNCHANGED <<tag, info>>
  BY Effects DEF Inv, Left, Busy, CallMade
<1>2. /\ Own(tag).of.relay = FALSE /\ Blackhole(tag).of.relay = FALSE
      /\ DefaultTag.of.relay = FALSE
  BY PartsDiffer DEF Inv
<1>3. CASE Place = "unblock"
  <2>1. todo \in {Unblock1, Unblock2, Unblock3}
    BY <1>1, <1>3 DEF Left, Busy
  <2>2. /\ Head(Unblock1) = Return /\ Head(Unblock2) = TheCall("delOutbound", Blackhole(tag))
        /\ Head(Unblock3) = TheCall("delRule", Blackhole(tag))
    BY DEF Unblock1, Unblock2, Unblock3
  <2>3. c \in {TheCall("delOutbound", Blackhole(tag)), TheCall("delRule", Blackhole(tag))}
    BY <2>1, <2>2
  <2> QED
    BY <1>2, <2>3 DEF TheCall
<1>4. CASE Place = "remove"
  <2>1. todo \in {Remove1, Remove2, Remove3, Remove4}
    BY <1>1, <1>4 DEF Left, Busy
  <2>2. /\ Head(Remove1) = Return /\ Head(Remove2) = TheCall("delRule", DefaultTag)
        /\ Head(Remove3) = TheCall("delOutbound", Own(tag))
        /\ Head(Remove4) = TheCall("delInbound", tag)
    BY DEF Remove1, Remove2, Remove3, Remove4
  <2>3. c \in {TheCall("delRule", DefaultTag), TheCall("delOutbound", Own(tag)),
               TheCall("delInbound", tag)}
    BY <2>1, <2>2
  <2> QED
    BY <1>2, <2>3 DEF TheCall
<1>5. CASE Place = "inbound"
  <2>1. Listening
    BY <1>1, <1>5 DEF Left, Busy
  <2>2. c \in {AddsDefault, TheCall("addOutbound", Own(tag)), AddsInbound}
    BY <1>1, <2>1, ListeningCall
  <2>3. DefaultRouterBuilder(tag).tag = DefaultTag
    BY DEF DefaultRouterBuilder, DefaultTag
  <2> QED
    BY <1>2, <2>2, <2>3 DEF TheCall, AddsDefault, AddsInbound
<1>6. CASE Place = "blackhole"
  <2>1. Blocking
    BY <1>1, <1>6 DEF Left, Busy
  <2>2. c = AddsBlackhole \/ \E r : BlockRule(r) /\ c = TheCall("addRule", r)
    BY <1>1, <2>1, BlockingCall
  <2>3. CASE c = AddsBlackhole
    BY <1>2, <2>3 DEF TheCall, AddsBlackhole
  <2>4. ASSUME NEW r, BlockRule(r), c = TheCall("addRule", r)
        PROVE  c.op = "addRule" /\ c.arg.tag.of.relay = FALSE
    <3>1. c.op = "addRule" /\ c.arg = r
      BY <2>4 DEF TheCall
    <3>2. r.tag = Blackhole(tag)
      BY <2>4 DEF BlockRule
    <3> QED
      BY <1>2, <3>1, <3>2
  <2> QED
    BY <2>2, <2>3, <2>4
<1> QED
  BY <1>1, <1>3, <1>4, <1>5, <1>6

\* So they leave the relays alone.
LEMMA OtherInventory ==
    ASSUME Inv, Inventory, CallMade, Place \notin {"unrelay", "transit"}, Head(todo) # Return
    PROVE  Inventory'
<1> DEFINE c == Head(todo)
<1> HIDE DEF c
<1>1. c = Head(todo)
  BY DEF c
<1>2. /\ c.op \notin {"relay", "return"}
      /\ c.op \in {"addOutbound", "delOutbound", "delRule"} => c.arg.of.relay = FALSE
      /\ c.op = "addRule" => c.arg.tag.of.relay = FALSE
  BY <1>1, OtherCalls
<1>3. UNCHANGED <<subs, rtag, relayOn, status, mode, steps, new, past>>
  BY <1>1, <1>2, Effects
<1>4. \A o : o.of.relay = TRUE => (o \in outbounds' <=> o \in outbounds)
  BY <1>1, <1>2, Effects
<1>5. \A o : o.of.relay = TRUE => (o \in Rules' <=> o \in Rules)
  BY <1>1, <1>2, MadeRules DEF Inv
<1>6. Held' = Held
  BY <1>4, <1>5 DEF Held
<1> QED
  BY <1>3, <1>6, OtherPlace DEF NoRelay

\* Every step keeps the inventory,
LEMMA InventoryNext ==
    ASSUME Inv, Inventory, [Next]_vars
    PROVE  Inventory'
<1>1. CASE PanelChange \/ Unreadable \/ UNCHANGED vars
  <2>1. UNCHANGED <<ctrl, relayOn, job, core>>
    BY <1>1 DEF PanelChange, Unreadable, vars
  <2> QED
    BY <2>1, SameInventory
<1>2. CASE Start
  BY <1>2, StartInventory
<1>3. CASE Sync \/ Close
  BY <1>3, SyncInventory
<1>4. CASE RemoveRelay
  BY <1>4, RemoveRelayInventory
<1>5. CASE RemoveBlockingRules \/ RemoveTag
  <2>1. /\ At("unblock") \/ At("remove")
        /\ UNCHANGED <<subs, rtag, relayOn, status, mode, steps, new, past, outbounds, rules>>
    BY <1>5 DEF RemoveBlockingRules, RemoveTag, Makes, ctrl, core
  <2>2. Place \notin {"unrelay", "transit"}
    BY <2>1, AtMethod
  <2> QED
    BY <2>1, <2>2, OtherPlace DEF Rules
<1>6. CASE Adopt \/ NotRelaying
  BY <1>6, AdoptInventory
<1>7. CASE AddRelayTag
  BY <1>7, AddRelayInventory
<1>8. CASE NoTransit \/ CallRefused
  BY <1>8, FailInventory DEF NoTransit, CallRefused
<1>9. CASE AddTag \/ AddBlackHoleRuleTag
  <2>1. /\ At("inbound") \/ At("blackhole")
        /\ UNCHANGED <<subs, rtag, relayOn, mode, new, outbounds, rules>>
        /\ Panic \/ Fails \/ UNCHANGED <<status, steps, past>>
    BY <1>9 DEF AddTag, AddBlackHoleRuleTag, Makes, ctrl, core
  <2>2. CASE Panic \/ Fails
    BY <2>2, FailInventory
  <2>3. CASE UNCHANGED <<status, steps, past>>
    <3>1. Place \notin {"unrelay", "transit"}
      BY <2>1, AtMethod
    <3> QED
      BY <2>1, <2>3, <3>1, OtherPlace DEF Rules
  <2> QED
    BY <2>1, <2>2, <2>3
<1>10. CASE Finish
  BY <1>10, FinishInventory
<1>11. CASE CallMade
  BY <1>11, UnrelayInventory, TransitInventory, ReturnInventory, OtherInventory
<1>12. CASE Reboot
  <2>1. /\ outbounds' = {} /\ rules' = <<>> /\ relayOn' = FALSE /\ status' = "off"
        /\ steps' = steps /\ todo' = todo /\ steps = <<>> /\ todo = <<>>
    BY <1>12 DEF Reboot, Inv, Typed, Left, Busy, Place, PlaceOf
  <2>2. Place' = "none" /\ ~Busy'
    BY <2>1 DEF Place, PlaceOf, Busy
  <2>3. Held' = {}
    BY <2>1 DEF Held, Rules
  <2> QED
    BY <2>1, <2>2, <2>3 DEF Inventory, HoldsOld, Unrelayed, HoldsNew, NoRelay, In
<1> QED
  BY <1>1, <1>2, <1>3, <1>4, <1>5, <1>6, <1>7, <1>8, <1>9, <1>10, <1>11, <1>12 DEF Next

\* and it holds at first.
LEMMA InitInventory == Init => Inventory
<1> SUFFICES ASSUME Init PROVE Inventory
  OBVIOUS
<1>1. Held = {} /\ Place = "none" /\ ~Busy /\ status = "off"
  BY DEF Init, Held, Rules, Place, PlaceOf, Busy
<1> QED
  BY <1>1 DEF Inventory, HoldsOld, Unrelayed, HoldsNew, NoRelay, In

\* Without relays, inbound and blackhole there is nothing.
LEMMA InvClean == Inv /\ Inventory => Clean
<1> SUFFICES ASSUME Inv, Inventory, "aborted" \notin past,
                    (mode = "rebuild" /\ At("adopt")) \/ (status = "off" /\ Idle)
             PROVE  inbounds = {} /\ outbounds = {} /\ rules = <<>>
  BY DEF Clean
<1>1. ~Busy /\ (In({"rebuild"}, {"adopt"}) \/ status = "off")
  BY DEF At, Idle, Busy, In, Place, PlaceOf
<1>2. inbounds = {} /\ Blackhole(tag) \notin outbounds
  BY <1>1 DEF Inv, Inbound, BlackholeInv, NotListening, NotBlocking, In
<1>3. Held = {}
  BY <1>1 DEF Inventory, Unrelayed, NoRelay, In
<1>4. /\ \A o \in outbounds : o.of.relay = TRUE
      /\ \A k \in DOMAIN rules : RelayRule(rules[k])
  BY <1>1, <1>2, OnlyRelays
<1>5. outbounds = {}
  BY <1>3, <1>4 DEF Held
<1>6. DOMAIN rules = {}
  BY <1>3, <1>4 DEF Held, RelayRule, Rules
<1>7. rules = <<>>
  <2>1. Sequence(rules)
    BY DEF Inv, Ours
  <2>2. DOMAIN rules = 1..Len(rules) /\ Len(rules) \in Nat
    BY <2>1, SequenceIs
  <2>3. Len(rules) = 0
    BY <1>6, <2>2
  <2> QED
    BY <2>1, <2>3 DEF Sequence
<1> QED
  BY <1>2, <1>5, <1>7

(* When a sync adopts a new record nothing of the old one is in the core,   *)
(* and nothing is when the controller has been closed, unless a sync was    *)
(* aborted: every tag that an addition uses was removed by the list it was  *)
(* added with.                                                              *)
THEOREM NothingIsLeft == Spec => []Clean
<1>1. Inv /\ Inventory /\ [Next]_vars => Inventory'
  BY InventoryNext
<1> QED
  BY <1>1, Invariance, InitInventory, InvClean, PTL DEF Spec

-----------------------------------------------------------------------------
(* Where connections leave.                                                 *)

\* Can the record's outbound be built?
Builds == \E n \in info : OutboundBuilds(n)

AddsOwnOutbound == TheCall("addOutbound", Own(tag))

\* AddTag makes the calls that the record asks for.
Asked(c) ==
    /\ c.op = "refused" => ~Builds
    /\ c.op = "addOutbound" => Builds
    /\ c.op = "addRule" => ToDirect

\* An inbound has an outbound if there can be one, and a default rule only
\* if the record does not relay.
Exits ==
    /\ Own(tag) \in outbounds => Builds
    /\ DefaultTag \in Rules => ToDirect
    /\ Place = "inbound" => \A i \in DOMAIN todo : Asked(todo[i])
    /\ tag \in inbounds /\ Builds =>
          Own(tag) \in outbounds \/ (Place = "inbound" /\ Busy /\ Head(todo) = AddsOwnOutbound)

\* A step that leaves core, record and tag alone leaves the exits alone.
LEMMA SameExits ==
    ASSUME Exits, UNCHANGED <<info, tag, core>>, todo = <<>>,
           todo' = <<>> \/ Place' # "inbound"
    PROVE  Exits'
<1>1. /\ Builds' = Builds /\ ToDirect' = ToDirect /\ DefaultTag' = DefaultTag /\ Rules' = Rules
      /\ UNCHANGED <<inbounds, outbounds, tag>>
  BY DEF Builds, ToDirect, DefaultTag, Rules, core
<1>2. Own(tag) \in outbounds => Builds
  BY DEF Exits
<1>3. DefaultTag \in Rules => ToDirect
  BY DEF Exits
<1>4. tag \in inbounds /\ Builds => Own(tag) \in outbounds
  BY DEF Exits, Busy
<1>5. (Place = "inbound" => \A i \in DOMAIN todo : Asked(todo[i]))'
  BY DEF Asked
<1> QED
  BY <1>1, <1>2, <1>3, <1>4, <1>5 DEF Exits

\* A core that has nothing of the node has no exit of it.
LEMMA NoExits ==
    ASSUME Inv, NotListening, todo = <<>>
    PROVE  Exits
<1>1. inbounds = {}
  BY DEF Inv, Inbound
<1>2. todo # Remove2 /\ todo # Remove3
  BY DEF Remove2, Remove3
<1>3. Own(tag) \notin outbounds /\ DefaultTag \notin Rules
  BY <1>1, <1>2 DEF Inv, Inbound
<1> QED
  BY <1>1, <1>3 DEF Exits

\* A method that makes calls, fails or panics before it has made one.
LEMMA BeginExits ==
    ASSUME Inv, Exits, NEW m, At(m), m # "inbound", UNCHANGED <<info, tag, core>>,
           UNCHANGED steps \/ todo' = <<>>
    PROVE  Exits'
<1>1. todo = <<>> /\ Place = m
  BY AtMethod DEF At
<1>2. UNCHANGED steps => Place' = Place
  BY DEF Place
<1> QED
  BY <1>1, <1>2, SameExits

\* A method fails or panics with its next call unmade, or refused.
LEMMA FailExits ==
    ASSUME Exits, UNCHANGED <<info, tag, core>>, todo' = <<>>,
           todo = <<>> \/ Refused(Head(todo))
    PROVE  Exits'
<1>1. /\ Builds' = Builds /\ ToDirect' = ToDirect /\ DefaultTag' = DefaultTag /\ Rules' = Rules
      /\ UNCHANGED <<inbounds, outbounds, tag>>
  BY DEF Builds, ToDirect, DefaultTag, Rules, core
<1>2. Own(tag) \in outbounds => Builds
  BY DEF Exits
<1>3. DefaultTag \in Rules => ToDirect
  BY DEF Exits
<1>4. AddsOwnOutbound.op = "addOutbound" /\ AddsOwnOutbound.arg = Own(tag)
  BY DEF AddsOwnOutbound, TheCall
<1>5. tag \in inbounds /\ Builds => Own(tag) \in outbounds
  BY <1>4 DEF Exits, Busy, Refused
<1>6. (Place = "inbound" => \A i \in DOMAIN todo : Asked(todo[i]))'
  OBVIOUS
<1> QED
  BY <1>1, <1>2, <1>3, <1>5, <1>6 DEF Exits

\* AddTag begins: its calls are those that the record asks for.
LEMMA AddTagExits ==
    ASSUME Inv, Exits, AddTag
    PROVE  Exits'
<1>1. /\ steps # <<>> /\ Place = "inbound" /\ todo = <<>> /\ new.info = info
      /\ UNCHANGED <<info, tag, core>>
  BY AtMethod, NewIsInfo DEF AddTag, At, ctrl
<1>2. PICK n \in info :
          \/ Panic
          \/ Fails
          \/ Makes(Call("addInbound", tag)
                     \o (IF OutboundBuilds(n) THEN Call("addOutbound", Own(tag))
                         ELSE Call("refused", tag))
                     \o (IF Direct(n) THEN Call("addRule", DefaultRouterBuilder(tag))
                         ELSE NoCalls))
  BY <1>1, Zenon DEF AddTag
<1>3. CASE Panic \/ Fails
  BY <1>1, <1>3, FailExits DEF Panic, Fails
<1>4. CASE Makes(Call("addInbound", tag)
                     \o (IF OutboundBuilds(n) THEN Call("addOutbound", Own(tag))
                         ELSE Call("refused", tag))
                     \o (IF Direct(n) THEN Call("addRule", DefaultRouterBuilder(tag))
                         ELSE NoCalls))
  <2>1. (Builds <=> OutboundBuilds(n)) /\ (ToDirect <=> Direct(n))
    BY DEF Inv, Known, One, Builds, ToDirect
  <2>2. PICK c : c = IF OutboundBuilds(n) THEN AddsOwnOutbound ELSE TheCall("refused", tag)
    OBVIOUS
  <2>3. (IF OutboundBuilds(n) THEN Call("addOutbound", Own(tag)) ELSE Call("refused", tag)) = <<c>>
    BY <2>2, OneCall DEF AddsOwnOutbound
  <2>4. todo' = Append(<<AddsInbound>> \o <<c>> \o (IF Direct(n) THEN <<AddsDefault>> ELSE <<>>), Return)
    BY <1>4, <2>3, OneCall, Zenon DEF Makes, Return, TheCall, AddsInbound, AddsDefault, NoCalls
  <2>5. Asked(c) /\ Asked(AddsInbound) /\ Asked(Return)
    BY <2>1, <2>2 DEF Asked, AddsOwnOutbound, AddsInbound, Return, TheCall
  <2>6. Direct(n) => Asked(AddsDefault)
    BY <2>1 DEF Asked, AddsDefault, TheCall
  <2>7. \A i \in DOMAIN todo' : Asked(todo'[i])
    <3>1. CASE Direct(n)
      <4>1. todo' = Append(<<AddsInbound>> \o <<c>> \o <<AddsDefault>>, Return)
        BY <2>4, <3>1
      <4>2. todo' = <<AddsInbound, c, AddsDefault, Return>>
        BY <4>1, Todos
      <4> QED
        BY <2>5, <2>6, <3>1, <4>2
    <3>2. CASE ~Direct(n)
      <4>1. todo' = Append(<<AddsInbound>> \o <<c>> \o <<>>, Return)
        BY <2>4, <3>2
      <4>2. todo' = <<AddsInbound, c, Return>>
        BY <4>1, Todos
      <4> QED
        BY <2>5, <4>2
    <3> QED
      BY <3>1, <3>2
  <2>9. (\A i \in DOMAIN todo : Asked(todo[i]))'
    BY <2>7, <1>1 DEF Asked, Builds, ToDirect
  <2>10. /\ Builds' = Builds /\ ToDirect' = ToDirect /\ DefaultTag' = DefaultTag /\ Rules' = Rules
         /\ UNCHANGED <<inbounds, outbounds, tag>>
    BY <1>1 DEF Builds, ToDirect, DefaultTag, Rules, core
  <2>11. tag \in inbounds /\ Builds => Own(tag) \in outbounds
    BY <1>1 DEF Exits, Busy
  <2> QED
    BY <2>9, <2>10, <2>11 DEF Exits
<1> QED
  BY <1>2, <1>3, <1>4

\* Outside AddTag no call adds what AddTag adds, and the outbound goes after
\* the inbound.
LEMMA OtherAdditions ==
    ASSUME Inv, CallMade, Place # "inbound", NEW c, c = Head(todo)
    PROVE  /\ c.op = "addOutbound" => c.arg # Own(tag)
           /\ c.op = "addRule" => c.arg.tag # DefaultTag
           /\ c.op # "addInbound"
           /\ c.op = "delOutbound" /\ c.arg = Own(tag) => inbounds = {}
<1>1. /\ Left /\ Place \in {"unrelay", "unblock", "remove", "transit", "blackhole"}
      /\ Busy /\ todo # <<>> /\ ~Refused(c) /\ todo' = Tail(todo)
  BY DEF Inv, Left, Busy, CallMade
<1>2. /\ Own(tag).of.relay = FALSE /\ DefaultTag.of.relay = FALSE
      /\ Own(tag) # Blackhole(tag) /\ DefaultTag # Blackhole(tag)
  BY PartsDiffer DEF Inv
<1>3. CASE c = Return
  BY <1>3 DEF Return, TheCall
<1>4. CASE Place = "unblock" /\ c # Return
  <2>1. todo \in {Unblock1, Unblock2, Unblock3}
    BY <1>1, <1>4 DEF Left
  <2>2. /\ Head(Unblock1) = Return /\ Head(Unblock2) = TheCall("delOutbound", Blackhole(tag))
        /\ Head(Unblock3) = TheCall("delRule", Blackhole(tag))
    BY DEF Unblock1, Unblock2, Unblock3
  <2>3. c \in {TheCall("delOutbound", Blackhole(tag)), TheCall("delRule", Blackhole(tag))}
    BY <1>4, <2>1, <2>2
  <2> QED
    BY <1>2, <2>3 DEF TheCall
<1>5. CASE Place = "remove" /\ c # Return
  <2>1. todo \in {Remove1, Remove2, Remove3, Remove4}
    BY <1>1, <1>5 DEF Left
  <2>2. /\ Head(Remove1) = Return /\ Head(Remove2) = TheCall("delRule", DefaultTag)
        /\ Head(Remove3) = TheCall("delOutbound", Own(tag))
        /\ Head(Remove4) = TheCall("delInbound", tag)
    BY DEF Remove1, Remove2, Remove3, Remove4
  <2>3. \/ c \in {TheCall("delRule", DefaultTag), TheCall("delInbound", tag)}
        \/ todo = Remove3 /\ c = TheCall("delOutbound", Own(tag))
    BY <1>5, <2>1, <2>2
  <2>4. todo = Remove3 => inbounds = {}
    BY <1>5 DEF Inv, Inbound, NotListening
  <2> QED
    BY <2>3, <2>4 DEF TheCall
<1>6. CASE Place = "blackhole" /\ c # Return
  <2>1. Blocking
    BY <1>1, <1>6 DEF Left
  <2>2. c = AddsBlackhole \/ \E r : BlockRule(r) /\ c = TheCall("addRule", r)
    BY <1>1, <1>6, <2>1, BlockingCall
  <2>3. CASE c = AddsBlackhole
    BY <1>2, <2>3 DEF TheCall, AddsBlackhole
  <2>4. ASSUME NEW r, BlockRule(r), c = TheCall("addRule", r)
        PROVE  c.op = "addRule" /\ c.arg.tag = Blackhole(tag)
    BY <2>4 DEF TheCall, BlockRule
  <2> QED
    BY <1>2, <2>2, <2>3, <2>4
<1>7. CASE Place = "unrelay" /\ c # Return
  <2>1. Unrelaying
    BY <1>1, <1>7 DEF Left
  <2>2. Len(todo) \in Nat \ {0} /\ c = todo[1] /\ todo[Len(todo)] = Return
    BY <1>1, <2>1, Shift DEF Unrelaying
  <2>3. 1 \in 1..Len(todo) - 1
    BY <1>7, <2>2
  <2>4. Unrelays(c)
    BY <2>1, <2>2, <2>3 DEF Unrelaying
  <2> QED
    BY <1>2, <2>4 DEF Unrelays
<1>8. CASE Place = "transit" /\ c # Return
  <2>1. Relaying
    BY <1>1, <1>8 DEF Left
  <2>2. Len(todo) \in Nat \ {0} /\ c = todo[1] /\ todo[Len(todo)] = Return
    BY <1>1, <2>1, Shift DEF Relaying
  <2>3. 1 \in 1..Len(todo) - 1
    BY <1>8, <2>2
  <2>4. AddsRelay(c)
    BY <2>1, <2>2, <2>3 DEF Relaying
  <2>5. CASE c.op = "relay"
    BY <2>5
  <2>6. ASSUME NEW k \in DOMAIN new.list, c = TheCall("addOutbound", RelayOf(rtag, new.list[k]))
        PROVE  c.op = "addOutbound" /\ c.arg # Own(tag)
    BY <1>2, <2>4, <2>6 DEF TheCall, RelayOf, AddsRelay
  <2>7. ASSUME NEW k \in DOMAIN new.list, c = TheCall("addRule", RelayRouterBuilder(tag, rtag, new.list[k]))
        PROVE  c.op = "addRule" /\ c.arg.tag # DefaultTag
    BY <1>2, <2>4, <2>7 DEF TheCall, RelayOf, RelayRouterBuilder, AddsRelay
  <2> QED
    BY <2>4, <2>5, <2>6, <2>7 DEF AddsRelay
<1> QED
  BY <1>1, <1>3, <1>4, <1>5, <1>6, <1>7, <1>8

\* So their calls leave the exits alone.
LEMMA OtherExits ==
    ASSUME Inv, Exits, CallMade, Place # "inbound"
    PROVE  Exits'
<1>1. PICK c : c = Head(todo)
  OBVIOUS
<1>2. /\ c.op = "addOutbound" => c.arg # Own(tag)
      /\ c.op = "addRule" => c.arg.tag # DefaultTag
      /\ c.op # "addInbound"
      /\ c.op = "delOutbound" /\ c.arg = Own(tag) => inbounds = {}
  BY <1>1, OtherAdditions
<1>3. UNCHANGED <<info, tag>> /\ Builds' = Builds /\ ToDirect' = ToDirect /\ DefaultTag' = DefaultTag
  BY <1>1, Effects DEF Builds, ToDirect, DefaultTag
<1>4. inbounds' \subseteq inbounds
  BY <1>1, <1>2, Effects
<1>5. /\ Own(tag) \in outbounds' => Own(tag) \in outbounds
      /\ Own(tag) \in outbounds /\ inbounds # {} => Own(tag) \in outbounds'
  BY <1>1, <1>2, Effects
<1>6. DefaultTag \in Rules' => DefaultTag \in Rules
  BY <1>1, <1>2, MadeRules DEF Inv
<1>7. (Place = "inbound" => \A i \in DOMAIN todo : Asked(todo[i]))'
  <2>1. CASE c.op = "return"
    <3>1. Left /\ Busy /\ Place \in {"unrelay", "unblock", "remove", "transit", "blackhole"}
      BY DEF Inv, Left, Busy, CallMade
    <3>2. c = Return
      <4>1. ~Refused(c) /\ todo' = Tail(todo) /\ todo # <<>>
        BY <1>1, Effects
      <4>2. Place \notin {"unrelay", "transit"} => c = Return
        BY <1>1, <2>1, OtherCalls
      <4>3. CASE Place = "unrelay"
        <5>1. Len(todo) \in Nat \ {0} /\ c = todo[1] /\ todo[Len(todo)] = Return
          BY <1>1, <3>1, <4>1, <4>3, Shift DEF Unrelaying, Left
        <5>2. 1 \in 1..Len(todo) - 1 => Unrelays(c)
          BY <3>1, <4>3, <5>1 DEF Unrelaying, Left
        <5> QED
          BY <2>1, <5>1, <5>2 DEF Unrelays
      <4>4. CASE Place = "transit"
        <5>1. Len(todo) \in Nat \ {0} /\ c = todo[1] /\ todo[Len(todo)] = Return
          BY <1>1, <3>1, <4>1, <4>4, Shift DEF Relaying, Left
        <5>2. 1 \in 1..Len(todo) - 1 => AddsRelay(c)
          BY <3>1, <4>4, <5>1 DEF Relaying, Left
        <5>3. AddsRelay(c) => c.op \in {"relay", "addOutbound", "addRule"}
          BY DEF AddsRelay, TheCall
        <5> QED
          BY <2>1, <5>1, <5>2, <5>3
      <4> QED
        BY <4>2, <4>3, <4>4
    <3>3. todo = <<Return>>
      BY <1>1, <3>1, <3>2, LastCall
    <3>4. todo' = <<>>
      BY <1>1, <3>3, Effects
    <3> QED
      BY <3>4
  <2>2. CASE c.op # "return"
    BY <1>1, <2>2, Effects DEF Place
  <2> QED
    BY <2>1, <2>2
<1> QED
  BY <1>3, <1>4, <1>5, <1>6, <1>7 DEF Exits

\* What AddTag has left to do is a sequence.
LEMMA ListeningIs ==
    ASSUME Listening
    PROVE  Sequence(todo)
<1>1. CASE todo = <<Return>>
  <2>1. todo \in Seq({Return})
    BY <1>1
  <2> QED
    BY <2>1 DEF Sequence
<1>2. CASE todo = <<AddsDefault, Return>>
  <2>1. todo \in Seq({AddsDefault, Return})
    BY <1>2
  <2> QED
    BY <2>1 DEF Sequence
<1>3. ASSUME NEW c, todo = <<c, AddsDefault, Return>> PROVE Sequence(todo)
  <2>1. todo \in Seq({c, AddsDefault, Return})
    BY <1>3
  <2> QED
    BY <2>1 DEF Sequence
<1>4. ASSUME NEW c, todo = <<AddsInbound, c, AddsDefault, Return>> PROVE Sequence(todo)
  <2>1. todo \in Seq({AddsInbound, c, AddsDefault, Return})
    BY <1>4
  <2> QED
    BY <2>1 DEF Sequence
<1>5. ASSUME NEW c, todo = <<c, Return>> PROVE Sequence(todo)
  <2>1. todo \in Seq({c, Return})
    BY <1>5
  <2> QED
    BY <2>1 DEF Sequence
<1>6. ASSUME NEW c, todo = <<AddsInbound, c, Return>> PROVE Sequence(todo)
  <2>1. todo \in Seq({AddsInbound, c, Return})
    BY <1>6
  <2> QED
    BY <2>1 DEF Sequence
<1> QED
  BY <1>1, <1>2, <1>3, <1>4, <1>5, <1>6 DEF Listening

\* A call of AddTag is made.
LEMMA InboundExits ==
    ASSUME Inv, Exits, CallMade, Place = "inbound"
    PROVE  Exits'
<1>1. PICK c : c = Head(todo)
  OBVIOUS
<1>2. /\ Busy /\ Listening /\ todo' = Tail(todo) /\ todo # <<>> /\ ~Refused(c)
      /\ UNCHANGED <<info, tag, status, mode>>
  BY <1>1, Effects DEF CallMade, Busy, Inv, Left
<1>3. Builds' = Builds /\ ToDirect' = ToDirect /\ DefaultTag' = DefaultTag
  BY <1>2 DEF Builds, ToDirect, DefaultTag
<1>4. /\ Len(todo) \in Nat \ {0} /\ DOMAIN todo = 1..Len(todo) /\ c = todo[1]
      /\ DOMAIN todo' = 1..Len(todo) - 1
      /\ \A i \in 1..Len(todo) - 1 : todo'[i] = todo[i + 1]
  BY <1>1, <1>2, ListeningIs, Shift
<1>5. \A i \in DOMAIN todo : Asked(todo[i])
  BY DEF Exits
<1>6. Asked(c)
  BY <1>4, <1>5
<1>7. \A i \in DOMAIN todo' : Asked(todo'[i])
  BY <1>4, <1>5
<1>8. (Place = "inbound" => \A i \in DOMAIN todo : Asked(todo[i]))'
  BY <1>3, <1>7 DEF Asked
<1>9. CASE c = Return
  <2>1. c.op = "return" /\ c # AddsOwnOutbound
    BY <1>9 DEF Return, TheCall, AddsOwnOutbound
  <2>2. UNCHANGED <<inbounds, outbounds, rules>>
    BY <1>1, <2>1, Effects
  <2>3. Rules' = Rules
    BY <2>2 DEF Rules
  <2>4. tag \in inbounds /\ Builds => Own(tag) \in outbounds
    BY <1>1, <2>1 DEF Exits
  <2> QED
    BY <1>2, <1>3, <1>8, <2>2, <2>3, <2>4 DEF Exits
<1>10. CASE c # Return
  <2>1. \/ c = AddsDefault
        \/ c = AddsOwnOutbound
        \/ /\ c = AddsInbound
           /\ \E d \in AddsOwn : todo' = <<d, AddsDefault, Return>> \/ todo' = <<d, Return>>
    BY <1>1, <1>2, <1>10, ListeningCall DEF AddsOwnOutbound
  <2>2. CASE c = AddsDefault
    <3>1. c.op = "addRule" /\ c.arg.tag = DefaultTag /\ c # AddsOwnOutbound
      BY <2>2 DEF AddsDefault, TheCall, DefaultRouterBuilder, DefaultTag, AddsOwnOutbound
    <3>2. UNCHANGED <<inbounds, outbounds>> /\ Rules' = Rules \cup {DefaultTag} /\ ToDirect
      BY <1>1, <1>6, <3>1, Effects, MadeRules DEF Inv, Asked
    <3>3. tag \in inbounds /\ Builds => Own(tag) \in outbounds
      BY <1>1, <3>1 DEF Exits
    <3> QED
      BY <1>2, <1>3, <1>8, <3>2, <3>3 DEF Exits
  <2>3. CASE c = AddsOwnOutbound
    <3>1. c.op = "addOutbound" /\ c.arg = Own(tag)
      BY <2>3 DEF TheCall, AddsOwnOutbound
    <3>2. inbounds' = inbounds /\ outbounds' = outbounds \cup {Own(tag)} /\ Rules' = Rules /\ Builds
      BY <1>1, <1>6, <3>1, Effects, MadeRules DEF Inv, Asked
    <3> QED
      BY <1>2, <1>3, <1>8, <3>2 DEF Exits
  <2>4. ASSUME c = AddsInbound, NEW d \in AddsOwn, todo' = <<d, AddsDefault, Return>> \/ todo' = <<d, Return>>
        PROVE  Exits'
    <3>1. c.op = "addInbound" /\ c.arg = tag
      BY <2>4 DEF TheCall, AddsInbound
    <3>2. inbounds' = inbounds \cup {tag} /\ outbounds' = outbounds /\ Rules' = Rules
      BY <1>1, <3>1, Effects, MadeRules DEF Inv
    <3>3. Head(todo') = d /\ todo'[1] = d /\ 1 \in DOMAIN todo' /\ todo' # <<>>
      BY <2>4
    <3>4. Asked(d)
      BY <1>7, <3>3
    <3>5. Builds => d = AddsOwnOutbound
      BY <2>4, <3>4 DEF Asked, AddsOwn, AddsOwnOutbound, TheCall
    <3>6. AddsOwnOutbound' = AddsOwnOutbound
      BY <1>2 DEF AddsOwnOutbound
    <3>7. Place' = Place
      BY <1>1, <3>1, Effects DEF Place
    <3> QED
      BY <1>2, <1>3, <1>8, <3>2, <3>3, <3>5, <3>6, <3>7 DEF Exits, Busy
  <2> QED
    BY <2>1, <2>2, <2>3, <2>4
<1> QED
  BY <1>9, <1>10

\* The same of the state after a step.
LEMMA NoExitsThen == Inv' /\ NotListening' /\ (todo = <<>>)' => Exits'
<1>1. Inv /\ NotListening /\ todo = <<>> => Exits
  BY NoExits
<1> QED
  BY <1>1, PTL

\* Every step keeps the exits,
LEMMA ExitsNext ==
    ASSUME Inv, Exits, [Next]_vars
    PROVE  Exits'
<1>1. Inv'
  BY NextInv
<1>2. CASE PanelChange \/ Unreadable \/ Sync \/ Close \/ Finish
  <2>1. todo = <<>> /\ todo' = <<>> /\ UNCHANGED <<info, tag, core>>
    BY <1>2 DEF PanelChange, Unreadable, Sync, Close, Finish, Idle, At, ctrl, job
  <2> QED
    BY <2>1, SameExits
<1>3. CASE UNCHANGED vars
  BY <1>3 DEF Exits, vars, ctrl, job, core, Builds, ToDirect, DefaultTag, Rules, Place, Asked,
              Busy, AddsOwnOutbound
<1>4. CASE Start
  <2>1. /\ todo' = <<>> /\ mode' = "start" /\ steps' = Order.start
    BY <1>4 DEF Start, Idle
  <2>2. Place' = "transit"
    BY <2>1, FirstPlaces DEF Place
  <2>3. NotListening'
    BY <2>1, <2>2 DEF NotListening, In
  <2> QED
    BY <1>1, <2>1, <2>3, NoExitsThen
<1>5. CASE Reboot
  <2>1. todo = <<>> /\ todo' = <<>> /\ status' = "off"
    BY <1>5, FirstPlaces DEF Reboot, Inv, Typed, Left, Busy, Place
  <2>2. NotListening'
    BY <2>1 DEF NotListening
  <2> QED
    BY <1>1, <2>1, <2>2, NoExitsThen
<1>6. CASE Adopt
  <2>1. /\ steps # <<>> /\ Place = "adopt" /\ todo = <<>> /\ todo' = <<>> /\ steps' = Tail(steps)
        /\ mode \in {"start", "rebuild", "keep", "close"}
    BY <1>6, AtMethod DEF Adopt, At
  <2>2. /\ Place' = After[mode][Place] /\ Place \in DOMAIN After[mode]
    BY <2>1, NextPlace DEF Inv, Place
  <2>3. mode \in {"rebuild", "keep"} /\ Place' = "transit"
    BY <2>1, <2>2 DEF After
  <2>4. CASE mode = "keep"
    <3>1. info' = info /\ UNCHANGED <<tag, core>>
      BY <1>6, <2>1, <2>4 DEF Adopt, Inv, Known, In
    <3> QED
      BY <2>1, <3>1, SameExits
  <2>5. CASE mode = "rebuild"
    <3>1. NotListening'
      BY <1>6, <2>3, <2>5 DEF Adopt, NotListening, In
    <3> QED
      BY <1>1, <2>1, <3>1, NoExitsThen
  <2> QED
    BY <2>3, <2>4, <2>5
<1>7. CASE RemoveRelay \/ RemoveBlockingRules \/ RemoveTag \/ AddBlackHoleRuleTag
  <2>1. PICK m \in {"unrelay", "unblock", "remove", "blackhole"} : At(m)
    BY <1>7 DEF RemoveRelay, RemoveBlockingRules, RemoveTag, AddBlackHoleRuleTag
  <2>2. UNCHANGED <<info, tag, core, steps>>
    BY <1>7 DEF RemoveRelay, RemoveBlockingRules, RemoveTag, AddBlackHoleRuleTag, Makes, ctrl
  <2> QED
    BY <2>1, <2>2, BeginExits
<1>8. CASE NotRelaying \/ AddRelayTag \/ NoTransit
  <2>1. At("transit") /\ UNCHANGED <<info, tag, core>>
    BY <1>8 DEF NotRelaying, AddRelayTag, NoTransit, ctrl
  <2>2. UNCHANGED steps \/ todo' = <<>>
    <3>1. CASE NotRelaying
      BY <2>1, <3>1 DEF NotRelaying, At
    <3>2. CASE NoTransit
      BY <3>2 DEF NoTransit, Fails, Panic
    <3>3. CASE AddRelayTag
      BY <3>3, RelayTagMakes DEF Fails, Panic, Makes
    <3> QED
      BY <1>8, <3>1, <3>2, <3>3
  <2> QED
    BY <2>1, <2>2, BeginExits
<1>9. CASE AddTag
  BY <1>9, AddTagExits
<1>10. CASE CallRefused
  <2>1. todo' = <<>> /\ Refused(Head(todo)) /\ UNCHANGED <<info, tag, core>>
    BY <1>10 DEF CallRefused, Fails, Panic, ctrl
  <2> QED
    BY <2>1, FailExits
<1>11. CASE CallMade
  BY <1>11, OtherExits, InboundExits
<1> QED
  BY <1>2, <1>3, <1>4, <1>5, <1>6, <1>7, <1>8, <1>9, <1>10, <1>11 DEF Next

\* and they hold at first.
LEMMA InitExits == Init => Exits
<1> SUFFICES ASSUME Init PROVE Exits
  OBVIOUS
<1>1. NotListening /\ todo = <<>>
  BY DEF Init, NotListening
<1> QED
  BY <1>1, InitInv, NoExits

\* The first rule that matches is the default one, or leads where it does; where there is none the core's default is taken.
LEMMA InvOwnExit == Inv /\ Exits => OwnExit
<1> SUFFICES ASSUME Inv, Exits, Serving, NEW n \in info,
                    ~(n.rules.port # <<>> /\ Segments(n.rules.port) = {}), NEW k \in DOMAIN subs
             PROVE  Exit(buildUserTag(tag, subs[k]), "plain") =
                       IF 0 \in {n.relayType, n.relayNodeId} /\ OutboundBuilds(n)
                       THEN Own(tag) ELSE first
  BY DEF OwnExit
<1>1. todo = <<>> /\ ~Busy /\ tag \in inbounds
  BY DEF Serving, Idle, Busy
<1>2. Settled
  BY <1>1, IdleSettled DEF Inv
<1>3. /\ ToDirect <=> 0 \in {n.relayType, n.relayNodeId}
      /\ Builds <=> OutboundBuilds(n)
  BY DEF Inv, Known, One, ToDirect, Builds, Direct
<1>4. tag.relay = FALSE
  BY DEF Inv, Known
<1> DEFINE user == buildUserTag(tag, subs[k])
<1>5. "id" \notin DOMAIN user
  BY DEF buildUserTag
<1> HIDE DEF user
<1>6. ASSUME NEW l \in Matching(user, "plain") PROVE rules[l] = DefaultRouterBuilder(tag)
  <2>1. /\ l \in DOMAIN rules /\ KnownRule(rules[l]) /\ "plain" \in rules[l].matches
        /\ rules[l].users = {} \/ user \in rules[l].users
    BY DEF Matching, Inv, Ours
  <2>2. ~RelayRule(rules[l])
    BY <1>5, <2>1 DEF RelayRule
  <2>3. ~BlockRule(rules[l])
    BY <2>1 DEF BlockRule
  <2> QED
    BY <2>1, <2>2, <2>3 DEF KnownRule
<1>7. CASE ToDirect /\ Builds
  <2>1. DefaultTag \in Rules
    BY <1>1, <1>2, <1>7 DEF Exits, Settled
  <2>2. PICK d \in DOMAIN rules : rules[d].tag = DefaultTag
    BY <2>1 DEF Rules
  <2>3. rules[d] = DefaultRouterBuilder(tag)
    <3>1. ~BlockRule(rules[d]) /\ ~RelayRule(rules[d])
      BY <1>4, <2>2 DEF BlockRule, RelayRule, DefaultTag, Blackhole
    <3> QED
      BY <3>1 DEF Inv, Ours, KnownRule
  <2>4. d \in Matching(user, "plain")
    BY <2>3 DEF Matching, DefaultRouterBuilder, Kinds
  <2>5. \A l \in Matching(user, "plain") : rules[l].dest = Own(tag)
    BY <1>6 DEF DefaultRouterBuilder
  <2>6. Exit(user, "plain") = Own(tag)
    BY <2>4, <2>5, ExitOf
  <2> QED
    BY <1>3, <1>7, <2>6 DEF user
<1>8. CASE ~(ToDirect /\ Builds)
  <2>1. DefaultTag \notin Rules
    BY <1>2, <1>8 DEF Exits, Settled
  <2>2. Matching(user, "plain") = {}
    <3>1. ASSUME NEW l \in Matching(user, "plain") PROVE FALSE
      <4>1. rules[l].tag = DefaultTag /\ l \in DOMAIN rules
        BY <1>6, <3>1 DEF DefaultRouterBuilder, DefaultTag, Matching
      <4> QED
        BY <2>1, <4>1 DEF Rules
    <3> QED
      BY <3>1
  <2>3. Exit(user, "plain") = first
    BY <2>2 DEF Exit
  <2> QED
    BY <1>3, <1>8, <2>3 DEF user
<1> QED
  BY <1>7, <1>8

(* What the users of a node that serves leave by, when nothing blocks them, *)
(* for every panel and however many syncs failed: the node's own outbound   *)
(* if the record does not relay and the outbound can be built, and the      *)
(* core's default otherwise, also where a record names relay type 2 or      *)
(* AddTag added the inbound and then failed.                                *)
THEOREM OwnExitTaken == Spec => []OwnExit
<1>1. Spec => []Exits
  BY InitExits, ExitsNext, Invariance, PTL DEF Spec
<1> QED
  BY <1>1, Invariance, InvOwnExit, PTL

-----------------------------------------------------------------------------
(* A relay and the node it leads to.                                        *)

(* A port that selectSinglePort takes from a text is one of those that      *)
(* parsePortString makes an inbound listen to, if it takes that text at all. *)
LEMMA PortListened ==
    ASSUME NEW text, NEW port \in selectSinglePort(text),
           NEW ranges \in parsePortString(text)
    PROVE  port \in UNION ranges
  <1>1. PICK seg \in Segments(text) : \E R \in expandPortRange(seg) : port \in R
    BY DEF selectSinglePort
  <1>2. port \in From(seg)..To(seg)
    BY <1>1 DEF expandPortRange
  <1>3. From(seg)..To(seg) \in ranges
    BY DEF parsePortString
  <1> QED
    BY <1>2, <1>3

(* Both sides see the same transport and its settings, which are absent for *)
(* a transport that parseNetworkSettings does not know.                     *)
LEMMA SettingsKept ==
    ASSUME NEW net, NEW parsed \in parseNetworkSettings(net)
    PROVE  /\ parsed.settings = <<>> \/ \E x : parsed.settings = <<x>>
           /\ parsed.type = "splithttp" => parsed.settings = <<>>
           /\ parsed.type = "xhttp" => parsed.settings # <<>>
  <1>1. parsed = [type |-> net.type, settings |-> Settings(net)]
    BY DEF parseNetworkSettings
  <1>2. CASE net.type = "xhttp"
    BY <1>1, <1>2 DEF Settings, Parsed
  <1>3. CASE net.type \in Parsed \ {"xhttp"}
    BY <1>1, <1>3 DEF Settings, Parsed
  <1>4. CASE net.type \notin Parsed
    BY <1>1, <1>4 DEF Settings, Parsed
  <1> QED
    BY <1>2, <1>3, <1>4

(* What the inbound and the relay's outbound say of a transport other than  *)
(* xhttp is the same.                                                       *)
LEMMA CommonTransportAgrees ==
    ASSUME NEW net, NEW parsed \in parseNetworkSettings(net),
           parsed.type \in DOMAIN CoreTransport,
           CoreTransport[parsed.type] # "splithttp",
           NEW server \in ServerTransport(parsed),
           NEW client \in ClientTransport(parsed)
    PROVE  /\ server = applyCommonTransport(parsed) /\ client = server
           /\ server.name # "splithttp"
  <1>1. parsed.type # "xhttp"
    BY DEF CoreTransport
  <1>2. server = applyCommonTransport(parsed)
    BY DEF ServerTransport
  <1>3. client = applyCommonTransport(parsed)
    BY <1>1 DEF ClientTransport
  <1> QED
    BY <1>2, <1>3 DEF applyCommonTransport

\* A text of a range says one range, if it says any.
LEMMA RangeOne ==
    ASSUME NEW text, NEW from, NEW to,
           NEW a \in parseInt32Range(text, from, to), NEW b \in parseInt32Range(text, from, to)
    PROVE  a = b
  BY DEF parseInt32Range

(* xhttp's two sides are built from the same settings: value, mode and, in  *)
(* obfuscation mode, the fields are copied by both, the padding by one.     *)
LEMMA XhttpAgrees ==
    ASSUME NEW net, NEW parsed \in parseNetworkSettings(net),
           parsed.type \in DOMAIN CoreTransport,
           CoreTransport[parsed.type] = "splithttp",
           NEW server \in ServerTransport(parsed),
           NEW client \in ClientTransport(parsed)
    PROVE  /\ server.name = "splithttp" /\ client.name = "splithttp"
           /\ \A x \in Range(server.settings), y \in Range(client.settings) :
                 /\ x.value = y.value /\ x.mode = y.mode
                 /\ x.obfs => /\ x.obfs = y.obfs /\ x.fields = y.fields
                              /\ x.length \in parseInt32Range(y.length, 0, 0)
           /\ Padding(client) = Padding(server) <=>
                 CorePadding \in parseInt32Range(XhttpSettings(net).bytes, 100, 1000)
           /\ net.type = "xhttp"
  <1>1. PICK k \in DOMAIN parsed.settings :
            \E x \in XhttpServer(parsed.settings[k]) :
                server = [name |-> "splithttp", settings |-> <<x>>]
    BY DEF ServerTransport
  <1>2. parsed.settings # <<>>
    BY <1>1
  <1>3. parsed.type = "xhttp"
    BY <1>2, SettingsKept DEF CoreTransport
  <1>4. PICK s : parsed.settings = <<s>> /\ s = XhttpSettings(net)
    BY <1>3 DEF parseNetworkSettings, Settings
  <1>5. parsed.settings[1] = s /\ k = 1
    BY <1>4
  <1>6. PICK x \in XhttpServer(s) : server = [name |-> "splithttp", settings |-> <<x>>]
    BY <1>1, <1>4, <1>5
  <1>7. PICK y \in XhttpClient(s) : client = [name |-> "splithttp", settings |-> <<y>>]
    BY <1>2, <1>3, <1>5 DEF ClientTransport
  <1>8. Range(server.settings) = {x} /\ Range(client.settings) = {y}
    BY <1>6, <1>7 DEF Range
  <1>9. /\ x.value = s.value /\ x.mode = s.mode /\ x.obfs = s.obfs
        /\ s.obfs => x.fields = s.fields /\ x.length \in parseInt32Range(s.length, 0, 0)
        /\ x.bytes \in parseInt32Range(s.bytes, 100, 1000)
    <2>1. PICK secs \in parseInt32Range(s.secs, 20, 80),
               bytes \in parseInt32Range(s.bytes, 100, 1000),
               length \in parseInt32Range(IF s.obfs THEN s.length ELSE <<>>, 0, 0),
               xmux \in parseInt32Range(s.xmux, 0, 0) :
             x = [value |-> s.value, mode |-> s.mode,
                  secs |-> secs, bytes |-> bytes, length |-> length, xmux |-> xmux,
                  obfs |-> s.obfs, fields |-> IF s.obfs THEN s.fields ELSE Blank]
      BY DEF XhttpServer
    <2> QED
      BY <2>1, Zenon
  <1>10. /\ y.value = s.value /\ y.mode = s.mode
         /\ s.obfs => y.obfs = s.obfs /\ y.fields = s.fields /\ y.length = s.length
         /\ y.bytes = CorePadding
    <2>1. CASE s.obfs \/ s.xmux # <<>>
      <3>1. y \in {[value |-> s.value, mode |-> s.mode, bytes |-> CorePadding,
                    length |-> s.length, xmux |-> xmux, obfs |-> s.obfs, fields |-> s.fields] :
                      xmux \in parseInt32Range(s.xmux, 0, 0)}
        BY <2>1, Zenon DEF XhttpClient
      <3> QED
        BY <3>1
    <2>2. CASE ~(s.obfs \/ s.xmux # <<>>)
      <3>1. y = [value |-> s.value, mode |-> s.mode, bytes |-> CorePadding,
                 length |-> <<>>, xmux |-> <<0, 0>>, obfs |-> FALSE, fields |-> Blank]
        BY <2>2, Zenon DEF XhttpClient
      <3> QED
        BY <2>2, <3>1, Zenon
    <2> QED
      BY <2>1, <2>2
  <1>11. Padding(server) = {x.bytes} /\ Padding(client) = {y.bytes}
    BY <1>6, <1>7, <1>8 DEF Padding
  <1>12. Padding(client) = Padding(server) <=> CorePadding \in parseInt32Range(s.bytes, 100, 1000)
    BY <1>9, <1>10, <1>11, RangeOne
  <1>13. net.type = "xhttp"
    BY <1>3 DEF parseNetworkSettings
  <1> QED
    BY <1>4, <1>6, <1>7, <1>8, <1>9, <1>10, <1>12, <1>13

(* The security of the relay is that of the node, except where the node     *)
(* takes no certificate.                                                    *)
LEMMA SecurityAgrees ==
    ASSUME NEW r, NEW sec \in parseSecuritySettings(r.sec),
           NEW security \in ServerSecurity(sec)
    PROVE  parseRelaySecuritySettings(r.sec) = security <=> ~Plain(r)
  BY DEF parseSecuritySettings, ServerSecurity, parseRelaySecuritySettings, Plain, SecurityType

(* A relay presents what its users have where both are the same text, and   *)
(* the relay does not encode it.                                            *)
LEMMA KeyAgrees ==
    ASSUME NEW r, NEW s, NEW t, t.type = r.type,
           t.cipher = IF r.type = "shadowsocks" THEN r.net.cipher ELSE Blank
    PROVE  RelayKey(t, s) = UserKey(r.type, s) <=> KeysAgree(r, s)
  <1>1. Blank \notin Ciphers2022
    BY DEF Blank, Ciphers2022
  <1>2. PICK a, b : a = RelayKey(t, s) /\ b = UserKey(r.type, s)
    OBVIOUS
  <1>3. /\ a = [text |-> IF t.type = "masque" THEN s.uuid ELSE s.passwd,
                as   |-> IF t.cipher \in Ciphers2022 THEN "base64" ELSE "plain"]
        /\ b = [text |-> IF r.type = "shadowsocks" THEN s.passwd ELSE s.uuid, as |-> "plain"]
    BY <1>2 DEF RelayKey, UserKey
  <1>4. a = b <=> a.text = b.text /\ a.as = b.as
    BY <1>3
  <1>5. /\ a.text = IF r.type = "masque" THEN s.uuid ELSE s.passwd
        /\ a.as = b.as <=> t.cipher \notin Ciphers2022
        /\ b.text = IF r.type = "shadowsocks" THEN s.passwd ELSE s.uuid
    BY <1>3
  <1>6. CASE r.type = "shadowsocks"
    BY <1>2, <1>4, <1>5, <1>6 DEF KeysAgree
  <1>7. CASE r.type # "shadowsocks"
    <2>1. a.as = b.as
      BY <1>1, <1>5, <1>7
    <2>2. a = b <=> a.text = b.text
      BY <1>4, <2>1
    <2> QED
      BY <1>2, <1>5, <1>7, <2>2 DEF KeysAgree
  <1> QED
    BY <1>6, <1>7

-----------------------------------------------------------------------------
(* One record, both builders.                                               *)

\* Whatever the record holds, the two builders differ in those three ways only.
LEMMA RecordAgrees ==
    ASSUME NEW r, NEW s, NEW n \in NodeResponse(Target(r)), NEW t \in GetTransitNode(r),
           NEW i \in InboundBuilder(n), NEW o \in OutboundRelayBuilder(t, s)
    PROVE  Agree(r, s, n, i, o)
  <1>1. PICK nnet \in parseNetworkSettings(r.net), nsec \in parseSecuritySettings(r.sec),
             nmask \in parseMaskSettingsInto(r.sec) :
            /\ n.type = ToLower(r.type) /\ n.port = r.net.listeningPort
            /\ n.net = nnet /\ n.sec = nsec /\ n.mask = nmask
    BY DEF NodeResponse, Target
  <1>2. PICK port \in selectSinglePort(r.port), tnet \in parseNetworkSettings(r.net),
             tmask \in parseMaskSettingsInto(r.sec) :
            /\ t.type = r.type /\ t.port = port /\ t.net = tnet /\ t.mask = tmask
            /\ t.sec = parseRelaySecuritySettings(r.sec)
            /\ t.cipher = IF r.type = "shadowsocks" THEN r.net.cipher ELSE Blank
    BY DEF GetTransitNode
  <1>3. tnet = nnet
    BY <1>1, <1>2 DEF parseNetworkSettings
  <1>4. tmask = nmask
    BY <1>1, <1>2, Zenon DEF parseMaskSettingsInto
  <1>5. PICK ranges \in parsePortString(n.port), transport \in ServerTransport(n.net),
             security \in ServerSecurity(n.sec) :
            /\ i.protocol = n.type /\ i.ports = ranges /\ i.transport = transport
            /\ i.mask = applyMaskSettings(n.mask) /\ i.security = security
    BY DEF InboundBuilder
  <1>6. PICK client \in ClientTransport(t.net) :
            /\ t.type \in Protocols
            /\ o.protocol = t.type /\ o.port = t.port /\ o.transport = client
            /\ o.mask = applyMaskSettings(t.mask) /\ o.security = t.sec
            /\ o.key = RelayKey(t, s)
    BY DEF OutboundRelayBuilder
  <1>7. r.port = r.net.listeningPort => o.port \in UNION i.ports
    BY <1>1, <1>2, <1>5, <1>6, PortListened
  <1>8. o.protocol = i.protocol
    BY <1>1, <1>2, <1>5, <1>6 DEF ToLower, Protocols
  <1>9. o.mask = i.mask
    BY <1>1, <1>2, <1>4, <1>5, <1>6
  <1>10. nnet.type \in DOMAIN CoreTransport
    BY <1>1, <1>5 DEF ServerTransport
  <1>11. Accepts(i, o) /\ (Padding(o.transport) = Padding(i.transport) <=> ~Padded(r))
    <2>1. CASE CoreTransport[nnet.type] # "splithttp"
      <3>1. transport = client /\ transport.name # "splithttp"
        BY <1>1, <1>2, <1>3, <1>5, <1>6, <1>10, <2>1, CommonTransportAgrees
      <3>2. nnet.type = r.net.type /\ r.net.type # "xhttp"
        BY <1>1, <2>1 DEF parseNetworkSettings, CoreTransport
      <3>3. Accepts(i, o)
        BY <1>5, <1>6, <1>8, <1>9, <3>1 DEF Accepts
      <3>4. Padding(o.transport) = Padding(i.transport)
        BY <1>5, <1>6, <3>1
      <3> QED
        BY <3>2, <3>3, <3>4 DEF Padded
    <2>2. CASE CoreTransport[nnet.type] = "splithttp"
      <3>1. /\ transport.name = "splithttp" /\ client.name = "splithttp"
            /\ \A x \in Range(transport.settings), y \in Range(client.settings) :
                  /\ x.value = y.value /\ x.mode = y.mode
                  /\ x.obfs => /\ x.obfs = y.obfs /\ x.fields = y.fields
                               /\ x.length \in parseInt32Range(y.length, 0, 0)
            /\ Padding(client) = Padding(transport) <=>
                  CorePadding \in parseInt32Range(XhttpSettings(r.net).bytes, 100, 1000)
            /\ r.net.type = "xhttp"
        BY <1>1, <1>2, <1>3, <1>5, <1>6, <1>10, <2>2, XhttpAgrees
      <3>2. Accepts(i, o)
        BY <1>5, <1>6, <1>8, <1>9, <3>1 DEF Accepts
      <3>3. Padding(o.transport) = Padding(i.transport) <=> ~Padded(r)
        BY <1>5, <1>6, <3>1 DEF Padded
      <3> QED
        BY <3>2, <3>3
    <2> QED
      BY <2>1, <2>2
  <1>12. o.security = i.security <=> ~Plain(r)
    BY <1>1, <1>2, <1>5, <1>6, SecurityAgrees
  <1>13. n.type = r.type
    BY <1>1, <1>2, <1>6 DEF ToLower, Protocols
  <1>14. o.key = UserKey(n.type, s) <=> KeysAgree(r, s)
    BY <1>2, <1>6, <1>13, KeyAgrees
  <1> QED
    BY <1>7, <1>11, <1>12, <1>14 DEF Agree

-----------------------------------------------------------------------------
(* Whatever servers and lists the panel may hold, at any time: the outbound *)
(* of a relay to the panel's node and that node's inbound differ where      *)
(* Plain, Padded and KeysAgree say they do, and nowhere else.               *)
THEOREM RelayAgreesHolds == Spec => []RelayAgrees
  <1>1. RelayAgrees
    BY RecordAgrees, Zenon DEF RelayAgrees
  <1> QED
    BY <1>1, PTL
=============================================================================
