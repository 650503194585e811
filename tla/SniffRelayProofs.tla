-------------------------- MODULE SniffRelayProofs --------------------------
(***************************************************************************)
(* Proof that the opportunistic TLS intercept passes on what a peer sent   *)
(* in order and without a gap, whichever of its readers, the sniffing loop *)
(* or the io.Copy of the plain relay, has the socket.                      *)
(*                                                                         *)
(* RelayedInOrder is not inductive: a chunk in the hands of a sniffing     *)
(* loop must be the last one read and newer than all that were delivered   *)
(* (Side), and no copy may run beside a loop, which is what cleanup's      *)
(* wg.Wait and waitForOther provide (Handover).                            *)
(***************************************************************************)
EXTENDS SniffRelay, TLAPS

Signals == [side : Sides, isTLS : BOOLEAN, err : BOOLEAN]
MainPcs == {"select", "joinclose", "joinhijack", "hijack", "other", "plain", "done"}

LoopPcs == {"top", "read", "write", "exited"}
Loops == [pc : LoopPcs, held : Nat, relayed : Nat]

PeersType == peers \in Scenarios
ReadType == read \in [Sides -> Nat]
LoopType == loop \in [Sides -> Loops]
CopyType == copy \in [Sides -> {"off", "run", "ended"}]
SentType == delivered \in [Sides -> Seq(Nat)]
ChType == ch \in Seq(Signals)
MainType == main \in [pc : MainPcs, first : BOOLEAN, withheld : Nat]
Types == PeersType /\ ReadType /\ LoopType /\ CopyType /\ SentType /\ ChType /\ MainType

(* The chunk a loop holds is the last that was read.                       *)
Held(s) ==
    /\ loop[s].pc = "write" => loop[s].held = read[s] /\ read[s] > 0
    /\ loop[s].pc # "write" => loop[s].held = 0

(* What was delivered had been read, and before a chunk that is still held.*)
Behind(s) ==
    \A k \in DOMAIN delivered[s] :
        /\ delivered[s][k] <= read[s]
        /\ loop[s].pc = "write" => delivered[s][k] < read[s]

Increasing(s) ==
    \A j, k \in DOMAIN delivered[s] : j < k => delivered[s][j] < delivered[s][k]

Arrived(s, i) == \E k \in DOMAIN delivered[s] : delivered[s][k] = i

(* Where a chunk that was read is.                                         *)
Accounted(s) ==
    \A i \in 1 .. read[s] :
        \/ Arrived(s, i) \/ i = loop[s].held
        \/ s = "src" /\ i = main.withheld
        \/ AtEOF(Other(s))

Side(s) == Held(s) /\ Behind(s) /\ Increasing(s) /\ Accounted(s)

(* No reader follows a loop before both loops are gone, and only a loop    *)
(* that is gone has withheld a ClientHello.                                *)
Handover ==
    /\ main.pc \in {"hijack", "plain"} => Joined
    /\ (\E s \in Sides : copy[s] # "off") => Joined
    /\ ~Exited("src") => main.withheld = 0

Inv == Types /\ (\A s \in Sides : Side(s)) /\ Handover

-----------------------------------------------------------------------------
(* Types.                                                                  *)

(* The intercept starts with every variable of its type.                   *)
LEMMA InitTypes == Init => Types
  BY DEF Init, Types, PeersType, ReadType, LoopType, CopyType, SentType, ChType, MainType,
         MainPcs, Loops, LoopPcs

(* The forms a loop takes, and a longer list of deliveries, have the type. *)
LEMMA LoopForms ==
  ASSUME NEW l \in Loops, NEW p \in LoopPcs, NEW n \in Nat
  PROVE  /\ [l EXCEPT !.pc = p] \in Loops
         /\ [l EXCEPT !.pc = p, !.held = n] \in Loops
         /\ [pc |-> p, held |-> n, relayed |-> l.relayed + 1] \in Loops
<1>1. [l EXCEPT !.pc = p] \in Loops
  BY DEF Loops
<1>2. \A k \in Loops : [k EXCEPT !.held = n] \in Loops
  BY DEF Loops
<1>3. l.relayed + 1 \in Nat
  BY DEF Loops
<1>4. [pc |-> p, held |-> n, relayed |-> l.relayed + 1] \in Loops
  BY <1>3 DEF Loops
<1>5. QED BY Zenon, <1>1, <1>2, <1>4

(* What a loop appends and counts keeps its type.                         *)
LEMMA SentForms ==
  ASSUME NEW q \in Seq(Nat), NEW n \in Nat
  PROVE  Append(q, n) \in Seq(Nat) /\ n + 1 \in Nat
OBVIOUS

(* A result that is pushed, or dropped, leaves the channel well formed.    *)
LEMMA PushType ==
  ASSUME ChType, NEW s \in Sides, NEW tls \in BOOLEAN, NEW err \in BOOLEAN,
         pushSignal(s, tls, err)
  PROVE  ChType'
<1>1. [side |-> s, isTLS |-> tls, err |-> err] \in Signals
  BY DEF Signals
<1>2. ch' = Append(ch, [side |-> s, isTLS |-> tls, err |-> err]) \/ ch' = ch
  BY Zenon DEF pushSignal
<1>3. QED BY <1>1, <1>2 DEF ChType

(* A loop that is updated has its type.                                    *)
LEMMA SetLoopType ==
  ASSUME LoopType, NEW s \in Sides, NEW l, SetLoop(s, l),
         l \in Loops
  PROVE  LoopType'
BY Zenon DEF LoopType, SetLoop

(* sniffAndRelayLoop keeps the types.                                      *)
LEMMA LoopTypes ==
  ASSUME Types, NEW s \in Sides, Loop(s) \/ LoopChunk(s)
  PROVE  Types'
<1>0. read[s] \in Nat /\ loop[s].held \in Nat /\ loop[s].relayed \in Nat
      /\ TRUE \in BOOLEAN /\ FALSE \in BOOLEAN
  BY DEF Types, ReadType, LoopType, Loops
<1>a. loop[s] \in Loops
  BY Zenon DEF Types, LoopType
<1>b. /\ [loop[s] EXCEPT !.pc = "exited", !.held = 0] \in Loops
      /\ [loop[s] EXCEPT !.pc = "exited"] \in Loops /\ [loop[s] EXCEPT !.pc = "read"] \in Loops
      /\ [loop[s] EXCEPT !.pc = "top"] \in Loops
      /\ [loop[s] EXCEPT !.pc = "write", !.held = read[s] + 1] \in Loops
      /\ [pc |-> "top", held |-> 0, relayed |-> loop[s].relayed + 1] \in Loops
  <2>1. read[s] + 1 \in Nat /\ 0 \in Nat
    BY <1>0
  <2>2. "top" \in LoopPcs /\ "read" \in LoopPcs /\ "write" \in LoopPcs /\ "exited" \in LoopPcs
    BY DEF LoopPcs
  <2>3. QED BY Zenon, <1>a, <2>1, <2>2, LoopForms
<1>c. LoopType
  BY DEF Types
<1>1. CASE LoopTop(s)
  <2>1. LoopType'
    BY Zenon, <1>1, <1>b, <1>c, SetLoopType DEF LoopTop
  <2>2. QED BY Zenon, <1>1, <2>1 DEF LoopTop, Types, PeersType, ReadType, CopyType, SentType,
                                     ChType, MainType
<1>2. CASE LoopTimeout(s)
  <2>1. LoopType'
    BY Zenon, <1>2, <1>b, <1>c, SetLoopType DEF LoopTimeout, ExitWith
  <2>2. ChType'
    BY Zenon, <1>0, <1>2, PushType DEF LoopTimeout, ExitWith, Types, ChType
  <2>3. QED BY Zenon, <1>2, <2>1, <2>2 DEF LoopTimeout, Types, PeersType, ReadType, CopyType,
                                           SentType, MainType
<1>3. CASE LoopEOF(s)
  <2>1. LoopType'
    BY Zenon, <1>3, <1>b, <1>c, SetLoopType DEF LoopEOF, ExitWith
  <2>2. ChType'
    BY Zenon, <1>0, <1>3, PushType DEF LoopEOF, ExitWith, Types
  <2>3. QED BY Zenon, <1>3, <2>1, <2>2 DEF LoopEOF, Types, PeersType, ReadType, CopyType,
                                           SentType, MainType
<1>4. CASE LoopChunk(s)
  <2>a. LoopType'
    BY Zenon, <1>4, <1>b, <1>c, SetLoopType DEF LoopChunk, ExitWith
  <2>b. read' = [read EXCEPT ![s] = read[s] + 1] /\ read[s] + 1 \in Nat
    BY <1>0, <1>4 DEF LoopChunk
  <2>c. main' = main \/ main' = [main EXCEPT !.withheld = read[s] + 1]
    BY Zenon, <1>4 DEF LoopChunk
  <2>d. ReadType'
    BY Zenon, <2>b DEF Types, ReadType
  <2>e. MainType'
    BY <2>b, <2>c DEF Types, MainType
  <2>1. LoopType' /\ ReadType' /\ MainType'
    BY Zenon, <2>a, <2>d, <2>e
  <2>2. ChType'
    BY Zenon, <1>0, <1>4, PushType DEF LoopChunk, ExitWith, Types, ChType
  <2>3. QED BY Zenon, <1>4, <2>1, <2>2 DEF LoopChunk, Types, PeersType, CopyType, SentType
<1>5. CASE LoopWrite(s)
  <2>a. LoopType'
    BY Zenon, <1>5, <1>b, <1>c, SetLoopType DEF LoopWrite, ExitWith
  <2>b. delivered' = delivered \/ delivered' = [delivered EXCEPT ![s] = Append(@, loop[s].held)]
    BY Zenon, <1>5 DEF LoopWrite
  <2>c. delivered \in [Sides -> Seq(Nat)] /\ Append(delivered[s], loop[s].held) \in Seq(Nat)
    BY Zenon, <1>0, SentForms DEF Types, SentType
  <2>d. SentType'
    BY Zenon, <2>b, <2>c DEF SentType
  <2>1. LoopType' /\ SentType'
    BY Zenon, <2>a, <2>d
  <2>2. ChType'
    BY Zenon, <1>0, <1>5, PushType DEF LoopWrite, ExitWith, Types, ChType
  <2>3. QED BY Zenon, <1>5, <2>1, <2>2 DEF LoopWrite, Types, PeersType, ReadType, CopyType,
                                           MainType
<1>6. QED BY Zenon, <1>1, <1>2, <1>3, <1>4, <1>5 DEF Loop

(* The parent keeps the types.                                             *)
LEMMA ParentTypes ==
  ASSUME Types, Parent
  PROVE  Types'
<1>0. main \in [pc : MainPcs, first : BOOLEAN, withheld : Nat]
  BY DEF Types, MainType
<1>1. ASSUME NEW p \in MainPcs, Goto(p)
      PROVE  MainType'
  BY <1>0, <1>1 DEF Goto, MainType
<1>2. ASSUME SelectResult
      PROVE  MainType' /\ ChType'
  <2>1. ch # << >> /\ ch' = Tail(ch) /\ ch \in Seq(Signals)
    BY <1>2 DEF SelectResult, Types, ChType
  <2>2. Head(ch) \in Signals /\ ch' \in Seq(Signals)
    BY <2>1
  <2>3. Head(ch).err \in BOOLEAN
    BY <2>2 DEF Signals
  <2>4. Goto("joinhijack") \/ main' = [main EXCEPT !.pc = "other", !.first = Head(ch).err]
    BY Zenon, <1>2 DEF SelectResult
  <2>5. MainType'
    BY <1>0, <1>1, <2>3, <2>4 DEF MainType, MainPcs
  <2>6. QED BY Zenon, <2>2, <2>5 DEF ChType
<1>3. MainPcs = {"select", "joinclose", "joinhijack", "hijack", "other", "plain", "done"}
  BY DEF MainPcs
<1>4. MainType'
  BY Zenon, <1>1, <1>2, <1>3 DEF Parent, SelectCtx, Join, WaitForOther, Hijack, PlainEnds
<1>5. << >> \in Seq(Signals)
  OBVIOUS
<1>6. ChType'
  BY Zenon, <1>2, <1>5 DEF Parent, SelectCtx, Join, WaitForOther, Hijack, PlainEnds, Types, ChType
<1>7. UNCHANGED <<peers, read, delivered, loop, copy>>
  BY Zenon DEF Parent, SelectCtx, SelectResult, Join, WaitForOther, Hijack, PlainEnds, StayedSame
<1>8. QED BY Zenon, <1>4, <1>6, <1>7 DEF Types, PeersType, ReadType, LoopType, CopyType, SentType

(* relayPlaintext keeps the types.                                         *)
LEMMA CopyTypes ==
  ASSUME Types, NEW s \in Sides, Copy(s)
  PROVE  Types'
<1>1. CopyType'
  BY Zenon DEF Copy, StartCopy, CopyChunk, CopyEnds, SetCopy, Types, CopyType
<1>2. /\ read' = read \/ read' = [read EXCEPT ![s] = @ + 1]
      /\ delivered' = delivered \/ delivered' = [delivered EXCEPT ![s] = Append(@, read[s] + 1)]
  BY Zenon DEF Copy, StartCopy, CopyChunk, CopyEnds, StayedSame
<1>a. /\ read \in [Sides -> Nat] /\ delivered \in [Sides -> Seq(Nat)]
      /\ read[s] + 1 \in Nat /\ Append(delivered[s], read[s] + 1) \in Seq(Nat)
  BY Zenon, SentForms DEF Types, ReadType, SentType
<1>3. ReadType' /\ SentType'
  BY Zenon, <1>2, <1>a DEF ReadType, SentType
<1>4. UNCHANGED <<peers, loop, ch, main>>
  BY Zenon DEF Copy, StartCopy, CopyChunk, CopyEnds, StayedSame
<1>5. QED BY Zenon, <1>1, <1>3, <1>4 DEF Types, PeersType, LoopType, ChType, MainType

-----------------------------------------------------------------------------
(* What was read and delivered.                                            *)

(* A side's chunks are counted, and the other side is a side.              *)
LEMMA SideFacts ==
  ASSUME PeersType, NEW s \in Sides
  PROVE  Len(peers.chunks[s]) \in Nat /\ Other(s) \in Sides /\ Other(s) # s
<1>1. peers \in [chunks : [Sides -> Seq({"d", "h"})], ends : [Sides -> BOOLEAN]]
  BY Zenon, ScenariosAssumption DEF PeersType
<1>2. peers.chunks[s] \in Seq({"d", "h"})
  BY <1>1
<1>3. Len(peers.chunks[s]) \in Nat
  BY <1>2
<1>4. QED BY <1>3 DEF Other, Sides

(* A side that is at its end stays there: only a chunk that is there is read. *)
LEMMA EndsAreFinal ==
  ASSUME Types, peers' = peers, NEW s \in Sides,
         read' = read \/ (HasChunk(s) /\ read' = [read EXCEPT ![s] = read[s] + 1]),
         NEW t \in Sides, AtEOF(t)
  PROVE  AtEOF(t)'
<1>1. read \in [Sides -> Nat] /\ Len(peers.chunks[t]) \in Nat
  BY Zenon, SideFacts DEF Types, ReadType
<1>2. read'[t] = read[t]
  BY Zenon, <1>1 DEF AtEOF
<1>3. QED BY Zenon, <1>2 DEF AtEOF, HasChunk

(* A step that does not touch a side leaves its chunks where they are.     *)
LEMMA SideKept ==
  ASSUME NEW s \in Sides, Side(s),
         read'[s] = read[s], delivered'[s] = delivered[s],
         loop'[s].held = loop[s].held,
         loop'[s].pc = "write" <=> loop[s].pc = "write",
         s = "src" => main'.withheld = main.withheld,
         AtEOF(Other(s)) => AtEOF(Other(s))'
  PROVE  Side(s)'
<1>1. Held(s)'
  BY Zenon DEF Side, Held
<1>2. Behind(s)'
  BY Zenon DEF Side, Behind
<1>3. Increasing(s)'
  BY Zenon DEF Side, Increasing
<1>4. Accounted(s)'
  BY Zenon DEF Side, Accounted, Arrived
<1>5. QED BY Zenon, <1>1, <1>2, <1>3, <1>4 DEF Side

(* The chunk that was read last is delivered.                              *)
LEMMA DeliverLast ==
  ASSUME NEW q \in Seq(Nat), NEW n \in Nat,
         \A k \in DOMAIN q : q[k] < n,
         \A j, k \in DOMAIN q : j < k => q[j] < q[k]
  PROVE  /\ \A j, k \in DOMAIN Append(q, n) : j < k => Append(q, n)[j] < Append(q, n)[k]
         /\ \A k \in DOMAIN Append(q, n) : Append(q, n)[k] <= n
         /\ \A k \in DOMAIN q : k \in DOMAIN Append(q, n) /\ Append(q, n)[k] = q[k]
         /\ \E k \in DOMAIN Append(q, n) : Append(q, n)[k] = n
<1> DEFINE a == Append(q, n)
<1>1. /\ DOMAIN q = 1 .. Len(q) /\ DOMAIN a = 1 .. Len(q) + 1 /\ Len(q) \in Nat
      /\ a[Len(q) + 1] = n /\ \A k \in 1 .. Len(q) : a[k] = q[k] /\ q[k] \in Nat
  OBVIOUS
<1> HIDE DEF a
<1>2. \A j, k \in DOMAIN a : j < k => a[j] < a[k]
  BY <1>1
<1>3. \A k \in DOMAIN a : a[k] <= n
  BY <1>1
<1>4. \A k \in DOMAIN q : k \in DOMAIN a /\ a[k] = q[k]
  BY <1>1
<1>5. \E k \in DOMAIN a : a[k] = n
  BY <1>1
<1>6. QED BY Zenon, <1>2, <1>3, <1>4, <1>5 DEF a

(* The positions of a sequence that grew by one chunk.                     *)
LEMMA OneMore ==
  ASSUME NEW n \in Nat, NEW i \in 1 .. n + 1
  PROVE  i \in 1 .. n \/ i = n + 1
OBVIOUS

(* Reading one more chunk stays ahead of what was delivered.               *)
LEMMA ReadOn ==
  ASSUME NEW n \in Nat, NEW d \in Nat, d <= n
  PROVE  d <= n + 1 /\ d < n + 1 /\ n + 1 > 0 /\ n + 1 \in Nat
OBVIOUS

(* One loop changes at a time.                                             *)
LEMMA LoopAt ==
  ASSUME LoopType, NEW s \in Sides, NEW l, SetLoop(s, l)
  PROVE  loop'[s] = l /\ \A t \in Sides : t # s => loop'[t] = loop[t]
BY Zenon DEF LoopType, SetLoop

(* A loop reads a chunk: it holds it, or withholds it when it is a         *)
(* ClientHello, and what was delivered before is older.                    *)
LEMMA ChunkSides ==
  ASSUME Inv, NEW s \in Sides, LoopChunk(s)
  PROVE  \A t \in Sides : Side(t)'
<1>1. /\ Types /\ PeersType /\ LoopType /\ read \in [Sides -> Nat] /\ read[s] \in Nat
      /\ loop[s] \in Loops /\ loop[s].pc = "read" /\ HasChunk(s) /\ Side(s)
      /\ delivered \in [Sides -> Seq(Nat)] /\ delivered' = delivered /\ peers' = peers
      /\ read' = [read EXCEPT ![s] = read[s] + 1] /\ read'[s] = read[s] + 1
  BY Zenon DEF Inv, Types, ReadType, LoopType, SentType, LoopChunk
<1>2. loop[s].pc # "write" /\ loop[s].pc # "exited" /\ loop[s].held = 0
  BY <1>1 DEF Side, Held
<1>3. \A t \in Sides : AtEOF(t) => AtEOF(t)'
  BY Zenon, <1>1, EndsAreFinal
<1>4. PICK l : SetLoop(s, l)
  BY Zenon DEF LoopChunk, ExitWith
<1>5. \A t \in Sides : t # s => loop'[t] = loop[t] /\ read'[t] = read[t]
  BY Zenon, <1>1, <1>4, LoopAt
<1>6. ASSUME NEW t \in Sides, t # s
      PROVE  Side(t)'
  <2>1. t = "src" => main' = main
    BY Zenon, <1>6 DEF LoopChunk
  <2>2. Side(t) /\ Other(t) \in Sides
    BY Zenon, <1>1, SideFacts DEF Inv
  <2>3. QED BY Zenon, <1>1, <1>3, <1>5, <1>6, <2>1, <2>2, SideKept
<1>7. \A k \in DOMAIN delivered[s] : delivered[s][k] <= read[s] + 1 /\ delivered[s][k] < read[s] + 1
  <2>1. \A k \in DOMAIN delivered[s] : delivered[s][k] \in Nat
    BY <1>1
  <2>2. QED BY Zenon, <1>1, <2>1, ReadOn DEF Side, Behind
<1>8. Behind(s)' /\ Increasing(s)'
  BY Zenon, <1>1, <1>7 DEF Side, Behind, Increasing
<1>9. read[s] + 1 > 0 /\ read[s] + 1 \in Nat /\ 0 \in Nat /\ 0 <= read[s]
  BY <1>1
<1>10. \A i \in 1 .. read[s] + 1 : i \in 1 .. read[s] \/ i = read[s] + 1
  BY Zenon, <1>1, OneMore
<1>11. ASSUME NEW i \in 1 .. read[s]
       PROVE  Arrived(s, i)' \/ (s = "src" /\ i = main.withheld) \/ AtEOF(Other(s))'
  <2>1. i # 0
    BY <1>11
  <2>2. Other(s) \in Sides
    BY Zenon, <1>1, SideFacts
  <2>3. QED BY Zenon, <1>1, <1>2, <1>3, <2>1, <2>2 DEF Side, Accounted, Arrived
<1>12. CASE s = "src" /\ peers.chunks[s][read[s] + 1] = "h"
  <2>1. /\ SetLoop(s, [loop[s] EXCEPT !.pc = "exited", !.held = 0])
        /\ main' = [main EXCEPT !.withheld = read[s] + 1]
    BY Zenon, <1>12 DEF LoopChunk, ExitWith
  <2>a. loop'[s] = [loop[s] EXCEPT !.pc = "exited", !.held = 0]
    BY Zenon, <1>1, <2>1 DEF SetLoop, LoopType
  <2>2. loop'[s].pc = "exited" /\ loop'[s].held = 0
    BY <1>1, <2>a DEF Loops
  <2>3. main'.withheld = read[s] + 1
    BY Zenon, <2>1 DEF Inv, Types, MainType
  <2>4. main.withheld = 0
    BY Zenon, <1>2, <1>12 DEF Inv, Handover, Exited
  <2>5. "exited" # "write"
    OBVIOUS
  <2>6. Held(s)'
    BY Zenon, <2>2, <2>5 DEF Held
  <2>7. \A i \in 1 .. read[s] : i # 0
    BY <1>1
  <2>8. Accounted(s)'
    BY Zenon, <1>1, <1>10, <1>11, <1>12, <2>3, <2>4, <2>7 DEF Accounted
  <2>9. Side(s)'
    BY Zenon, <1>8, <2>6, <2>8 DEF Side
  <2>10. QED BY Zenon, <1>6, <2>9
<1>13. CASE ~(s = "src" /\ peers.chunks[s][read[s] + 1] = "h")
  <2>1. /\ SetLoop(s, [loop[s] EXCEPT !.pc = "write", !.held = read[s] + 1])
        /\ main' = main
    BY Zenon, <1>13 DEF LoopChunk
  <2>a. loop'[s] = [loop[s] EXCEPT !.pc = "write", !.held = read[s] + 1]
    BY Zenon, <1>1, <2>1 DEF SetLoop, LoopType
  <2>2. loop'[s].pc = "write" /\ loop'[s].held = read[s] + 1
    BY <1>1, <2>a DEF Loops
  <2>3. Held(s)'
    BY Zenon, <1>1, <1>9, <2>2 DEF Held
  <2>4. Accounted(s)'
    BY Zenon, <1>1, <1>10, <1>11, <2>1, <2>2 DEF Accounted
  <2>5. Side(s)'
    BY Zenon, <1>8, <2>3, <2>4 DEF Side
  <2>6. QED BY Zenon, <1>6, <2>5
<1>14. QED BY Zenon, <1>12, <1>13

(* A loop writes the chunk it holds, or finds the other side gone.         *)
LEMMA WriteSides ==
  ASSUME Inv, NEW s \in Sides, LoopWrite(s)
  PROVE  \A t \in Sides : Side(t)'
<1>1. /\ Types /\ PeersType /\ LoopType /\ read[s] \in Nat /\ delivered[s] \in Seq(Nat)
      /\ loop[s] \in Loops /\ loop[s].pc = "write" /\ Side(s)
      /\ delivered \in [Sides -> Seq(Nat)] /\ main' = main /\ peers' = peers /\ read' = read
  BY Zenon DEF Inv, Types, ReadType, LoopType, SentType, LoopWrite
<1>2. loop[s].held = read[s] /\ read[s] > 0
  BY Zenon, <1>1 DEF Side, Held
<1>3. \A t \in Sides : AtEOF(t) => AtEOF(t)'
  BY Zenon, <1>1, EndsAreFinal
<1>4. PICK l : SetLoop(s, l) /\ l.pc \in {"top", "exited"} /\ l.held = 0
  <2>1. \/ SetLoop(s, [loop[s] EXCEPT !.pc = "exited", !.held = 0])
        \/ SetLoop(s, [pc |-> "top", held |-> 0, relayed |-> loop[s].relayed + 1])
    BY Zenon DEF LoopWrite, ExitWith
  <2>2. /\ [loop[s] EXCEPT !.pc = "exited", !.held = 0].pc = "exited"
        /\ [loop[s] EXCEPT !.pc = "exited", !.held = 0].held = 0
    BY <1>1 DEF Loops
  <2>3. /\ [pc |-> "top", held |-> 0, relayed |-> loop[s].relayed + 1].pc = "top"
        /\ [pc |-> "top", held |-> 0, relayed |-> loop[s].relayed + 1].held = 0
    OBVIOUS
  <2>4. QED BY Zenon, <2>1, <2>2, <2>3
<1>5. loop'[s] = l /\ \A t \in Sides : t # s => loop'[t] = loop[t]
  BY Zenon, <1>1, <1>4, LoopAt
<1>6. loop'[s].pc # "write" /\ loop'[s].held = 0
  BY <1>4, <1>5
<1>7. ASSUME NEW t \in Sides, t # s, delivered'[t] = delivered[t]
      PROVE  Side(t)'
  <2>1. Side(t) /\ Other(t) \in Sides
    BY Zenon, <1>1, SideFacts DEF Inv
  <2>2. QED BY Zenon, <1>1, <1>3, <1>5, <1>7, <2>1, SideKept
<1>8. Held(s)' /\ Other(s) \in Sides
  BY Zenon, <1>1, <1>6, SideFacts DEF Held
<1>9. CASE delivered' = [delivered EXCEPT ![s] = Append(@, loop[s].held)]
  <2>1. /\ delivered'[s] = Append(delivered[s], read[s])
        /\ \A t \in Sides : t # s => delivered'[t] = delivered[t]
    BY Zenon, <1>1, <1>2, <1>9
  <2>2. /\ \A k \in DOMAIN delivered[s] : delivered[s][k] < read[s]
        /\ \A j, k \in DOMAIN delivered[s] : j < k => delivered[s][j] < delivered[s][k]
    BY Zenon, <1>1 DEF Side, Behind, Increasing
  <2> DEFINE d == delivered'[s]
             a == Append(delivered[s], read[s])
  <2>a. \A k \in DOMAIN delivered[s] : delivered[s][k] < read[s]
    BY Zenon, <2>2
  <2>b. /\ \A j, k \in DOMAIN a : j < k => a[j] < a[k]
        /\ \A k \in DOMAIN a : a[k] <= read[s]
        /\ \A k \in DOMAIN delivered[s] : k \in DOMAIN a /\ a[k] = delivered[s][k]
        /\ \E k \in DOMAIN a : a[k] = read[s]
    BY Zenon, <1>1, <2>a, <2>2, DeliverLast
  <2>c. d = a
    BY Zenon, <2>1
  <2> HIDE DEF a, d
  <2>3. /\ \A j, k \in DOMAIN d : j < k => d[j] < d[k]
        /\ \A k \in DOMAIN d : d[k] <= read[s]
        /\ \A k \in DOMAIN delivered[s] : k \in DOMAIN d /\ d[k] = delivered[s][k]
        /\ \E k \in DOMAIN d : d[k] = read[s]
    BY Zenon, <2>b, <2>c
  <2> USE DEF d
  <2>4. Behind(s)' /\ Increasing(s)'
    BY Zenon, <1>1, <1>6, <2>3 DEF Behind, Increasing
  <2>5. Accounted(s)'
    BY Zenon, <1>1, <1>2, <1>3, <1>8, <2>3 DEF Side, Accounted, Arrived
  <2>6. Side(s)'
    BY Zenon, <1>8, <2>4, <2>5 DEF Side
  <2>7. QED BY Zenon, <1>7, <2>1, <2>6
<1>10. CASE AtEOF(Other(s)) /\ delivered' = delivered
  <2>1. Behind(s)' /\ Increasing(s)'
    BY Zenon, <1>1, <1>6, <1>10 DEF Side, Behind, Increasing
  <2>2. Accounted(s)'
    BY Zenon, <1>3, <1>8, <1>10 DEF Accounted
  <2>3. Side(s)'
    BY Zenon, <1>8, <2>1, <2>2 DEF Side
  <2>4. QED BY Zenon, <1>7, <1>10, <2>3
<1>11. QED BY Zenon, <1>9, <1>10 DEF LoopWrite

(* A loop that holds no chunk looks at its context, times out or ends.     *)
LEMMA IdleSides ==
  ASSUME Inv, NEW s \in Sides, LoopTop(s) \/ LoopTimeout(s) \/ LoopEOF(s)
  PROVE  \A t \in Sides : Side(t)'
<1>1. /\ Types /\ PeersType /\ LoopType /\ loop[s] \in Loops /\ loop[s].pc \in {"top", "read"}
      /\ delivered' = delivered /\ main' = main /\ peers' = peers /\ read' = read
  BY Zenon DEF Inv, Types, LoopType, LoopTop, LoopTimeout, LoopEOF
<1>2. loop[s].held = 0 /\ loop[s].pc # "write"
  BY <1>1 DEF Inv, Side, Held
<1>3. PICK l : SetLoop(s, l) /\ l.pc # "write" /\ l.held = 0
  <2>1. \/ SetLoop(s, [loop[s] EXCEPT !.pc = "exited", !.held = 0])
        \/ SetLoop(s, [loop[s] EXCEPT !.pc = "exited"])
        \/ SetLoop(s, [loop[s] EXCEPT !.pc = "read"])
        \/ SetLoop(s, [loop[s] EXCEPT !.pc = "top"])
    BY Zenon DEF LoopTop, LoopTimeout, LoopEOF, ExitWith
  <2>2. /\ [loop[s] EXCEPT !.pc = "exited", !.held = 0].pc = "exited"
        /\ [loop[s] EXCEPT !.pc = "exited", !.held = 0].held = 0
    BY <1>1 DEF Loops
  <2>3. \A p \in {"exited", "read", "top"} :
            [loop[s] EXCEPT !.pc = p].pc = p /\ [loop[s] EXCEPT !.pc = p].held = 0
    BY <1>1, <1>2 DEF Loops
  <2>4. QED BY <2>1, <2>2, <2>3
<1>4. loop'[s] = l /\ \A t \in Sides : t # s => loop'[t] = loop[t]
  BY Zenon, <1>1, <1>3, LoopAt
<1>5. \A t \in Sides : loop'[t].held = loop[t].held /\ (loop'[t].pc = "write" <=> loop[t].pc = "write")
  BY Zenon, <1>2, <1>3, <1>4
<1>6. \A t \in Sides : AtEOF(t) => AtEOF(t)'
  BY Zenon, <1>1, EndsAreFinal
<1>7. \A t \in Sides : Side(t) /\ Other(t) \in Sides
  BY Zenon, <1>1, SideFacts DEF Inv
<1>8. QED BY Zenon, <1>1, <1>5, <1>6, <1>7, SideKept

(* The parent, a copy that starts or ends, and a cancellation move no      *)
(* chunk and withhold none.                                                *)
LEMMA QuietSides ==
  ASSUME Inv, UNCHANGED <<peers, read, delivered, loop>>, main'.withheld = main.withheld
  PROVE  \A t \in Sides : Side(t)'
<1>1. \A t \in Sides : AtEOF(t) => AtEOF(t)'
  BY Zenon DEF AtEOF, HasChunk
<1>2. \A t \in Sides : Side(t) /\ Other(t) \in Sides
  BY Zenon, SideFacts DEF Inv, Types
<1>3. QED BY Zenon, <1>1, <1>2, SideKept

(* The plain relay reads a chunk and passes it on, or finds the other side *)
(* gone. No loop holds a chunk any more.                                   *)
LEMMA CopySides ==
  ASSUME Inv, NEW s \in Sides, CopyChunk(s)
  PROVE  \A t \in Sides : Side(t)'
<1>1. /\ Types /\ PeersType /\ LoopType /\ read \in [Sides -> Nat] /\ read[s] \in Nat
      /\ copy[s] = "run" /\ HasChunk(s) /\ Side(s) /\ loop' = loop /\ main' = main
      /\ delivered \in [Sides -> Seq(Nat)] /\ delivered[s] \in Seq(Nat) /\ peers' = peers
      /\ read' = [read EXCEPT ![s] = read[s] + 1] /\ read'[s] = read[s] + 1
  BY Zenon DEF Inv, Types, ReadType, LoopType, SentType, CopyChunk
<1>2. loop[s].pc = "exited"
  <2>1. copy[s] # "off"
    BY <1>1
  <2>2. QED BY Zenon, <2>1 DEF Inv, Handover, Joined, Exited
<1>3. loop[s].pc # "write" /\ loop[s].held = 0
  BY <1>1, <1>2 DEF Side, Held
<1>4. \A t \in Sides : AtEOF(t) => AtEOF(t)'
  BY Zenon, <1>1, EndsAreFinal
<1>5. ASSUME NEW t \in Sides, t # s, delivered'[t] = delivered[t]
      PROVE  Side(t)'
  <2>1. Side(t) /\ Other(t) \in Sides /\ read'[t] = read[t]
    BY Zenon, <1>1, <1>5, SideFacts DEF Inv
  <2>2. QED BY Zenon, <1>1, <1>4, <1>5, <2>1, SideKept
<1>6. Held(s)' /\ Other(s) \in Sides
  BY Zenon, <1>1, <1>3, SideFacts DEF Held
<1>7. \A k \in DOMAIN delivered[s] : delivered[s][k] <= read[s] + 1 /\ delivered[s][k] < read[s] + 1
  <2>1. \A k \in DOMAIN delivered[s] : delivered[s][k] \in Nat
    BY <1>1
  <2>2. QED BY Zenon, <1>1, <2>1, ReadOn DEF Side, Behind
<1>8. \A i \in 1 .. read[s] + 1 : i \in 1 .. read[s] \/ i = read[s] + 1
  BY Zenon, <1>1, OneMore
<1>9. \A i \in 1 .. read[s] : i # 0
  BY <1>1
<1>10. read[s] + 1 \in Nat
  BY <1>1
<1>11. CASE delivered' = [delivered EXCEPT ![s] = Append(@, read[s] + 1)]
  <2>1. /\ delivered'[s] = Append(delivered[s], read[s] + 1)
        /\ \A t \in Sides : t # s => delivered'[t] = delivered[t]
    BY Zenon, <1>1, <1>11
  <2>2. \A j, k \in DOMAIN delivered[s] : j < k => delivered[s][j] < delivered[s][k]
    BY Zenon, <1>1 DEF Side, Increasing
  <2>n. PICK n \in Nat : n = read[s] + 1
    BY Zenon, <1>10
  <2> DEFINE d == delivered'[s]
             a == Append(delivered[s], n)
  <2>a. \A k \in DOMAIN delivered[s] : delivered[s][k] < n
    BY Zenon, <1>7, <2>n
  <2>b. /\ \A j, k \in DOMAIN a : j < k => a[j] < a[k]
        /\ \A k \in DOMAIN a : a[k] <= n
        /\ \A k \in DOMAIN delivered[s] : k \in DOMAIN a /\ a[k] = delivered[s][k]
        /\ \E k \in DOMAIN a : a[k] = n
    BY Zenon, <1>1, <2>a, <2>2, DeliverLast
  <2>c. d = a
    BY Zenon, <2>1, <2>n
  <2> HIDE DEF a, d
  <2>3. /\ \A j, k \in DOMAIN d : j < k => d[j] < d[k]
        /\ \A k \in DOMAIN d : d[k] <= read[s] + 1
        /\ \A k \in DOMAIN delivered[s] : k \in DOMAIN d /\ d[k] = delivered[s][k]
        /\ \E k \in DOMAIN d : d[k] = read[s] + 1
    BY Zenon, <2>b, <2>c, <2>n
  <2> USE DEF d
  <2>4. Behind(s)' /\ Increasing(s)'
    BY Zenon, <1>1, <1>3, <2>3 DEF Behind, Increasing
  <2>5. \A i \in 1 .. read[s] : Arrived(s, i)' \/ (s = "src" /\ i = main.withheld) \/ AtEOF(Other(s))'
    BY Zenon, <1>1, <1>3, <1>4, <1>6, <1>9, <2>3 DEF Side, Accounted, Arrived
  <2>6. Accounted(s)'
    BY Zenon, <1>1, <1>8, <2>3, <2>5 DEF Accounted, Arrived
  <2>7. Side(s)'
    BY Zenon, <1>6, <2>4, <2>6 DEF Side
  <2>8. QED BY Zenon, <1>5, <2>1, <2>7
<1>12. CASE AtEOF(Other(s)) /\ delivered' = delivered
  <2>1. Behind(s)' /\ Increasing(s)'
    BY Zenon, <1>1, <1>3, <1>7, <1>12 DEF Side, Behind, Increasing
  <2>2. Accounted(s)'
    BY Zenon, <1>4, <1>6, <1>12 DEF Accounted
  <2>3. Side(s)'
    BY Zenon, <1>6, <2>1, <2>2 DEF Side
  <2>4. QED BY Zenon, <1>5, <1>12, <2>3
<1>13. QED BY Zenon, <1>11, <1>12 DEF CopyChunk

-----------------------------------------------------------------------------
(* The handover of the sockets.                                            *)

(* A loop that is gone stays gone, whoever steps.                          *)
LEMMA ExitedStays ==
  ASSUME Types, Next, NEW t \in Sides, Exited(t)
  PROVE  Exited(t)'
<1>1. ASSUME NEW s \in Sides, NEW l, SetLoop(s, l), loop[s].pc # "exited"
      PROVE  Exited(t)'
  <2>1. t # s
    BY Zenon, <1>1 DEF Exited
  <2>2. QED BY Zenon, <1>1, <2>1, LoopAt DEF Types, Exited
<1>2. ASSUME NEW s \in Sides, Loop(s) \/ LoopChunk(s)
      PROVE  Exited(t)'
  <2>1. loop[s].pc \in {"top", "read", "write"}
    BY Zenon, <1>2 DEF Loop, LoopTop, LoopTimeout, LoopEOF, LoopWrite, LoopChunk
  <2>2. loop[s].pc # "exited"
    BY <2>1
  <2>3. loop' = loop \/ \E l : SetLoop(s, l)
    BY Zenon, <1>2 DEF Loop, LoopTop, LoopTimeout, LoopEOF, LoopWrite, LoopChunk, ExitWith
  <2>4. QED BY Zenon, <1>1, <2>2, <2>3 DEF Exited
<1>3. ASSUME ~\E s \in Sides : Loop(s) \/ LoopChunk(s)
      PROVE  loop' = loop
  BY Zenon, <1>3 DEF Next, Copy, StartCopy, CopyChunk, CopyEnds, Parent, SelectCtx, SelectResult,
                     Join, WaitForOther, Hijack, PlainEnds, CancelCtx, Terminated, vars
<1>4. QED BY Zenon, <1>2, <1>3 DEF Exited

(* Both loops are gone before another reader comes, and after it.          *)
LEMMA HandoverStep ==
  ASSUME Inv, Next
  PROVE  Handover'
<1>1. Types /\ Handover /\ (Joined => Joined') /\ "src" \in Sides
      /\ (Exited("src") => Exited("src")')
  BY Zenon, ExitedStays DEF Inv, Joined, Sides
<1>2. main \in [pc : MainPcs, first : BOOLEAN, withheld : Nat]
  BY Zenon, <1>1 DEF Types, MainType
<1>3. ASSUME main' = main, copy' = copy
      PROVE  Handover'
  BY Zenon, <1>1, <1>3 DEF Handover
<1>4. ASSUME NEW s \in Sides, LoopChunk(s), main' # main
      PROVE  Handover'
  <2>1. /\ s = "src" /\ SetLoop(s, [loop[s] EXCEPT !.pc = "exited", !.held = 0])
        /\ main' = [main EXCEPT !.withheld = read[s] + 1] /\ copy' = copy
    BY Zenon, <1>4 DEF LoopChunk, ExitWith
  <2>2. main'.pc = main.pc
    BY <1>2, <2>1
  <2>3. loop[s] \in Loops /\ loop'[s] = [loop[s] EXCEPT !.pc = "exited", !.held = 0]
    BY Zenon, <1>1, <2>1 DEF Types, LoopType, SetLoop
  <2>4. loop'[s].pc = "exited"
    BY <2>3 DEF Loops
  <2>5. QED BY Zenon, <1>1, <2>1, <2>2, <2>4 DEF Handover, Exited
<1>5. ASSUME NEW s \in Sides, Copy(s)
      PROVE  Handover'
  <2>1. main' = main /\ (main.pc = "plain" \/ copy[s] = "run")
    BY Zenon, <1>5 DEF Copy, StartCopy, CopyChunk, CopyEnds
  <2>2. Joined
    <3>1. CASE main.pc = "plain"
      BY <1>1, <3>1 DEF Handover
    <3>2. CASE copy[s] = "run"
      <4>1. copy[s] # "off"
        BY <3>2
      <4>2. QED BY Zenon, <1>1, <4>1 DEF Handover
    <3>3. QED BY Zenon, <2>1, <3>1, <3>2
  <2>3. QED BY Zenon, <1>1, <2>1, <2>2 DEF Handover
<1>6. ASSUME Parent
      PROVE  Handover'
  <2>1. copy' = copy /\ loop' = loop
    BY Zenon, <1>6 DEF Parent, SelectCtx, SelectResult, Join, WaitForOther, Hijack, PlainEnds
  <2>2. ASSUME NEW p \in MainPcs, Goto(p)
        PROVE  main'.pc = p /\ main'.withheld = main.withheld
    BY <1>2, <2>2 DEF Goto
  <2>3. MainPcs = {"select", "joinclose", "joinhijack", "hijack", "other", "plain", "done"}
    BY DEF MainPcs
  <2>4. ASSUME NEW p \in MainPcs, Goto(p), p \in {"hijack", "plain"} => Joined
        PROVE  Handover'
    BY Zenon, <1>1, <2>1, <2>2, <2>4 DEF Handover, Exited, Joined
  <2>5. CASE SelectCtx
    BY <2>3, <2>4, <2>5 DEF SelectCtx
  <2>6. CASE SelectResult
    <3>1. CASE Goto("joinhijack")
      BY <2>3, <2>4, <3>1
    <3>2. CASE main' = [main EXCEPT !.pc = "other", !.first = Head(ch).err]
      <4>1. main'.pc = "other" /\ main'.withheld = main.withheld
        BY <1>2, <3>2
      <4>2. main'.pc \notin {"hijack", "plain"}
        BY <4>1
      <4>3. QED BY Zenon, <1>1, <2>1, <4>1, <4>2 DEF Handover, Exited, Joined
    <3>3. QED BY Zenon, <2>6, <3>1, <3>2 DEF SelectResult
  <2>7. CASE Join
    <3>1. Joined /\ (Goto("done") \/ Goto("hijack"))
      BY Zenon, <2>7 DEF Join
    <3>2. QED BY Zenon, <2>3, <2>4, <3>1
  <2>8. CASE WaitForOther
    <3>1. Goto("done") \/ (Goto("plain") /\ Joined)
      BY Zenon, <2>8 DEF WaitForOther, Joined
    <3>2. "done" \notin {"hijack", "plain"}
      OBVIOUS
    <3>3. QED BY Zenon, <2>3, <2>4, <3>1, <3>2
  <2>9. CASE Hijack
    <3>1. Joined /\ (Goto("done") \/ Goto("plain"))
      BY Zenon, <1>1, <2>9 DEF Hijack, Handover
    <3>2. QED BY Zenon, <2>3, <2>4, <3>1
  <2>10. CASE PlainEnds
    BY <2>3, <2>4, <2>10 DEF PlainEnds
  <2>11. QED BY Zenon, <1>6, <2>5, <2>6, <2>7, <2>8, <2>9, <2>10 DEF Parent
<1>7. ASSUME NEW s \in Sides, Loop(s)
      PROVE  Handover'
  BY Zenon, <1>3, <1>7 DEF Loop, LoopTop, LoopTimeout, LoopEOF, LoopWrite
<1>8. ASSUME NEW s \in Sides, LoopChunk(s)
      PROVE  Handover'
  BY Zenon, <1>3, <1>4, <1>8 DEF LoopChunk
<1>9. CASE CancelCtx \/ Terminated
  BY Zenon, <1>3, <1>9 DEF CancelCtx, Terminated, vars
<1>10. QED BY Zenon, <1>5, <1>6, <1>7, <1>8, <1>9 DEF Next

-----------------------------------------------------------------------------
(* The invariant holds at the start,                                       *)
LEMMA InvInit == Init => Inv
<1> SUFFICES ASSUME Init PROVE Inv
  OBVIOUS
<1>1. Types
  BY Zenon, InitTypes
<1>2. /\ \A s \in Sides : read[s] = 0 /\ copy[s] = "off" /\ delivered[s] = << >>
      /\ loop = [s \in Sides |-> [pc |-> "top", held |-> 0, relayed |-> 0]]
      /\ main.pc = "select" /\ main.withheld = 0
  BY DEF Init
<1>3. \A s \in Sides : loop[s].pc = "top" /\ loop[s].held = 0
  BY <1>2
<1>a. \A s \in Sides : Held(s)
  BY <1>3 DEF Held
<1>b. DOMAIN << >> = {} /\ 1 .. 0 = {}
  OBVIOUS
<1>c. \A s \in Sides : Behind(s) /\ Increasing(s) /\ Accounted(s)
  BY Zenon, <1>2, <1>b DEF Behind, Increasing, Accounted
<1>4. \A s \in Sides : Side(s)
  BY Zenon, <1>a, <1>c DEF Side
<1>5. Handover
  BY <1>2 DEF Handover
<1>6. QED BY Zenon, <1>1, <1>4, <1>5 DEF Inv

(* and every step of a loop, a copy, the parent or the session keeps it.   *)
LEMMA InvStep ==
  ASSUME Inv, [Next]_vars
  PROVE  Inv'
<1>1. CASE UNCHANGED vars
  <2>1. UNCHANGED <<peers, read, delivered, loop, copy, ch, main>>
    BY Zenon, <1>1 DEF vars
  <2>2. Types'
    BY Zenon, <2>1 DEF Inv, Types, PeersType, ReadType, LoopType, CopyType, SentType, ChType,
                       MainType
  <2>3. Handover'
    BY Zenon, <2>1 DEF Inv, Handover, Joined, Exited
  <2>4. \A t \in Sides : Side(t)'
    BY Zenon, <2>1, QuietSides
  <2>5. QED BY Zenon, <2>2, <2>3, <2>4 DEF Inv
<1>2. CASE Next
  <2>1. Handover' /\ Types
    BY Zenon, <1>2, HandoverStep DEF Inv
  <2>2. CASE \E s \in Sides : Loop(s) \/ LoopChunk(s)
    <3>1. PICK s \in Sides : Loop(s) \/ LoopChunk(s)
      BY Zenon, <2>2
    <3>2. Types'
      BY Zenon, <2>1, <3>1, LoopTypes
    <3>3. \A t \in Sides : Side(t)'
      BY Zenon, <3>1, ChunkSides, WriteSides, IdleSides DEF Loop
    <3>4. QED BY Zenon, <2>1, <3>2, <3>3 DEF Inv
  <2>3. CASE \E s \in Sides : Copy(s)
    <3>1. PICK s \in Sides : Copy(s)
      BY Zenon, <2>3
    <3>2. Types'
      BY Zenon, <2>1, <3>1, CopyTypes
    <3>3. \A t \in Sides : Side(t)'
      <4>1. CASE CopyChunk(s)
        BY Zenon, <4>1, CopySides
      <4>2. CASE StartCopy(s) \/ CopyEnds(s)
        BY Zenon, <4>2, QuietSides DEF StartCopy, CopyEnds, StayedSame
      <4>3. QED BY Zenon, <3>1, <4>1, <4>2 DEF Copy
    <3>4. QED BY Zenon, <2>1, <3>2, <3>3 DEF Inv
  <2>4. CASE Parent
    <3>1. Types'
      BY Zenon, <2>1, <2>4, ParentTypes
    <3>2. UNCHANGED <<peers, read, delivered, loop>>
      BY Zenon, <2>4 DEF Parent, SelectCtx, SelectResult, Join, WaitForOther, Hijack, PlainEnds,
                         StayedSame
    <3>3. main \in [pc : MainPcs, first : BOOLEAN, withheld : Nat]
      BY Zenon, <2>1 DEF Types, MainType
    <3>4. \A p : Goto(p) => main'.withheld = main.withheld
      BY <3>3 DEF Goto
    <3>5. main' = [main EXCEPT !.pc = "other", !.first = Head(ch).err] => main'.withheld = main.withheld
      BY <3>3
    <3>6. main'.withheld = main.withheld
      BY Zenon, <2>4, <3>4, <3>5 DEF Parent, SelectCtx, SelectResult, Join, WaitForOther, Hijack,
                                    PlainEnds
    <3>7. \A t \in Sides : Side(t)'
      BY Zenon, <3>2, <3>6, QuietSides
    <3>8. QED BY Zenon, <2>1, <3>1, <3>7 DEF Inv
  <2>5. CASE CancelCtx \/ Terminated
    <3>1. UNCHANGED <<peers, read, delivered, loop, copy, ch, main>>
      BY Zenon, <2>5 DEF CancelCtx, Terminated, vars, StayedSame
    <3>2. Types'
      BY Zenon, <2>1, <3>1 DEF Types, PeersType, ReadType, LoopType, CopyType, SentType, ChType,
                               MainType
    <3>3. QED BY Zenon, <2>1, <3>1, <3>2, QuietSides DEF Inv
  <2>6. QED BY Zenon, <1>2, <2>2, <2>3, <2>4, <2>5 DEF Next
<1>3. QED BY Zenon, <1>1, <1>2

(* What a peer sent through opportunisticTLSIntercept is passed on in      *)
(* order and without a gap, whatever was sent, however the two sniffing    *)
(* loops, the parent and the copies interleave and whenever the session is *)
(* cancelled: only a withheld ClientHello, the chunk in a loop's hands and *)
(* what could not be written to a side that is gone are missing.           *)
THEOREM ChunksInOrder == Spec => []RelayedInOrder
<1>1. Inv => RelayedInOrder
  BY Zenon DEF Inv, Side, Increasing, Accounted, Arrived, RelayedInOrder
<1>2. QED BY <1>1, InvInit, InvStep, PTL DEF Spec

=============================================================================
