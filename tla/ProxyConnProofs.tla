-------------------------- MODULE ProxyConnProofs --------------------------
(***************************************************************************)
(* Proofs about the proxy's connections, for any number of connections on  *)
(* the port, any configurations and any number of failing calls: the       *)
(* connection dstConn names and the one a speculative dial opens do not    *)
(* outlive their handler.                                                  *)
(*                                                                         *)
(* A speculative dial has one owner at a time: the handler, while it holds *)
(* the pointer (ptr), or the goroutine abandon leaves behind (reaper).     *)
(***************************************************************************)
EXTENDS ProxyConn, TLAPS

Fields == {"pc", "gone", "src", "dst", "tunnel", "connect", "tls", "ptr", "closer", "cancel", "url",
           "lost", "panicked"}
SpecFields == {"st", "addr", "sock", "cancelled", "settled", "reaper"}

Shape ==
    /\ h = [c \in Conns |-> h[c]] /\ spec = [c \in Conns |-> spec[c]]
    /\ \A c \in Conns : h[c] = [f \in Fields |-> h[c][f]]
    /\ \A c \in Conns : spec[c] = [f \in SpecFields |-> spec[c][f]]

(* Where handleConnection may return early, where it has not dialled       *)
(* speculatively yet, and where it has returned.                           *)
Entering == {"new", "claim", "lookup", "forget", "session"}
Undialled == Entering \cup {"opportunistic", "peek", "connect", "tunnel", "innerpeek", "speculate"}
Returned == {"wait", "release", "unmap", "done"}

(* A handler at pc p with dstConn d that holds the pointer to its          *)
(* speculative dial when t, and that dial s.                               *)
Safe(p, d, t, s) ==
    /\ t \in BOOLEAN /\ s.settled \in BOOLEAN /\ s.reaper \in BOOLEAN
    /\ p \in Entering => d = "nil"
    /\ p \in Undialled => ~t /\ s.st = "none"
    /\ p = "join" => t
    /\ p \in Returned => ~t /\ d # "open"
    /\ t => ~s.settled /\ s.st \in {"dialing", "sent"}
    /\ s.st = "none" \/ t \/ s.settled
    /\ s.settled => s.st # "none" /\ (s.reaper \/ s.st = "consumed")
    /\ s.reaper => s.settled
    /\ s.st = "consumed" => s.sock # "open"

SafeAt(c) == Safe(h[c].pc, h[c].dst, h[c].ptr, spec[c])
HeldInv == Shape /\ \A c \in Conns : SafeAt(c)

-----------------------------------------------------------------------------
(* What a step of one handler does to the part the invariant is about.     *)
Moves(c, from, p, d, t) ==
    /\ h[c].pc = from
    /\ h' = [x \in Conns |-> h'[x]]
    /\ \A x \in Conns : h'[x] = [f \in Fields |-> h'[x][f]]
    /\ \A x \in Conns : x # c => h'[x] = h[x]
    /\ h'[c].pc = p /\ h'[c].dst = d /\ h'[c].ptr = t

(* Step assigns the fields it names and keeps the others.                  *)
LEMMA StepMoves ==
    ASSUME Shape, NEW c \in Conns, NEW from, NEW upd, DOMAIN upd \subseteq Fields, Step(c, from, upd)
    PROVE  Moves(c, from, IF "pc" \in DOMAIN upd THEN upd.pc ELSE h[c].pc,
                          IF "dst" \in DOMAIN upd THEN upd.dst ELSE h[c].dst,
                          IF "ptr" \in DOMAIN upd THEN upd.ptr ELSE h[c].ptr)
<1>1. h[c].pc = from /\ h' = [h EXCEPT ![c] = Updated(h[c], upd)]
  BY Zenon DEF Step
<1>2. DOMAIN h = Conns /\ DOMAIN h[c] = Fields
  BY Zenon DEF Shape
<1>3. Updated(h[c], upd) = [f \in Fields |-> IF f \in DOMAIN upd THEN upd[f] ELSE h[c][f]]
  BY Zenon, <1>2 DEF Updated
<1>4. /\ h' = [x \in Conns |-> h'[x]] /\ h'[c] = Updated(h[c], upd)
      /\ \A x \in Conns : x # c => h'[x] = h[x]
  BY Zenon, <1>1, <1>2
<1>5. \A x \in Conns : h'[x] = [f \in Fields |-> h'[x][f]]
  <2>1. h'[c] = [f \in Fields |-> h'[c][f]]
    BY Zenon, <1>3, <1>4
  <2>2. QED BY Zenon, <1>4, <2>1 DEF Shape
<1>6. "pc" \in Fields /\ "dst" \in Fields /\ "ptr" \in Fields
  BY Zenon DEF Fields
<1>7. /\ h'[c]["pc"] = IF "pc" \in DOMAIN upd THEN upd["pc"] ELSE h[c]["pc"]
      /\ h'[c]["dst"] = IF "dst" \in DOMAIN upd THEN upd["dst"] ELSE h[c]["dst"]
      /\ h'[c]["ptr"] = IF "ptr" \in DOMAIN upd THEN upd["ptr"] ELSE h[c]["ptr"]
  <2>1. \A f \in Fields : h'[c][f] = IF f \in DOMAIN upd THEN upd[f] ELSE h[c][f]
    BY Zenon, <1>3, <1>4
  <2>2. QED BY Zenon, <1>6, <2>1
<1>8. QED BY Zenon, <1>1, <1>4, <1>5, <1>7 DEF Moves

(* The forms of update in which neither dstConn nor the pointer changes.   *)
LEMMA PlainMoves ==
    ASSUME Shape, NEW c \in Conns, NEW from, NEW p, NEW v, NEW upd,
           \/ upd = [pc |-> p] \/ upd = [pc |-> p, src |-> v] \/ upd = [pc |-> p, tls |-> v]
           \/ upd = [pc |-> p, tunnel |-> v] \/ upd = [pc |-> p, connect |-> v]
           \/ upd = [pc |-> p, url |-> v] \/ upd = [pc |-> p, closer |-> v]
           \/ upd = [pc |-> p, panicked |-> v],
           Step(c, from, upd)
    PROVE  Moves(c, from, p, h[c].dst, h[c].ptr)
<1>1. /\ DOMAIN upd \subseteq Fields /\ "pc" \in DOMAIN upd /\ upd.pc = p
      /\ "dst" \notin DOMAIN upd /\ "ptr" \notin DOMAIN upd
  BY DEF Fields
<1>2. QED BY Zenon, <1>1, StepMoves

(* The forms that assign dstConn or the pointer.                           *)
LEMMA DstMoves ==
    ASSUME Shape, NEW c \in Conns, NEW from, NEW p, NEW d, NEW v, NEW upd,
           upd = [pc |-> p, dst |-> d] \/ upd = [pc |-> p, tls |-> v, dst |-> d],
           Step(c, from, upd)
    PROVE  Moves(c, from, p, d, h[c].ptr)
<1>1. /\ DOMAIN upd \subseteq Fields /\ "pc" \in DOMAIN upd /\ upd.pc = p
      /\ "dst" \in DOMAIN upd /\ upd.dst = d /\ "ptr" \notin DOMAIN upd
  BY DEF Fields
<1>2. QED BY Zenon, <1>1, StepMoves

LEMMA PtrMoves ==
    ASSUME Shape, NEW c \in Conns, NEW from, NEW p, NEW t, NEW v, NEW upd,
           upd = [pc |-> p, ptr |-> t] \/ upd = [pc |-> p, ptr |-> t, lost |-> v],
           Step(c, from, upd)
    PROVE  Moves(c, from, p, h[c].dst, t)
<1>1. /\ DOMAIN upd \subseteq Fields /\ "pc" \in DOMAIN upd /\ upd.pc = p
      /\ "dst" \notin DOMAIN upd /\ "ptr" \in DOMAIN upd /\ upd.ptr = t
  BY DEF Fields
<1>2. QED BY Zenon, <1>1, StepMoves

LEMMA BothMove ==
    ASSUME Shape, NEW c \in Conns, NEW from, NEW p, NEW t, NEW d, NEW u, NEW v, NEW w, NEW upd,
           \/ upd = [pc |-> p, ptr |-> t, dst |-> d]
           \/ upd = [pc |-> p, cancel |-> u, ptr |-> t, src |-> v, dst |-> d, panicked |-> w],
           Step(c, from, upd)
    PROVE  Moves(c, from, p, d, t)
<1>1. /\ DOMAIN upd \subseteq Fields /\ "pc" \in DOMAIN upd /\ upd.pc = p
      /\ "dst" \in DOMAIN upd /\ upd.dst = d /\ "ptr" \in DOMAIN upd /\ upd.ptr = t
  BY DEF Fields
<1>2. QED BY Zenon, <1>1, StepMoves

-----------------------------------------------------------------------------
(* A step keeps the invariant when it keeps it for the handler that moves. *)
DialStep(c) ==
    /\ spec' = [x \in Conns |-> spec'[x]]
    /\ \A x \in Conns : spec'[x] = [f \in SpecFields |-> spec'[x][f]]
    /\ \A x \in Conns : x # c => spec'[x] = spec[x]

LEMMA MoveKeeps ==
    ASSUME HeldInv, NEW c \in Conns, NEW from, NEW p, NEW d, NEW t, Moves(c, from, p, d, t),
           DialStep(c), Safe(p, d, t, spec'[c])
    PROVE  HeldInv'
<1>1. Shape'
  BY Zenon DEF Shape, Moves, DialStep
<1>2. ASSUME NEW x \in Conns PROVE SafeAt(x)'
  <2>1. CASE x = c
    BY Zenon, <2>1 DEF SafeAt, Moves
  <2>2. CASE x # c
    <3>1. h'[x] = h[x] /\ spec'[x] = spec[x] /\ SafeAt(x)
      BY Zenon, <2>2 DEF HeldInv, Moves, DialStep
    <3>2. QED BY Zenon, <3>1 DEF SafeAt
  <2>3. QED BY Zenon, <2>1, <2>2
<1>3. QED BY Zenon, <1>1, <1>2 DEF HeldInv

LEMMA DialUnchanged ==
    ASSUME Shape, NEW c \in Conns, spec' = spec
    PROVE  DialStep(c) /\ spec'[c] = spec[c]
  BY Zenon DEF Shape, DialStep

(* The steps of a handler that touch neither dstConn, nor the pointer, nor *)
(* the dial: where they may lead.                                          *)
Leads(from, p) ==
    /\ p \in Entering => from \in Entering
    /\ p \in Undialled => from \in Undialled
    /\ p \in Returned => from \in Entering \cup Returned
    /\ p # "join"

LEMMA PlainKeeps ==
    ASSUME HeldInv, NEW c \in Conns, NEW from, NEW p, Leads(from, p), spec' = spec,
           Moves(c, from, p, h[c].dst, h[c].ptr)
    PROVE  HeldInv'
<1>1. DialStep(c) /\ spec'[c] = spec[c]
  BY Zenon, DialUnchanged DEF HeldInv
<1>2. Safe(from, h[c].dst, h[c].ptr, spec[c])
  BY Zenon DEF HeldInv, SafeAt, Moves
<1>3. from \in Entering => from \in Undialled
  BY Zenon DEF Undialled
<1>4. h[c].dst = "nil" => h[c].dst # "open"
  OBVIOUS
<1>5. Safe(p, h[c].dst, h[c].ptr, spec[c])
  BY Zenon, <1>2, <1>3, <1>4 DEF Safe, Leads
<1>6. QED BY Zenon, <1>1, <1>5, MoveKeeps

(* The same, when the step also takes a new dstConn that is not open or    *)
(* from where no handler returns at once.                                  *)
LEMMA DstKeeps ==
    ASSUME HeldInv, NEW c \in Conns, NEW from, NEW p, NEW d, spec' = spec,
           p \notin Entering, p \notin Returned, p # "join", p \in Undialled => from \in Undialled,
           Moves(c, from, p, d, h[c].ptr)
    PROVE  HeldInv'
<1>1. DialStep(c) /\ spec'[c] = spec[c]
  BY Zenon, DialUnchanged DEF HeldInv
<1>2. Safe(from, h[c].dst, h[c].ptr, spec[c])
  BY Zenon DEF HeldInv, SafeAt, Moves
<1>3. Safe(p, d, h[c].ptr, spec[c])
  BY Zenon, <1>2 DEF Safe
<1>4. QED BY Zenon, <1>1, <1>3, MoveKeeps

(* Steps of the handler before it dials, and after it has run.             *)
LEMMA PlainSteps ==
    ASSUME HeldInv, NEW c \in Conns,
           \/ ClaimSrcPort(c) \/ LookupDest(c) \/ ForgetDest(c) \/ ChoosePath(c) \/ Opportunistic(c)
           \/ Peek(c) \/ DialTunnel(c) \/ HandleConnectTunnel(c) \/ ReadInitial(c) \/ ReadUrl(c)
           \/ StartCloser(c) \/ RunParser(c) \/ WaitParsers(c) \/ ReleaseSrcPort(c) \/ DeleteUrl(c)
    PROVE  HeldInv'
<1>a. Shape
  BY Zenon DEF HeldInv
<1>b. ASSUME NEW from, NEW p, NEW v, NEW upd, Leads(from, p), spec' = spec, Step(c, from, upd),
             \/ upd = [pc |-> p] \/ upd = [pc |-> p, src |-> v] \/ upd = [pc |-> p, tls |-> v]
             \/ upd = [pc |-> p, tunnel |-> v] \/ upd = [pc |-> p, connect |-> v]
             \/ upd = [pc |-> p, url |-> v] \/ upd = [pc |-> p, closer |-> v]
             \/ upd = [pc |-> p, panicked |-> v]
      PROVE  HeldInv'
  <2>1. Moves(c, from, p, h[c].dst, h[c].ptr)
    BY Zenon, <1>a, <1>b, PlainMoves
  <2>2. QED BY Zenon, <1>b, <2>1, PlainKeeps
<1> USE DEF Leads, Entering, Undialled, Returned
<1>1. CASE ClaimSrcPort(c)
  <2>1. Leads("claim", "lookup")
    OBVIOUS
  <2>2. QED BY Zenon, <1>1, <1>b, <2>1 DEF ClaimSrcPort
<1>2. CASE LookupDest(c)
  <2>1. Leads("lookup", "release") /\ Leads("lookup", "forget")
    OBVIOUS
  <2>2. QED BY Zenon, <1>2, <1>b, <2>1 DEF LookupDest
<1>3. CASE ForgetDest(c)
  <2>1. Leads("forget", "release") /\ Leads("forget", "session")
    OBVIOUS
  <2>2. QED BY Zenon, <1>3, <1>b, <2>1 DEF ForgetDest
<1>4. CASE ChoosePath(c)
  <2>1. \A p \in {"release", "opportunistic", "dialplain", "parser", "peek"} : Leads("session", p)
    OBVIOUS
  <2>2. PICK p : spec' = spec /\ Step(c, "session", [pc |-> p])
                 /\ p \in {"release", "opportunistic", "dialplain", "parser", "peek"}
    BY Zenon, <1>4 DEF ChoosePath
  <2>3. QED BY Zenon, <1>b, <2>1, <2>2
<1>5. CASE Opportunistic(c)
  <2>1. Leads("opportunistic", "cleanup")
    OBVIOUS
  <2>2. QED BY Zenon, <1>5, <1>b, <2>1 DEF Opportunistic
<1>6. CASE Peek(c)
  <2>1. Leads("peek", "cleanup") /\ Leads("peek", "connect") /\ Leads("peek", "speculate")
    OBVIOUS
  <2>2. spec' = spec /\ \/ Step(c, "peek", [pc |-> "cleanup"])
                        \/ \E v : \/ Step(c, "peek", [pc |-> "connect", tls |-> v])
                                  \/ Step(c, "peek", [pc |-> "speculate", tls |-> v])
    BY Zenon, <1>6 DEF Peek
  <2>3. QED BY Zenon, <1>b, <2>1, <2>2
<1>7. CASE DialTunnel(c)
  <2>1. Leads("connect", "tunnel") /\ Leads("connect", "cleanup")
    OBVIOUS
  <2>2. QED BY Zenon, <1>7, <1>b, <2>1 DEF DialTunnel
<1>8. CASE HandleConnectTunnel(c)
  <2>1. Leads("tunnel", "innerpeek") /\ Leads("tunnel", "cleanup")
    OBVIOUS
  <2>2. QED BY Zenon, <1>8, <1>b, <2>1 DEF HandleConnectTunnel
<1>9. CASE ReadInitial(c)
  <2>1. \A p \in {"dialtls", "closer", "dialplain", "cleanup"} : Leads("initial", p)
    OBVIOUS
  <2>2. CASE h' = h /\ spec' = spec
    BY Zenon, <2>2 DEF HeldInv, Shape, SafeAt
  <2>3. ASSUME NEW p \in {"dialtls", "closer", "dialplain", "cleanup"}, spec' = spec,
               Step(c, "initial", [pc |-> p])
        PROVE  HeldInv'
    BY Zenon, <1>b, <2>1, <2>3
  <2>4. QED BY Zenon, <1>9, <2>2, <2>3 DEF ReadInitial
<1>10. CASE ReadUrl(c)
  <2>1. \A p \in {"cleanup", "closer", "upstream"} : Leads("dialtls", p)
    OBVIOUS
  <2>2. PICK p : spec' = spec /\ Step(c, "dialtls", [pc |-> p, url |-> url])
                 /\ p \in {"cleanup", "closer", "upstream"}
    BY Zenon, <1>10 DEF ReadUrl
  <2>3. QED BY Zenon, <1>b, <2>1, <2>2
<1>11. CASE StartCloser(c)
  <2>1. \A p \in {"passthrough", "parser", "cleanup"} : Leads("closer", p)
    OBVIOUS
  <2>2. PICK p : spec' = spec /\ Step(c, "closer", [pc |-> p, closer |-> TRUE])
                 /\ p \in {"passthrough", "parser", "cleanup"}
    BY Zenon, <1>11 DEF StartCloser
  <2>3. QED BY Zenon, <1>b, <2>1, <2>2
<1>12. CASE RunParser(c)
  <2>1. Leads(h[c].pc, "cleanup")
    OBVIOUS
  <2>2. QED BY Zenon, <1>12, <1>b, <2>1 DEF RunParser
<1>13. CASE WaitParsers(c) \/ ReleaseSrcPort(c) \/ DeleteUrl(c)
  <2>1. /\ Leads("wait", "release")
        /\ Leads("release", "unmap") /\ Leads("release", "done") /\ Leads("unmap", "done")
    OBVIOUS
  <2>2. QED BY Zenon, <1>13, <1>b, <2>1 DEF WaitParsers, ReleaseSrcPort, DeleteUrl, Exit
<1>14. QED BY Zenon, <1>1, <1>2, <1>3, <1>4, <1>5, <1>6, <1>7, <1>8, <1>9, <1>10, <1>11, <1>12, <1>13

-----------------------------------------------------------------------------
(* The speculative dial.                                                   *)

(* Replacing one connection's dial keeps the table's form.                 *)
LEMMA DialSet ==
    ASSUME Shape, NEW c \in Conns, NEW s, s = [f \in SpecFields |-> s[f]],
           spec' = [spec EXCEPT ![c] = s]
    PROVE  DialStep(c) /\ spec'[c] = s
  BY Zenon DEF Shape, DialStep

(* abandon: the dial is settled, and its goroutine will drain it.          *)
LEMMA AbandonedSafe ==
    ASSUME HeldInv, NEW c \in Conns, h[c].ptr
    PROVE  /\ Abandoned(c) = [f \in SpecFields |-> Abandoned(c)[f]]
           /\ Abandoned(c).st \in {"dialing", "sent"}
           /\ Abandoned(c).settled = TRUE /\ Abandoned(c).reaper = TRUE
<1>1. SafeAt(c) /\ spec[c] = [f \in SpecFields |-> spec[c][f]]
  BY Zenon DEF HeldInv, Shape
<1>2. spec[c].settled = FALSE /\ spec[c].st \in {"dialing", "sent"}
  BY Zenon, <1>1 DEF SafeAt, Safe
<1>3. Abandoned(c) = [spec[c] EXCEPT !.cancelled = TRUE, !.settled = TRUE,
                                     !.reaper = @ \/ ~spec[c].settled]
  BY Zenon DEF Abandoned
<1>4. QED BY <1>1, <1>2, <1>3 DEF SpecFields

(* A handler that gives the pointer up leaves its dial to the goroutine.   *)
LEMMA AbandonKeeps ==
    ASSUME HeldInv, NEW c \in Conns, NEW from, NEW p, NEW d, Moves(c, from, p, d, FALSE),
           from \notin Undialled, p \notin Undialled, p # "join", p \in Returned => d # "open",
           spec' = IF h[c].ptr THEN [spec EXCEPT ![c] = Abandoned(c)] ELSE spec
    PROVE  HeldInv'
<1>1. Shape /\ Safe(from, h[c].dst, h[c].ptr, spec[c])
  BY Zenon DEF HeldInv, SafeAt, Moves
<1>2. p \notin Entering
  BY Zenon DEF Undialled
<1>3. CASE h[c].ptr
  <2>1. DialStep(c) /\ spec'[c] = Abandoned(c)
    BY Zenon, <1>1, <1>3, AbandonedSafe, DialSet
  <2>2. Abandoned(c).st # "consumed" /\ Abandoned(c).st # "none"
    BY <1>3, AbandonedSafe
  <2>3. Safe(p, d, FALSE, Abandoned(c))
    BY Zenon, <1>2, <1>3, <2>2, AbandonedSafe DEF Safe
  <2>4. QED BY Zenon, <2>1, <2>3, MoveKeeps
<1>4. CASE ~h[c].ptr
  <2>1. DialStep(c) /\ spec'[c] = spec[c]
    BY Zenon, <1>1, <1>4, DialUnchanged
  <2>2. Safe(p, d, FALSE, spec[c])
    BY Zenon, <1>1, <1>2, <1>4 DEF Safe
  <2>3. QED BY Zenon, <2>1, <2>2, MoveKeeps
<1>5. QED BY Zenon, <1>3, <1>4

(* The dial starts with the pointer in the handler's hands.                *)
LEMMA SpeculateKeeps ==
    ASSUME HeldInv, NEW c \in Conns, Speculate(c)
    PROVE  HeldInv'
<1> DEFINE start == /\ h[c].tls /\ ~IsTest /\ ~(h[c].connect /\ h[c].dst # "nil")
                    /\ ~PgUpstream(c) /\ ~cfg.key
                    /\ url \notin {None, Blank}
<1>1. PICK p : p \in {"handshake", "initial"} /\ Step(c, "speculate", [pc |-> p, ptr |-> start])
  BY Zenon DEF Speculate
<1>2. spec' = IF start THEN [spec EXCEPT ![c].st = "dialing", ![c].addr = url] ELSE spec
  BY Zenon DEF Speculate
<1>a. start \in BOOLEAN
  BY Zenon
<1> HIDE DEF start
<1>3. Shape /\ Moves(c, "speculate", p, h[c].dst, start)
  BY Zenon, <1>1, PtrMoves DEF HeldInv
<1>4. Safe("speculate", h[c].dst, h[c].ptr, spec[c])
  BY Zenon, <1>3 DEF HeldInv, SafeAt, Moves
<1>5. "speculate" \in Undialled /\ p \notin Undialled \cup Entering \cup Returned \cup {"join"}
  BY <1>1 DEF Undialled, Entering, Returned
<1>6. spec[c].st = "none" /\ spec[c].settled = FALSE /\ spec[c].reaper = FALSE
  <2>1. "none" # "consumed"
    OBVIOUS
  <2>2. spec[c].st = "none" /\ ~h[c].ptr
    BY Zenon, <1>4, <1>5 DEF Safe
  <2>3. QED BY Zenon, <1>4, <1>5, <2>1, <2>2 DEF Safe
<1>7. CASE start
  <2>1. spec[c] = [f \in SpecFields |-> spec[c][f]] /\ spec = [x \in Conns |-> spec[x]]
    BY Zenon, <1>3 DEF Shape
  <2>2. PICK s : /\ spec' = [spec EXCEPT ![c] = s] /\ s = [f \in SpecFields |-> s[f]]
                 /\ s.st = "dialing" /\ s.settled = spec[c].settled /\ s.reaper = spec[c].reaper
    <3> DEFINE s == [spec[c] EXCEPT !.st = "dialing", !.addr = url]
    <3>1. spec' = [spec EXCEPT ![c] = s]
      BY <1>2, <1>7, <2>1
    <3>2. s = [f \in SpecFields |-> s[f]] /\ s.st = "dialing" /\ s.settled = spec[c].settled
          /\ s.reaper = spec[c].reaper
      BY <2>1 DEF SpecFields
    <3> HIDE DEF s
    <3>3. QED BY Zenon, <3>1, <3>2
  <2>3. DialStep(c) /\ spec'[c] = s
    BY Zenon, <1>3, <2>2, DialSet
  <2>4. s.st # "none" /\ s.st # "consumed" /\ s.st \in {"dialing", "sent"}
    BY <2>2
  <2>5. Safe(p, h[c].dst, start, s)
    BY Zenon, <1>a, <1>5, <1>6, <1>7, <2>2, <2>4 DEF Safe
  <2>6. QED BY Zenon, <1>3, <2>3, <2>5, MoveKeeps
<1>8. CASE ~start
  <2>1. DialStep(c) /\ spec'[c] = spec[c]
    BY Zenon, <1>2, <1>3, <1>8, DialUnchanged
  <2>2. Safe(p, h[c].dst, start, spec[c])
    BY Zenon, <1>a, <1>4, <1>5, <1>6, <1>8 DEF Safe
  <2>3. QED BY Zenon, <1>3, <2>1, <2>2, MoveKeeps
<1>9. QED BY Zenon, <1>7, <1>8

(* join: the handler takes the result or closes it.                        *)
LEMMA JoinKeeps ==
    ASSUME HeldInv, NEW c \in Conns, JoinSpeculative(c)
    PROVE  HeldInv'
<1>1. Shape /\ h[c].pc = "join" /\ spec[c].st = "sent"
  BY Zenon DEF HeldInv, JoinSpeculative
<1>2. PICK p \in {"closer", "cleanup"} : \E d : Moves(c, "join", p, d, FALSE)
  <2>1. ASSUME NEW p, NEW d, Step(c, "join", [pc |-> p, ptr |-> FALSE, dst |-> d])
        PROVE  Moves(c, "join", p, d, FALSE)
    BY Zenon, <1>1, <2>1, BothMove
  <2>2. ASSUME NEW p, Step(c, "join", [pc |-> p, ptr |-> FALSE])
        PROVE  Moves(c, "join", p, h[c].dst, FALSE)
    BY Zenon, <1>1, <2>2, PtrMoves
  <2>3. \/ Step(c, "join", [pc |-> "closer", ptr |-> FALSE, dst |-> "open"])
        \/ Step(c, "join", [pc |-> "cleanup", ptr |-> FALSE, dst |-> "typednil"])
        \/ Step(c, "join", [pc |-> "cleanup", ptr |-> FALSE])
    BY Zenon DEF JoinSpeculative, TlsDial
  <2>4. \/ Moves(c, "join", "closer", "open", FALSE)
        \/ Moves(c, "join", "cleanup", "typednil", FALSE)
        \/ Moves(c, "join", "cleanup", h[c].dst, FALSE)
    BY Zenon, <2>1, <2>2, <2>3
  <2>5. QED BY Zenon, <2>4
<1>0. PICK d : Moves(c, "join", p, d, FALSE)
  BY Zenon, <1>2
<1>3. PICK v : /\ v # "open"
               /\ spec' = [spec EXCEPT ![c].st = "consumed", ![c].settled = TRUE, ![c].sock = v]
  <2>1. \A w : (IF w = "open" THEN "closed" ELSE w) # "open"
    OBVIOUS
  <2>2. "none" # "open" /\ "closed" # "open"
    OBVIOUS
  <2>3. \/ spec' = [spec EXCEPT ![c].st = "consumed", ![c].settled = TRUE, ![c].sock = "none"]
        \/ spec' = [spec EXCEPT ![c].st = "consumed", ![c].settled = TRUE, ![c].sock = "closed"]
        \/ spec' = [spec EXCEPT ![c].st = "consumed", ![c].settled = TRUE,
                                ![c].sock = IF @ = "open" THEN "closed" ELSE @]
    BY Zenon DEF JoinSpeculative
  <2>4. spec = [x \in Conns |-> spec[x]] /\ spec[c] = [f \in SpecFields |-> spec[c][f]]
    BY Zenon, <1>1 DEF Shape
  <2>5. CASE spec' = [spec EXCEPT ![c].st = "consumed", ![c].settled = TRUE,
                                  ![c].sock = IF @ = "open" THEN "closed" ELSE @]
    <3>1. spec' = [spec EXCEPT ![c].st = "consumed", ![c].settled = TRUE,
                               ![c].sock = IF spec[c].sock = "open" THEN "closed" ELSE spec[c].sock]
      BY <2>4, <2>5 DEF SpecFields
    <3>2. QED BY Zenon, <2>1, <3>1
  <2>6. QED BY Zenon, <2>2, <2>3, <2>5
<1>4. spec = [x \in Conns |-> spec[x]] /\ spec[c] = [f \in SpecFields |-> spec[c][f]]
  BY Zenon, <1>1 DEF Shape
<1> DEFINE s == [spec[c] EXCEPT !.st = "consumed", !.settled = TRUE, !.sock = v]
<1>5. spec' = [spec EXCEPT ![c] = s]
  BY <1>3, <1>4
<1>6. /\ s = [f \in SpecFields |-> s[f]] /\ s.st = "consumed" /\ s.settled = TRUE /\ s.sock = v
      /\ s.reaper = spec[c].reaper
  BY <1>4 DEF SpecFields
<1> HIDE DEF s
<1>7. DialStep(c) /\ spec'[c] = s
  BY Zenon, <1>1, <1>5, <1>6, DialSet
<1>8. p \notin Undialled \cup Entering \cup Returned \cup {"join"}
  BY <1>2 DEF Undialled, Entering, Returned
<1>9. spec[c].reaper \in BOOLEAN /\ "consumed" # "none"
  BY DEF HeldInv, SafeAt, Safe
<1>10. Safe(p, d, FALSE, s)
  BY Zenon, <1>3, <1>6, <1>8, <1>9 DEF Safe
<1>11. QED BY Zenon, <1>0, <1>7, <1>10, MoveKeeps

(* The remaining steps of a handler.                                       *)
LEMMA HandlerKeeps ==
    ASSUME HeldInv, NEW c \in Conns, Handler(c)
    PROVE  HeldInv'
<1>a. Shape
  BY Zenon DEF HeldInv
<1>b. ASSUME NEW from, NEW p, NEW d, NEW v, NEW upd, spec' = spec, Step(c, from, upd),
             upd = [pc |-> p, dst |-> d] \/ upd = [pc |-> p, tls |-> v, dst |-> d],
             p \notin Entering \cup Returned \cup {"join"}, p \in Undialled => from \in Undialled
      PROVE  HeldInv'
  <2>1. Moves(c, from, p, d, h[c].ptr)
    BY Zenon, <1>a, <1>b, DstMoves
  <2>2. QED BY Zenon, <1>b, <2>1, DstKeeps
<1>c. ASSUME NEW from, NEW p, spec' = spec, Step(c, from, [pc |-> p]), Leads(from, p)
      PROVE  HeldInv'
  <2>1. Moves(c, from, p, h[c].dst, h[c].ptr)
    BY Zenon, <1>a, <1>c, PlainMoves
  <2>2. QED BY Zenon, <1>c, <2>1, PlainKeeps
<1>d. ASSUME NEW from, NEW p, NEW d, from \notin Undialled, p \notin Undialled, p # "join",
             p \notin Returned \/ d # "open",
             spec' = IF h[c].ptr THEN [spec EXCEPT ![c] = Abandoned(c)] ELSE spec,
             Moves(c, from, p, d, FALSE)
      PROVE  HeldInv'
  BY Zenon, <1>d, AbandonKeeps
<1>1. CASE DialPlain(c)
  <2>1. \A p \in {"parser", "closer"} : /\ Leads("dialplain", p)
                                        /\ p \notin Entering \cup Returned \cup {"join"}
                                        /\ p \notin Undialled
    BY DEF Leads, Entering, Undialled, Returned
  <2>2. Leads("dialplain", "cleanup")
    BY DEF Leads, Entering, Undialled, Returned
  <2>3. PICK p \in {"parser", "closer"} : p = AfterDial(c)
    BY Zenon DEF AfterDial
  <2>4. spec' = spec /\ \/ Step(c, "dialplain", [pc |-> p, dst |-> "open"])
                        \/ Step(c, "dialplain", [pc |-> "cleanup"])
                        \/ Step(c, "dialplain", [pc |-> p])
    BY Zenon, <1>1, <2>3 DEF DialPlain
  <2>5. QED BY Zenon, <1>b, <1>c, <2>1, <2>2, <2>4
<1>2. CASE InnerPeek(c)
  <2>1. /\ "speculate" \notin Entering \cup Returned \cup {"join"} /\ "innerpeek" \in Undialled
        /\ Leads("innerpeek", "cleanup")
    BY DEF Leads, Entering, Undialled, Returned
  <2>2. spec' = spec /\ \/ Step(c, "innerpeek", [pc |-> "cleanup"])
                        \/ \E v, d : Step(c, "innerpeek", [pc |-> "speculate", tls |-> v, dst |-> d])
    BY Zenon, <1>2 DEF InnerPeek
  <2>3. QED BY Zenon, <1>b, <1>c, <2>1, <2>2
<1>3. CASE Handshake(c)
  <2>1. /\ "handshake" \notin Undialled /\ "initial" \notin Undialled /\ "cleanup" \notin Undialled
        /\ "initial" \notin Returned /\ "cleanup" \notin Returned /\ Leads("handshake", "initial")
        /\ "initial" # "join" /\ "cleanup" # "join"
    BY DEF Leads, Entering, Undialled, Returned
  <2>2. CASE /\ Step(c, "handshake", [pc |-> "initial", ptr |-> h[c].ptr /\ ~Client(c).mtls])
             /\ spec' = IF h[c].ptr /\ Client(c).mtls
                        THEN [spec EXCEPT ![c] = Abandoned(c)] ELSE spec
    <3>1. Moves(c, "handshake", "initial", h[c].dst, h[c].ptr /\ ~Client(c).mtls)
      BY Zenon, <1>a, <2>2, PtrMoves
    <3>2. h[c].ptr \in BOOLEAN
      BY Zenon DEF HeldInv, SafeAt, Safe
    <3>3. CASE h[c].ptr /\ Client(c).mtls
      <4>1. (h[c].ptr /\ ~Client(c).mtls) = FALSE
        BY Zenon, <3>3
      <4>2. Moves(c, "handshake", "initial", h[c].dst, FALSE)
        BY Zenon, <3>1, <4>1
      <4>3. QED BY Zenon, <1>d, <2>1, <2>2, <3>3, <4>2
    <3>4. CASE ~(h[c].ptr /\ Client(c).mtls)
      <4>1. (h[c].ptr /\ ~Client(c).mtls) = h[c].ptr
        BY Zenon, <3>2, <3>4
      <4>2. Moves(c, "handshake", "initial", h[c].dst, h[c].ptr)
        BY Zenon, <3>1, <4>1
      <4>3. QED BY Zenon, <2>1, <2>2, <3>4, <4>2, PlainKeeps
    <3>5. QED BY Zenon, <3>3, <3>4
  <2>3. CASE /\ Step(c, "handshake", [pc |-> "cleanup", ptr |-> FALSE, lost |-> TRUE])
             /\ spec' = IF h[c].ptr THEN [spec EXCEPT ![c] = Abandoned(c)] ELSE spec
    <3>1. Moves(c, "handshake", "cleanup", h[c].dst, FALSE)
      BY Zenon, <1>a, <2>3, PtrMoves
    <3>2. QED BY Zenon, <1>d, <2>1, <2>3, <3>1
  <2>4. QED BY Zenon, <1>3, <2>2, <2>3 DEF Handshake
<1>4. CASE DialUpstream(c)
  <2>1. /\ "upstream" \notin Undialled /\ "closer" \notin Undialled /\ "cleanup" \notin Undialled
        /\ "closer" \notin Returned /\ "cleanup" \notin Returned
        /\ "closer" # "join" /\ "cleanup" # "join" /\ Leads("upstream", "cleanup")
        /\ "closer" \notin Entering \cup Returned \cup {"join"}
    BY DEF Leads, Entering, Undialled, Returned
  <2>2. CASE spec' = spec /\ \/ Step(c, "upstream", [pc |-> "closer", dst |-> "open"])
                             \/ Step(c, "upstream", [pc |-> "cleanup"])
    BY Zenon, <1>b, <1>c, <2>1, <2>2
  <2>3. CASE spec' = spec /\ Joins(c) /\ Step(c, "upstream", [pc |-> "join"])
    <3>1. Moves(c, "upstream", "join", h[c].dst, h[c].ptr) /\ h[c].ptr
      BY Zenon, <1>a, <2>3, PlainMoves DEF Joins
    <3>2. DialStep(c) /\ spec'[c] = spec[c] /\ Safe("upstream", h[c].dst, h[c].ptr, spec[c])
      BY Zenon, <1>a, <2>3, <3>1, DialUnchanged DEF HeldInv, SafeAt, Moves
    <3>3. "join" \notin Entering \cup Undialled \cup Returned
      BY DEF Entering, Undialled, Returned
    <3>4. Safe("join", h[c].dst, h[c].ptr, spec[c])
      BY Zenon, <3>1, <3>2, <3>3 DEF Safe
    <3>5. QED BY Zenon, <3>1, <3>2, <3>4, MoveKeeps
  <2>4. CASE /\ TlsDial(c, "upstream")
             /\ spec' = IF h[c].ptr THEN [spec EXCEPT ![c] = Abandoned(c)] ELSE spec
    <3>1. \/ Moves(c, "upstream", "closer", "open", FALSE)
          \/ Moves(c, "upstream", "cleanup", "typednil", FALSE)
      BY Zenon, <1>a, <2>4, BothMove DEF TlsDial
    <3>2. QED BY Zenon, <1>d, <2>1, <2>4, <3>1
  <2>5. QED BY Zenon, <1>4, <2>2, <2>3, <2>4 DEF DialUpstream
<1>5. CASE Cleanup(c)
  <2>1. PICK p, u, v, w, d :
          /\ Step(c, "cleanup", [pc |-> p, cancel |-> u, ptr |-> FALSE, src |-> v,
                                 dst |-> d, panicked |-> w])
          /\ p = IF h[c].dst = "typednil" THEN "release" ELSE "wait"
          /\ d = IF h[c].dst = "open" THEN "closed" ELSE h[c].dst
    BY Zenon, <1>5 DEF Cleanup
  <2>2. Moves(c, "cleanup", p, d, FALSE)
    BY Zenon, <1>a, <2>1, BothMove
  <2>3. /\ "cleanup" \notin Undialled /\ p \notin Undialled /\ p # "join" /\ d # "open"
    BY <2>1 DEF Undialled, Entering
  <2>4. QED BY Zenon, <1>5, <1>d, <2>2, <2>3 DEF Cleanup
<1>6. QED BY Zenon, <1>1, <1>2, <1>3, <1>4, <1>5, PlainSteps, SpeculateKeeps, JoinKeeps DEF Handler

-----------------------------------------------------------------------------
(* The goroutines beside a handler.                                        *)

(* A change of a handler outside dstConn, the pointer and the pc.          *)
LEMMA AsideKeeps ==
    ASSUME HeldInv, NEW c \in Conns, spec' = spec, NEW r,
           h' = [h EXCEPT ![c] = r], r = [f \in Fields |-> r[f]],
           r.pc = h[c].pc, r.ptr = h[c].ptr,
           r.dst = h[c].dst \/ (h[c].dst = "open" /\ r.dst = "closed")
    PROVE  HeldInv'
<1>1. Moves(c, h[c].pc, h[c].pc, r.dst, h[c].ptr)
  BY Zenon DEF HeldInv, Shape, Moves
<1>2. DialStep(c) /\ spec'[c] = spec[c] /\ Safe(h[c].pc, h[c].dst, h[c].ptr, spec[c])
  BY Zenon, DialUnchanged DEF HeldInv, SafeAt
<1>3. "closed" # "open" /\ "open" # "nil"
  OBVIOUS
<1>4. Safe(h[c].pc, r.dst, h[c].ptr, spec[c])
  BY Zenon, <1>2, <1>3 DEF Safe
<1>5. QED BY Zenon, <1>1, <1>2, <1>4, MoveKeeps

(* The dial goroutine and the one that drains an abandoned dial.           *)
LEMMA DialKeeps ==
    ASSUME HeldInv, NEW c \in Conns, h' = h, NEW s, spec' = [spec EXCEPT ![c] = s],
           s = [f \in SpecFields |-> s[f]], Safe(h[c].pc, h[c].dst, h[c].ptr, s)
    PROVE  HeldInv'
<1>1. Moves(c, h[c].pc, h[c].pc, h[c].dst, h[c].ptr)
  BY Zenon DEF HeldInv, Shape, Moves
<1>2. DialStep(c) /\ spec'[c] = s
  BY Zenon, DialSet DEF HeldInv
<1>3. Safe(h[c].pc, h[c].dst, h[c].ptr, spec'[c])
  BY Zenon, <1>2
<1>4. QED BY Zenon, <1>1, <1>2, <1>3, MoveKeeps

LEMMA BackgroundKeeps ==
    ASSUME HeldInv, NEW c \in Conns, Background(c)
    PROVE  HeldInv'
<1>1. /\ Shape /\ h = [x \in Conns |-> h[x]] /\ spec = [x \in Conns |-> spec[x]]
      /\ spec[c] = [f \in SpecFields |-> spec[c][f]] /\ h[c] = [f \in Fields |-> h[c][f]]
      /\ Safe(h[c].pc, h[c].dst, h[c].ptr, spec[c])
  BY Zenon DEF HeldInv, Shape, SafeAt
<1>2. CASE SpeculativeDial(c)
  <2>1. PICK k : spec' = [spec EXCEPT ![c].st = "sent", ![c].sock = k]
    <3>1. \/ spec' = [spec EXCEPT ![c].st = "sent"]
          \/ spec' = [spec EXCEPT ![c].st = "sent", ![c].sock = "open"]
      BY Zenon, <1>2 DEF SpeculativeDial
    <3>2. CASE spec' = [spec EXCEPT ![c].st = "sent"]
      <4>1. spec' = [spec EXCEPT ![c].st = "sent", ![c].sock = spec[c].sock]
        BY <1>1, <3>2 DEF SpecFields
      <4>2. QED BY Zenon, <4>1
    <3>3. QED BY Zenon, <3>1, <3>2
  <2> DEFINE s == [spec[c] EXCEPT !.st = "sent", !.sock = k]
  <2>2. spec' = [spec EXCEPT ![c] = s]
    BY <1>1, <2>1
  <2>3. /\ s = [f \in SpecFields |-> s[f]] /\ s.st = "sent" /\ s.settled = spec[c].settled
        /\ s.reaper = spec[c].reaper
    BY <1>1 DEF SpecFields
  <2> HIDE DEF s
  <2>4. /\ h' = h /\ spec[c].st = "dialing" /\ "dialing" # "none" /\ "dialing" # "consumed"
        /\ "sent" # "none" /\ "sent" # "consumed"
    BY <1>2 DEF SpeculativeDial
  <2>5. Safe(h[c].pc, h[c].dst, h[c].ptr, s)
    BY Zenon, <1>1, <2>3, <2>4 DEF Safe
  <2>6. QED BY Zenon, <2>2, <2>3, <2>4, <2>5, DialKeeps
<1>3. CASE ReapAbandoned(c)
  <2> DEFINE k == IF spec[c].sock = "open" THEN "closed" ELSE spec[c].sock
             s == [spec[c] EXCEPT !.st = "consumed", !.reaper = FALSE, !.sock = k]
  <2>1. spec' = [spec EXCEPT ![c].st = "consumed", ![c].reaper = FALSE, ![c].sock = k]
    BY <1>1, <1>3 DEF ReapAbandoned, SpecFields
  <2>2. spec' = [spec EXCEPT ![c] = s]
    BY <1>1, <2>1
  <2>3. k # "open"
    OBVIOUS
  <2>4. /\ s = [f \in SpecFields |-> s[f]] /\ s.st = "consumed" /\ s.settled = spec[c].settled
        /\ s.reaper = FALSE /\ s.sock # "open"
    BY <1>1, <2>3 DEF SpecFields
  <2> HIDE DEF s, k
  <2>5. h' = h /\ spec[c].reaper /\ "consumed" # "none" /\ spec[c].st = "sent" /\ "sent" # "none"
    BY <1>3 DEF ReapAbandoned
  <2>6. Safe(h[c].pc, h[c].dst, h[c].ptr, s)
    BY Zenon, <1>1, <2>4, <2>5 DEF Safe
  <2>7. QED BY Zenon, <2>2, <2>4, <2>5, <2>6, DialKeeps
<1>4. CASE ConnCloser(c)
  <2> DEFINE d == IF h[c].dst = "open" THEN "closed" ELSE h[c].dst
             r == [h[c] EXCEPT !.closer = FALSE, !.src = "closed", !.dst = d]
  <2>1. h' = [h EXCEPT ![c].closer = FALSE, ![c].src = "closed", ![c].dst = d] /\ spec' = spec
    BY <1>1, <1>4 DEF ConnCloser, Fields
  <2>2. h' = [h EXCEPT ![c] = r]
    BY <1>1, <2>1
  <2>3. d = h[c].dst \/ (h[c].dst = "open" /\ d = "closed")
    BY Zenon
  <2>4. r = [f \in Fields |-> r[f]] /\ r.pc = h[c].pc /\ r.ptr = h[c].ptr /\ r.dst = d
    BY <1>1 DEF Fields
  <2> HIDE DEF r, d
  <2>5. QED BY Zenon, <2>1, <2>2, <2>3, <2>4, AsideKeeps
<1>5. QED BY Zenon, <1>2, <1>3, <1>4 DEF Background

-----------------------------------------------------------------------------
(* Every step keeps HeldInv.                                               *)
LEMMA HeldStep == HeldInv /\ [Next]_vars => HeldInv'
<1> SUFFICES ASSUME HeldInv, [Next]_vars PROVE HeldInv'
  BY Zenon
<1>1. CASE h' = h /\ spec' = spec
  BY Zenon, <1>1 DEF HeldInv, Shape, SafeAt
<1>2. CASE CancelCtx \/ Server \/ Terminated \/ UNCHANGED vars
  BY Zenon, <1>1, <1>2 DEF CancelCtx, Server, StartReturns, StartWaited, StopBegins, StopEnds,
                           Terminated, vars
<1>3. ASSUME NEW c \in Conns, Accept(c) PROVE HeldInv'
  <2>1. /\ Shape /\ h = [x \in Conns |-> h[x]] /\ h[c] = [f \in Fields |-> h[c][f]]
        /\ Safe(h[c].pc, h[c].dst, h[c].ptr, spec[c]) /\ spec' = spec /\ h[c].pc = "new"
    BY Zenon, <1>3 DEF HeldInv, Shape, SafeAt, Accept
  <2> DEFINE r == [h[c] EXCEPT !.pc = "claim", !.src = "open"]
  <2>2. h' = [h EXCEPT ![c] = r]
    BY <1>3, <2>1 DEF Accept
  <2>3. r = [f \in Fields |-> r[f]] /\ r.pc = "claim" /\ r.ptr = h[c].ptr /\ r.dst = h[c].dst
    BY <2>1 DEF Fields
  <2> HIDE DEF r
  <2>4. Moves(c, "new", "claim", h[c].dst, h[c].ptr)
    BY Zenon, <2>1, <2>2, <2>3 DEF Moves, Shape
  <2>5. Leads("new", "claim")
    BY DEF Leads, Entering, Undialled, Returned
  <2>6. QED BY Zenon, <2>1, <2>4, <2>5, PlainKeeps
<1>4. ASSUME NEW c \in Conns, ClientCloses(c) PROVE HeldInv'
  <2>1. h = [x \in Conns |-> h[x]] /\ h[c] = [f \in Fields |-> h[c][f]] /\ spec' = spec
    BY Zenon, <1>4 DEF HeldInv, Shape, ClientCloses
  <2> DEFINE r == [h[c] EXCEPT !.gone = TRUE]
  <2>2. h' = [h EXCEPT ![c] = r]
    BY <1>4, <2>1 DEF ClientCloses
  <2>3. r = [f \in Fields |-> r[f]] /\ r.pc = h[c].pc /\ r.ptr = h[c].ptr /\ r.dst = h[c].dst
    BY <2>1 DEF Fields
  <2> HIDE DEF r
  <2>4. QED BY Zenon, <2>1, <2>2, <2>3, AsideKeeps
<1>5. QED BY Zenon, <1>2, <1>3, <1>4, HandlerKeeps, BackgroundKeeps DEF Next

(* No connection has been accepted at the start.                           *)
LEMMA HeldInit == Init => HeldInv
<1> SUFFICES ASSUME Init PROVE HeldInv
  BY Zenon
<1>1. h = [c \in Conns |-> NewHandler] /\ spec = [c \in Conns |-> NoSpec]
  BY Zenon DEF Init
<1>2. NewHandler = [f \in Fields |-> NewHandler[f]] /\ NoSpec = [f \in SpecFields |-> NoSpec[f]]
  BY DEF NewHandler, NoSpec, Fields, SpecFields
<1>3. Shape
  BY Zenon, <1>1, <1>2 DEF Shape
<1>4. Safe(NewHandler.pc, NewHandler.dst, NewHandler.ptr, NoSpec)
  BY DEF NewHandler, NoSpec, Safe, Entering, Undialled, Returned
<1>5. QED BY Zenon, <1>1, <1>3, <1>4 DEF HeldInv, SafeAt

(* When handleConnection has returned, on whichever path and after         *)
(* whichever failures, the connection dstConn names is closed and the      *)
(* speculative dial was joined, was drained, or has the goroutine that     *)
(* abandon started to drain it.                                            *)
THEOREM NoUpstreamLeak == Spec => []UpstreamReleased
<1>1. HeldInv => UpstreamReleased
  <2> SUFFICES ASSUME HeldInv, NEW c \in Conns, h[c].pc \in {"release", "unmap", "done"}
               PROVE  /\ h[c].dst # "open"
                      /\ spec[c].st \in {"dialing", "sent"} => spec[c].reaper
                      /\ spec[c].st = "consumed" => spec[c].sock # "open"
    BY Zenon DEF UpstreamReleased
  <2>1. Safe(h[c].pc, h[c].dst, h[c].ptr, spec[c]) /\ h[c].pc \in Returned
    BY Zenon DEF HeldInv, SafeAt, Returned
  <2>2. spec[c].st \in {"dialing", "sent"} => spec[c].st # "none" /\ spec[c].st # "consumed"
    OBVIOUS
  <2>3. QED BY Zenon, <2>1, <2>2 DEF Safe
<1>2. QED BY <1>1, HeldInit, HeldStep, PTL DEF Spec
=============================================================================
