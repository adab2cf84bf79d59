---------------------------- MODULE AnyTlsProofs ----------------------------
(***************************************************************************)
(* What holds of the anytls sessions for every buffer, every load and any  *)
(* number of foreign frames: readLoop never sends on a closed stream.in,   *)
(* and a stream reads what the peer wrote.                                 *)
(***************************************************************************)
EXTENDS AnyTls, SequenceTheorems, TLAPS

-----------------------------------------------------------------------------
(* Types                                                                   *)

Sessions ==
    [open : BOOLEAN, done : BOOLEAN, seen : BOOLEAN, timed : BOOLEAN,
     reg : BOOLEAN, queued : BOOLEAN, in : Seq(Nat), eof : {"no", "cut", "fin"},
     closed : BOOLEAN, ack : {"none", "wait", "ok", "refused", "gone"},
     sent : Nat, got : Seq(Nat)]

Commands ==
    {"auth", "badAuth", "settings", "serverSettings", "waste", "heartRequest",
     "heartResponse", "alert", "unknown", "syn", "synack", "psh", "fin"}

Frames == [cmd : Commands, data : Nat]

Places == {"none", "read", "push", "heartResponse", "serverSettings", "alert", "end"}

Loops == [at : Places, data : Nat]

Tasks ==
    {"none", "dial", "settings", "open", "failed", "target", "request", "look", "select",
     "connect", "relay", "fin", "remove", "session", "closed"}

Readers == {"none", "run", "error", "eof"}

Writers == {"none", "run", "end"}

(* Every variable the streams depend on holds a value of its type.         *)
TypeOK ==
    /\ ep \in [Sides -> Sessions]
    /\ wire \in [Sides -> Seq(Frames)]
    /\ loop \in [Sides -> Loops]
    /\ task \in [Sides -> Tasks]
    /\ reader \in [Sides -> Readers]
    /\ writer \in [Sides -> Writers]

(* Forgetting a stream leaves the rest of the session.                     *)
LEMMA RemoveFields ==
    ASSUME NEW e \in Sessions
    PROVE  LET d == removeStream(e)
           IN  /\ d \in Sessions
               /\ d.in = e.in /\ d.got = e.got /\ d.sent = e.sent
               /\ d.queued = e.queued /\ d.seen = e.seen /\ d.eof = e.eof
               /\ d.done = e.done /\ d.open = e.open
               /\ ~d.reg
  BY DEF removeStream, Sessions

(* What closing a session does to it: data, counts and queue stay, the     *)
(* stream is forgotten, and an open stream.in of a known stream is closed. *)
LEMMA CloseFields ==
    ASSUME NEW e \in Sessions
    PROVE  LET d == CloseSession(e)
           IN  /\ d \in Sessions
               /\ d.in = e.in /\ d.got = e.got /\ d.sent = e.sent
               /\ d.queued = e.queued /\ d.seen = e.seen
               /\ d.reg => e.reg /\ e.done
               /\ d.eof = e.eof \/ (d.eof = "cut" /\ e.reg /\ ~d.reg)
               /\ d.done
               /\ (e.done => ~e.open) => ~d.open
  <1>1. CASE e.done
    BY <1>1 DEF CloseSession
  <1>2. CASE ~e.done
    <2> DEFINE c == IF e.reg THEN closeRead(e, "cut") ELSE e
               r == removeStream(c)
               d == [r EXCEPT !.done = TRUE, !.open = FALSE]
    <2>1. /\ c \in Sessions
          /\ c.in = e.in /\ c.got = e.got /\ c.sent = e.sent
          /\ c.queued = e.queued /\ c.seen = e.seen
          /\ c.eof = e.eof \/ (c.eof = "cut" /\ e.reg)
      BY DEF closeRead, Sessions
    <2> HIDE DEF c
    <2>2. /\ r \in Sessions
          /\ r.in = c.in /\ r.got = c.got /\ r.sent = c.sent
          /\ r.queued = c.queued /\ r.seen = c.seen /\ r.eof = c.eof /\ ~r.reg
      BY <2>1, RemoveFields
    <2> HIDE DEF r
    <2>3. /\ d \in Sessions
          /\ d.in = r.in /\ d.got = r.got /\ d.sent = r.sent
          /\ d.queued = r.queued /\ d.seen = r.seen /\ d.eof = r.eof
          /\ d.reg = r.reg /\ d.done /\ ~d.open
      BY <2>2 DEF Sessions
    <2>4. CloseSession(e) = d
      BY <1>2 DEF CloseSession, r, c
    <2> HIDE DEF d
    <2>5. QED
      BY <2>1, <2>2, <2>3, <2>4
  <1>3. QED
    BY <1>1, <1>2

(* A FIN closes stream.in and forgets the stream.                          *)
LEMMA FinFields ==
    ASSUME NEW e \in Sessions
    PROVE  LET d == removeStream(closeRead(e, "fin"))
           IN  /\ d \in Sessions
               /\ d.in = e.in /\ d.got = e.got /\ d.sent = e.sent
               /\ d.queued = e.queued /\ d.seen = e.seen
               /\ d.eof = IF e.eof = "no" THEN "fin" ELSE e.eof
               /\ d.done = e.done /\ d.open = e.open
               /\ ~d.reg
  BY DEF removeStream, closeRead, Sessions

(* Opening registers the stream.                                           *)
LEMMA OpenFields ==
    ASSUME NEW e \in Sessions
    PROVE  LET d == openStream(e)
           IN  /\ d \in Sessions
               /\ d.in = e.in /\ d.got = e.got /\ d.sent = e.sent
               /\ d.queued = e.queued /\ d.seen = e.seen /\ d.eof = e.eof
               /\ d.done = e.done /\ d.open = e.open
               /\ d.reg
  BY DEF openStream, Sessions

(* Read moves the first piece of stream.in to what was read.               *)
LEMMA ReadFields ==
    ASSUME NEW e \in Sessions, e.in # <<>>
    PROVE  LET d == Read(e)
           IN  /\ d \in Sessions
               /\ d.in = Tail(e.in) /\ d.got = Append(e.got, Head(e.in))
               /\ d.sent = e.sent /\ d.queued = e.queued /\ d.seen = e.seen
               /\ d.eof = e.eof /\ d.done = e.done /\ d.reg = e.reg
               /\ d.open = e.open
  <1>1. Tail(e.in) \in Seq(Nat) /\ Append(e.got, Head(e.in)) \in Seq(Nat)
    BY DEF Sessions
  <1>2. QED
    BY <1>1 DEF Read, Sessions

(* The rest of the session stays when one field is assigned.               *)
Keeps(e, d) ==
    /\ d \in Sessions
    /\ d.in = e.in /\ d.got = e.got /\ d.eof = e.eof
    /\ d.queued = e.queued /\ d.reg = e.reg /\ d.done = e.done

LEMMA OpenAssigned ==
    ASSUME NEW e \in Sessions, NEW b \in BOOLEAN
    PROVE  LET d == [e EXCEPT !.open = b]
           IN  Keeps(e, d) /\ d.seen = e.seen /\ d.sent = e.sent /\ d.open = b
  BY DEF Sessions, Keeps

LEMMA TimedAssigned ==
    ASSUME NEW e \in Sessions, NEW b \in BOOLEAN
    PROVE  LET d == [e EXCEPT !.timed = b]
           IN  Keeps(e, d) /\ d.seen = e.seen /\ d.sent = e.sent /\ d.open = e.open
  BY DEF Sessions, Keeps

LEMMA ClosedAssigned ==
    ASSUME NEW e \in Sessions
    PROVE  LET d == [e EXCEPT !.closed = TRUE]
           IN  Keeps(e, d) /\ d.seen = e.seen /\ d.sent = e.sent /\ d.open = e.open
  BY DEF Sessions, Keeps

LEMMA SeenAssigned ==
    ASSUME NEW e \in Sessions
    PROVE  LET d == [e EXCEPT !.seen = TRUE]
           IN  Keeps(e, d) /\ d.seen /\ d.sent = e.sent /\ d.open = e.open
  BY DEF Sessions, Keeps

LEMMA AckAssigned ==
    ASSUME NEW e \in Sessions, NEW a \in {"none", "wait", "ok", "refused", "gone"}
    PROVE  LET d == [e EXCEPT !.ack = a]
           IN  Keeps(e, d) /\ d.seen = e.seen /\ d.sent = e.sent /\ d.open = e.open
  BY DEF Sessions, Keeps

LEMMA SentAssigned ==
    ASSUME NEW e \in Sessions
    PROVE  LET d == [e EXCEPT !.sent = @ + 1]
           IN  Keeps(e, d) /\ d.seen = e.seen /\ d.sent = e.sent + 1 /\ d.open = e.open
  <1>1. PICK n \in Nat : n = e.sent + 1
    BY DEF Sessions
  <1>2. LET d == [e EXCEPT !.sent = n]
        IN  Keeps(e, d) /\ d.seen = e.seen /\ d.sent = n /\ d.open = e.open
    BY DEF Sessions, Keeps
  <1>3. QED
    BY <1>1, <1>2

(* AcceptStream takes the stream from the queue.                           *)
LEMMA AcceptFields ==
    ASSUME NEW e \in Sessions
    PROVE  LET d == [e EXCEPT !.queued = FALSE]
           IN  /\ d \in Sessions
               /\ d.in = e.in /\ d.got = e.got /\ d.sent = e.sent
               /\ ~d.queued /\ d.seen = e.seen /\ d.eof = e.eof
               /\ d.done = e.done /\ d.reg = e.reg /\ d.open = e.open
  BY DEF Sessions

(* HandleSyn registers and queues it.                                      *)
LEMMA SynFields ==
    ASSUME NEW e \in Sessions
    PROVE  LET d == [e EXCEPT !.reg = TRUE, !.queued = TRUE]
           IN  /\ d \in Sessions
               /\ d.in = e.in /\ d.got = e.got /\ d.sent = e.sent
               /\ d.seen = e.seen /\ d.eof = e.eof
               /\ d.done = e.done /\ d.reg /\ d.open = e.open
  BY DEF Sessions

(* Push appends to stream.in.                                              *)
LEMMA PushFields ==
    ASSUME NEW e \in Sessions, NEW a \in Nat
    PROVE  LET d == [e EXCEPT !.in = Append(@, a)]
           IN  /\ d \in Sessions
               /\ d.in = Append(e.in, a) /\ d.got = e.got /\ d.sent = e.sent
               /\ d.queued = e.queued /\ d.seen = e.seen /\ d.eof = e.eof
               /\ d.done = e.done /\ d.reg = e.reg /\ d.open = e.open
  <1>1. Append(e.in, a) \in Seq(Nat)
    BY DEF Sessions
  <1>2. QED
    BY <1>1 DEF Sessions

(* readLoop goes on.                                                       *)
LEMMA LoopAssigned ==
    ASSUME NEW l \in Loops, NEW at \in Places
    PROVE  \E m \in Loops : m = [l EXCEPT !.at = at] /\ m.at = at
  <1>1. [l EXCEPT !.at = at] \in Loops /\ [l EXCEPT !.at = at].at = at
    BY DEF Loops
  <1>2. QED
    BY <1>1

-----------------------------------------------------------------------------
(* The inductive invariant                                                 *)

(* s has written its FIN: it writes nothing more.                          *)
Over(s) == task[s] \in {"remove", "session", "closed"}

(* The SYN of the client's stream is on its way to the listener.           *)
SynOnWire == \E i \in DOMAIN wire["server"] : wire["server"][i].cmd = "syn"

(* The listener does not know of the stream, and may still be told.        *)
Before == task["client"] \in {"dial", "settings", "open"} \/ SynOnWire

(* Nothing has happened to a stream.                                       *)
Untouched(e) ==
    ~e.reg /\ ~e.queued /\ e.in = <<>> /\ e.got = <<>> /\ e.eof = "no" /\ e.sent = 0

No(w, cmds) == \A i \in DOMAIN w : w[i].cmd \notin cmds

(* How many pieces stream.in took, or readLoop is about to put there.      *)
Pieces(e, l) == Len(e.got) + Len(e.in) + IF l.at = "push" THEN 1 ELSE 0

(* What was read, what waits and what readLoop holds are numbered through. *)
Numbered(e, l) ==
    /\ \A i \in 1 .. Len(e.got) : e.got[i] = i
    /\ \A i \in 1 .. Len(e.in) : e.in[i] = Len(e.got) + i
    /\ l.at = "push" => l.data = Len(e.got) + Len(e.in) + 1

(* A stream that is known, or that readLoop is about to send to, is open.  *)
Gate(e, l) ==
    /\ e.reg \/ l.at = "push" => e.eof = "no"
    /\ e.done => ~e.reg

(* A FIN comes after all data, of a peer that writes nothing more; where   *)
(* it has arrived, all n pieces have.                                      *)
Ending(e, w, n, over) ==
    /\ \A i, j \in DOMAIN w : w[i].cmd = "psh" /\ w[j].cmd = "fin" => i < j
    /\ \A i \in DOMAIN w : w[i].cmd = "fin" => over
    /\ e.eof = "fin" => Len(e.got) + Len(e.in) = n /\ over

(* The pieces after the k-th, up to the n-th, are on the wire in order.    *)
Flow(k, w, n) ==
    /\ \A i \in DOMAIN w : w[i].cmd = "psh" => w[i].data \in k + 1 .. n
    /\ \A i, j \in DOMAIN w :
          w[i].cmd = "psh" /\ w[j].cmd = "psh" /\ i < j => w[i].data < w[j].data
    /\ \A m \in k + 1 .. n : \E i \in DOMAIN w : w[i].cmd = "psh" /\ w[i].data = m

(* s hands data on, or will once the SYN has arrived.                      *)
Expects(s) == ep[s].reg \/ (s = "server" /\ SynOnWire)

(* All of it for one direction: the session e with its readLoop l reads    *)
(* from the wire w what a peer has written in n pieces.                    *)
Dir(e, l, w, n, over, expects) ==
    /\ Numbered(e, l)
    /\ Gate(e, l)
    /\ Ending(e, w, n, over)
    /\ Pieces(e, l) <= n
    /\ expects => Flow(Pieces(e, l), w, n)

Direction(s) ==
    Dir(ep[s], loop[s], wire[s], ep[Peer(s)].sent, Over(Peer(s)), Expects(s))

(* There is one SYN, before all data.                                      *)
SynFirst(w) ==
    \A i, j \in DOMAIN w :
        w[j].cmd = "syn" => /\ w[i].cmd = "psh" => j < i
                            /\ w[i].cmd = "syn" => j = i

(* Until the stream is opened nothing has happened to it on the client,    *)
(* and until the SYN arrives nothing on the listener.                      *)
Opening ==
    /\ task["client"] \in {"dial", "settings", "open"} =>
          /\ Untouched(ep["client"])
          /\ loop["client"].at # "push"
          /\ No(wire["server"], {"psh", "fin", "syn"})
    /\ Before =>
          /\ Untouched(ep["server"])
          /\ loop["server"].at # "push"
          /\ No(wire["client"], {"psh", "fin"})
          /\ task["server"] = "none"

(* Where the goroutines are.                                               *)
Roles ==
    /\ \A s \in Sides :
          /\ writer[s] = "run" => task[s] = "relay"
          /\ reader[s] = "eof" => ep[s].in = <<>> /\ ep[s].eof # "no"
          /\ task[s] = "session" => s = "client" /\ ~ep[s].reg
          /\ ep[s].done => ~ep[s].open
    /\ ep["server"].queued => task["server"] = "none"
    /\ ~ep["client"].seen /\ No(wire["client"], {"settings"})
    /\ serve = "auth" => loop["server"].at = "none"
    /\ loop["server"].at = "none" => ~ep["server"].reg /\ ~ep["server"].done

(* The invariant.                                                          *)
StreamInv ==
    /\ TypeOK
    /\ ~panic
    /\ Roles
    /\ Opening
    /\ SynFirst(wire["server"])
    /\ \A s \in Sides : Direction(s)

-----------------------------------------------------------------------------
(* Lemmas about what is on the wire                                        *)

(* The frames after a frame was appended.                                  *)
LEMMA Appended ==
    ASSUME NEW w \in Seq(Frames), NEW f \in Frames
    PROVE  LET v == Append(w, f)
           IN  /\ v \in Seq(Frames)
               /\ DOMAIN v = DOMAIN w \cup {Len(w) + 1}
               /\ v[Len(w) + 1] = f
               /\ \A i \in DOMAIN w : v[i] = w[i] /\ i < Len(w) + 1 /\ i \in Nat
  OBVIOUS

(* The frames after the first was taken.                                   *)
LEMMA Taken ==
    ASSUME NEW w \in Seq(Frames), w # <<>>
    PROVE  LET v == Tail(w)
           IN  /\ v \in Seq(Frames)
               /\ 1 \in DOMAIN w /\ w[1] = Head(w)
               /\ \A i \in DOMAIN v : i \in Nat /\ i + 1 \in DOMAIN w /\ v[i] = w[i + 1]
               /\ \A i \in DOMAIN w : i \in Nat /\ (i # 1 => /\ i > 1
                                                            /\ i - 1 \in DOMAIN v
                                                            /\ v[i - 1] = w[i])
  OBVIOUS

(* Frames other than data and FIN change nothing for the data.             *)
LEMMA AppendPlain ==
    ASSUME NEW w \in Seq(Frames), NEW f \in Frames, f.cmd \notin {"psh", "fin"}
    PROVE  /\ \A e, n, o : Ending(e, w, n, o) => Ending(e, Append(w, f), n, o)
           /\ \A k \in Nat, n \in Nat : Flow(k, w, n) => Flow(k, Append(w, f), n)
  <1> DEFINE v == Append(w, f)
  <1>1. /\ DOMAIN v = DOMAIN w \cup {Len(w) + 1}
        /\ v[Len(w) + 1] = f
        /\ \A i \in DOMAIN w : v[i] = w[i] /\ i < Len(w) + 1 /\ i \in Nat
    BY Appended
  <1> HIDE DEF v
  <1>2. ASSUME NEW e, NEW n, NEW o, Ending(e, w, n, o) PROVE Ending(e, v, n, o)
    BY <1>1, <1>2 DEF Ending
  <1>3. ASSUME NEW k \in Nat, NEW n \in Nat, Flow(k, w, n) PROVE Flow(k, v, n)
    BY <1>1, <1>3 DEF Flow
  <1>4. QED
    BY <1>2, <1>3 DEF v

(* The next piece joins those on the wire.                                 *)
LEMMA AppendData ==
    ASSUME NEW w \in Seq(Frames), NEW n \in Nat, NEW f \in Frames,
           f.cmd = "psh", f.data = n + 1
    PROVE  /\ \A e, o : ~o /\ Ending(e, w, n, o) => Ending(e, Append(w, f), n + 1, o)
           /\ \A k \in 0 .. n : Flow(k, w, n) => Flow(k, Append(w, f), n + 1)
  <1> DEFINE v == Append(w, f)
  <1>1. /\ DOMAIN v = DOMAIN w \cup {Len(w) + 1}
        /\ v[Len(w) + 1] = f
        /\ \A i \in DOMAIN w : v[i] = w[i] /\ i < Len(w) + 1 /\ i \in Nat
    BY Appended
  <1>0. Len(w) \in Nat
    OBVIOUS
  <1> HIDE DEF v
  <1>2. ASSUME NEW e, NEW o, ~o, Ending(e, w, n, o) PROVE Ending(e, v, n + 1, o)
    BY <1>1, <1>2 DEF Ending
  <1>3. ASSUME NEW k \in 0 .. n, Flow(k, w, n) PROVE Flow(k, v, n + 1)
    <2>1. \A i \in DOMAIN v : v[i].cmd = "psh" => v[i].data \in k + 1 .. n + 1
      BY <1>1, <1>3 DEF Flow
    <2>2. ASSUME NEW i \in DOMAIN v, NEW j \in DOMAIN v,
                 v[i].cmd = "psh", v[j].cmd = "psh", i < j
          PROVE  v[i].data < v[j].data
      <3>1. i \in DOMAIN w
        BY <1>0, <1>1, <2>2
      <3>2. CASE j \in DOMAIN w
        BY <1>1, <1>3, <2>2, <3>1, <3>2 DEF Flow
      <3>3. CASE j = Len(w) + 1
        BY <1>1, <1>3, <2>2, <3>1, <3>3 DEF Flow
      <3>4. QED
        BY <1>1, <3>2, <3>3
    <2>3. ASSUME NEW m \in k + 1 .. n + 1
          PROVE  \E i \in DOMAIN v : v[i].cmd = "psh" /\ v[i].data = m
      <3>1. CASE m = n + 1
        BY <1>1, <3>1
      <3>2. CASE m # n + 1
        <4>1. m \in k + 1 .. n
          BY <3>2
        <4>2. QED
          BY <1>1, <1>3, <4>1 DEF Flow
      <3>3. QED
        BY <3>1, <3>2
    <2>4. QED
      BY <2>1, <2>2, <2>3 DEF Flow
  <1>4. QED
    BY <1>2, <1>3 DEF v

(* A FIN joins the data.                                                   *)
LEMMA AppendFin ==
    ASSUME NEW w \in Seq(Frames), NEW f \in Frames, f.cmd = "fin"
    PROVE  /\ \A e, n, o : Ending(e, w, n, o) => Ending(e, Append(w, f), n, TRUE)
           /\ \A k \in Nat, n \in Nat : Flow(k, w, n) => Flow(k, Append(w, f), n)
  <1> DEFINE v == Append(w, f)
  <1>1. /\ DOMAIN v = DOMAIN w \cup {Len(w) + 1}
        /\ v[Len(w) + 1] = f
        /\ \A i \in DOMAIN w : v[i] = w[i] /\ i < Len(w) + 1 /\ i \in Nat
    BY Appended
  <1> HIDE DEF v
  <1>2. ASSUME NEW e, NEW n, NEW o, Ending(e, w, n, o) PROVE Ending(e, v, n, TRUE)
    BY <1>1, <1>2 DEF Ending
  <1>3. ASSUME NEW k \in Nat, NEW n \in Nat, Flow(k, w, n) PROVE Flow(k, v, n)
    BY <1>1, <1>3 DEF Flow
  <1>4. QED
    BY <1>2, <1>3 DEF v

(* A frame that is no data is taken.                                       *)
LEMMA TakePlain ==
    ASSUME NEW w \in Seq(Frames), w # <<>>
    PROVE  /\ \A e, n, o : Ending(e, w, n, o) => Ending(e, Tail(w), n, o)
           /\ \A k \in Nat, n \in Nat :
                 Head(w).cmd # "psh" /\ Flow(k, w, n) => Flow(k, Tail(w), n)
  <1> DEFINE v == Tail(w)
  <1>1. /\ 1 \in DOMAIN w /\ w[1] = Head(w)
        /\ \A i \in DOMAIN v : i \in Nat /\ i + 1 \in DOMAIN w /\ v[i] = w[i + 1]
        /\ \A i \in DOMAIN w : i \in Nat /\ (i # 1 => /\ i > 1
                                                     /\ i - 1 \in DOMAIN v
                                                     /\ v[i - 1] = w[i])
    BY Taken
  <1> HIDE DEF v
  <1>a. \A i, j \in DOMAIN v : i + 1 < j + 1 <=> i < j
    BY <1>1
  <1>2. ASSUME NEW e, NEW n, NEW o, Ending(e, w, n, o) PROVE Ending(e, v, n, o)
    <2>1. \A i, j \in DOMAIN v : v[i].cmd = "psh" /\ v[j].cmd = "fin" => i + 1 < j + 1
      BY <1>1, <1>2 DEF Ending
    <2>2. \A i \in DOMAIN v : v[i].cmd = "fin" => o
      BY <1>1, <1>2 DEF Ending
    <2>3. QED
      BY <1>a, <1>2, <2>1, <2>2 DEF Ending
  <1>3. ASSUME NEW k \in Nat, NEW n \in Nat, Head(w).cmd # "psh", Flow(k, w, n)
        PROVE  Flow(k, v, n)
    <2>1. \A i \in DOMAIN v : v[i].cmd = "psh" => v[i].data \in k + 1 .. n
      BY <1>1, <1>3 DEF Flow
    <2>2. \A i, j \in DOMAIN v :
             v[i].cmd = "psh" /\ v[j].cmd = "psh" /\ i + 1 < j + 1 => v[i].data < v[j].data
      BY <1>1, <1>3 DEF Flow
    <2>3. ASSUME NEW m \in k + 1 .. n
          PROVE  \E i \in DOMAIN v : v[i].cmd = "psh" /\ v[i].data = m
      <3>1. PICK i \in DOMAIN w : w[i].cmd = "psh" /\ w[i].data = m
        BY <1>3 DEF Flow
      <3>2. i # 1
        BY <1>1, <1>3, <3>1
      <3>3. QED
        BY <1>1, <3>1, <3>2
    <2>4. QED
      BY <1>a, <2>1, <2>2, <2>3 DEF Flow
  <1>4. QED
    BY <1>2, <1>3 DEF v

(* The data frame that is taken is the next piece.                         *)
LEMMA TakeData ==
    ASSUME NEW w \in Seq(Frames), w # <<>>, Head(w).cmd = "psh",
           NEW k \in Nat, NEW n \in Nat, Flow(k, w, n)
    PROVE  Head(w).data = k + 1 /\ k + 1 <= n /\ Flow(k + 1, Tail(w), n)
  <1> DEFINE v == Tail(w)
  <1>1. /\ 1 \in DOMAIN w /\ w[1] = Head(w)
        /\ \A i \in DOMAIN v : i \in Nat /\ i + 1 \in DOMAIN w /\ v[i] = w[i + 1]
        /\ \A i \in DOMAIN w : i \in Nat /\ (i # 1 => /\ i > 1
                                                     /\ i - 1 \in DOMAIN v
                                                     /\ v[i - 1] = w[i])
    BY Taken
  <1>2. Head(w).data \in k + 1 .. n
    BY <1>1 DEF Flow
  <1>3. Head(w).data = k + 1
    <2>1. PICK i \in DOMAIN w : w[i].cmd = "psh" /\ w[i].data = k + 1
      BY <1>2 DEF Flow
    <2>2. i # 1 => Head(w).data < k + 1
      BY <1>1, <2>1 DEF Flow
    <2>3. QED
      BY <1>1, <1>2, <2>1, <2>2
  <1> HIDE DEF v
  <1>4. \A i \in DOMAIN v : v[i].cmd = "psh" => v[i].data \in k + 2 .. n
    <2>1. SUFFICES ASSUME NEW i \in DOMAIN v, v[i].cmd = "psh" PROVE v[i].data \in k + 2 .. n
      OBVIOUS
    <2>2. v[i].data \in k + 1 .. n /\ Head(w).data < v[i].data
      <3>1. i + 1 \in DOMAIN w /\ v[i] = w[i + 1] /\ 1 < i + 1
        BY <1>1 DEF v
      <3>2. QED
        BY <1>1, <2>1, <3>1 DEF Flow
    <2>3. QED
      BY <1>3, <2>2
  <1>5. \A i, j \in DOMAIN v :
           v[i].cmd = "psh" /\ v[j].cmd = "psh" /\ i + 1 < j + 1 => v[i].data < v[j].data
    BY <1>1 DEF Flow
  <1>6. \A m \in k + 2 .. n : \E i \in DOMAIN v : v[i].cmd = "psh" /\ v[i].data = m
    <2>1. SUFFICES ASSUME NEW m \in k + 2 .. n
                   PROVE  \E i \in DOMAIN v : v[i].cmd = "psh" /\ v[i].data = m
      OBVIOUS
    <2>2. PICK i \in DOMAIN w : w[i].cmd = "psh" /\ w[i].data = m
      BY DEF Flow
    <2>3. i # 1
      BY <1>1, <1>3, <2>2
    <2>4. QED
      BY <1>1, <2>2, <2>3
  <1>7. Flow(k + 1, v, n)
    <2>1. k + 1 + 1 = k + 2
      OBVIOUS
    <2>2. \A i, j \in DOMAIN v : i < j => i + 1 < j + 1
      BY <1>1
    <2>3. QED
      BY <1>4, <1>5, <1>6, <2>1, <2>2 DEF Flow
  <1>8. QED
    BY <1>2, <1>3, <1>7 DEF v

(* When the FIN is taken, nothing is missing.                              *)
LEMMA FinIsLast ==
    ASSUME NEW w \in Seq(Frames), w # <<>>, Head(w).cmd = "fin",
           NEW e, NEW o, NEW n \in Nat, NEW k \in 0 .. n,
           Ending(e, w, n, o), Flow(k, w, n)
    PROVE  k = n /\ o
  <1>1. 1 \in DOMAIN w /\ w[1] = Head(w) /\ \A i \in DOMAIN w : i >= 1
    OBVIOUS
  <1>2. \A i \in DOMAIN w : w[i].cmd # "psh"
    BY <1>1 DEF Ending
  <1>3. ~(n \in k + 1 .. n)
    BY <1>2 DEF Flow
  <1>4. QED
    BY <1>1, <1>3 DEF Ending

(* The order of the SYN is kept by any frame that is taken and any but a   *)
(* SYN that is appended.                                                   *)
LEMMA SynStays ==
    ASSUME NEW w \in Seq(Frames), SynFirst(w)
    PROVE  /\ \A f \in Frames : f.cmd # "syn" => SynFirst(Append(w, f))
           /\ w # <<>> => SynFirst(Tail(w))
  <1>1. ASSUME NEW f \in Frames, f.cmd # "syn" PROVE SynFirst(Append(w, f))
    <2> DEFINE v == Append(w, f)
    <2>1. /\ DOMAIN v = DOMAIN w \cup {Len(w) + 1}
          /\ v[Len(w) + 1] = f
          /\ \A i \in DOMAIN w : v[i] = w[i] /\ i < Len(w) + 1 /\ i \in Nat
      BY Appended
    <2> HIDE DEF v
    <2>2. SynFirst(v)
      BY <1>1, <2>1 DEF SynFirst
    <2>3. QED
      BY <2>2 DEF v
  <1>2. ASSUME w # <<>> PROVE SynFirst(Tail(w))
    <2> DEFINE v == Tail(w)
    <2>1. \A i \in DOMAIN v : i \in Nat /\ i + 1 \in DOMAIN w /\ v[i] = w[i + 1]
      BY <1>2, Taken
    <2> HIDE DEF v
    <2>2. ASSUME NEW i \in DOMAIN v, NEW j \in DOMAIN v, v[j].cmd = "syn"
          PROVE  /\ v[i].cmd = "psh" => j + 1 < i + 1
                 /\ v[i].cmd = "syn" => j + 1 = i + 1
      BY <2>1, <2>2 DEF SynFirst
    <2>3. SynFirst(v)
      BY <2>1, <2>2 DEF SynFirst
    <2>4. QED
      BY <2>3 DEF v
  <1>3. QED
    BY <1>1, <1>2

-----------------------------------------------------------------------------
(* Lemmas about one direction                                              *)

(* A session that takes no data: the stream may be forgotten, and closed   *)
(* with the session while readLoop does not send.                          *)
Idles(e, l, d, m) ==
    /\ d.in = e.in /\ d.got = e.got
    /\ d.reg => e.reg
    /\ d.done => e.done \/ ~d.reg
    /\ d.eof = e.eof \/ (d.eof = "cut" /\ e.reg /\ ~d.reg /\ m.at # "push")
    /\ m = l \/ (m.at # "push" /\ l.at # "push")

(* No data come or go on the wire, but for some that nobody expects.       *)
Plain(w, v, expects) ==
    \/ v = w
    \/ \E f \in Frames : f.cmd \notin {"psh", "fin"} /\ v = Append(w, f)
    \/ w # <<>> /\ v = Tail(w) /\ (expects => Head(w).cmd # "psh")

(* The count of pieces is a number.                                        *)
LEMMA PiecesNat ==
    ASSUME NEW e \in Sessions, NEW l \in Loops
    PROVE  /\ Pieces(e, l) \in Nat /\ Len(e.got) \in Nat /\ Len(e.in) \in Nat
           /\ l.at # "push" => Pieces(e, l) = Len(e.got) + Len(e.in)
           /\ l.at = "push" => Pieces(e, l) = Len(e.got) + Len(e.in) + 1
  <1>1. e.got \in Seq(Nat) /\ e.in \in Seq(Nat)
    BY DEF Sessions
  <1>2. PICK a \in Nat, b \in Nat : a = Len(e.got) /\ b = Len(e.in)
    BY <1>1
  <1>3. CASE l.at = "push"
    <2>1. Pieces(e, l) = Len(e.got) + Len(e.in) + 1
      BY <1>3 DEF Pieces
    <2>2. a + b + 1 \in Nat
      OBVIOUS
    <2>3. QED
      BY <1>2, <1>3, <2>1, <2>2, Zenon
  <1>4. CASE l.at # "push"
    <2>1. Pieces(e, l) = a + b + 0
      BY <1>2, <1>4 DEF Pieces
    <2>2. a + b + 0 = a + b /\ a + b \in Nat
      OBVIOUS
    <2>3. QED
      BY <1>2, <1>4, <2>1, <2>2, Zenon
  <1>5. QED
    BY <1>3, <1>4

(* A step that is of no concern to the data keeps the direction.           *)
LEMMA DirPlain ==
    ASSUME NEW e \in Sessions, NEW d \in Sessions, NEW l \in Loops, NEW m \in Loops,
           NEW w \in Seq(Frames), NEW v \in Seq(Frames), NEW n \in Nat,
           NEW o, NEW p, NEW x, NEW y,
           Dir(e, l, w, n, o, x), Idles(e, l, d, m), Plain(w, v, y), o => p, y => x
    PROVE  Dir(d, m, v, n, p, y)
  <1>1. Pieces(d, m) = Pieces(e, l) /\ Pieces(e, l) \in Nat
    BY PiecesNat DEF Pieces, Idles
  <1>2. Numbered(d, m)
    BY DEF Dir, Idles, Numbered
  <1>3. Gate(d, m)
    BY DEF Dir, Idles, Gate
  <1>4. Ending(d, w, n, p)
    BY DEF Dir, Idles, Ending
  <1>5. Ending(d, v, n, p)
    BY <1>4, AppendPlain, TakePlain DEF Plain
  <1>6. ASSUME y PROVE Flow(Pieces(e, l), v, n)
    BY <1>1, <1>6, AppendPlain, TakePlain DEF Dir, Plain
  <1>7. QED
    BY <1>1, <1>2, <1>3, <1>5, <1>6 DEF Dir

(* The peer writes a piece.                                                *)
LEMMA DirData ==
    ASSUME NEW e \in Sessions, NEW l \in Loops, NEW w \in Seq(Frames), NEW n \in Nat,
           NEW o, NEW x, NEW f \in Frames,
           Dir(e, l, w, n, o, x), ~o, f.cmd = "psh", f.data = n + 1
    PROVE  Dir(e, l, Append(w, f), n + 1, o, x)
  <1>1. Pieces(e, l) \in Nat /\ Pieces(e, l) <= n
    BY PiecesNat DEF Dir
  <1>2. Ending(e, Append(w, f), n + 1, o)
    BY AppendData DEF Dir
  <1>3. ASSUME x PROVE Flow(Pieces(e, l), Append(w, f), n + 1)
    <2>1. Flow(Pieces(e, l), w, n)
      BY <1>3 DEF Dir
    <2>2. PICK k \in Nat : k = Pieces(e, l) /\ k \in 0 .. n
      BY <1>1
    <2>3. QED
      BY <2>1, <2>2, AppendData
  <1>4. QED
    BY <1>1, <1>2, <1>3 DEF Dir

(* The peer writes its FIN, or fails to.                                   *)
LEMMA DirFin ==
    ASSUME NEW e \in Sessions, NEW l \in Loops, NEW w \in Seq(Frames), NEW n \in Nat,
           NEW o, NEW x, NEW f \in Frames,
           Dir(e, l, w, n, o, x), f.cmd = "fin"
    PROVE  Dir(e, l, Append(w, f), n, TRUE, x)
  <1>1. Pieces(e, l) \in Nat
    BY PiecesNat
  <1>2. QED
    BY <1>1, AppendFin DEF Dir

(* HandlePsh takes the next piece for a known stream.                      *)
LEMMA DirPsh ==
    ASSUME NEW e \in Sessions, NEW l \in Loops, NEW m \in Loops, NEW w \in Seq(Frames),
           NEW n \in Nat, NEW o, NEW x,
           Dir(e, l, w, n, o, x), x, e.reg, l.at # "push",
           w # <<>>, Head(w).cmd = "psh", m.at = "push", m.data = Head(w).data
    PROVE  Dir(e, m, Tail(w), n, o, x)
  <1> DEFINE k == Pieces(e, l)
  <1>1. k \in Nat /\ k = Len(e.got) + Len(e.in) /\ Pieces(e, m) = k + 1
    BY PiecesNat
  <1>2. Head(w).data = k + 1 /\ k + 1 <= n /\ Flow(k + 1, Tail(w), n)
    <2>1. Flow(k, w, n)
      BY DEF Dir
    <2> HIDE DEF k
    <2>2. QED
      BY <1>1, <2>1, TakeData
  <1>3. Numbered(e, m) /\ Gate(e, m)
    BY <1>1, <1>2 DEF Dir, Numbered, Gate
  <1>4. Ending(e, Tail(w), n, o)
    BY TakePlain DEF Dir
  <1> HIDE DEF k
  <1>5. QED
    BY <1>1, <1>2, <1>3, <1>4 DEF Dir

(* push puts the piece into stream.in.                                     *)
LEMMA DirPush ==
    ASSUME NEW e \in Sessions, NEW d \in Sessions, NEW l \in Loops, NEW m \in Loops,
           NEW w, NEW n \in Nat, NEW o, NEW x,
           Dir(e, l, w, n, o, x), l.at = "push", m.at # "push",
           d.in = Append(e.in, l.data), d.got = e.got, d.eof = e.eof,
           d.reg = e.reg, d.done = e.done
    PROVE  Dir(d, m, w, n, o, x)
  <1>1. e.in \in Seq(Nat) /\ l.data \in Nat /\ Len(e.in) \in Nat /\ Len(e.got) \in Nat
    BY PiecesNat DEF Sessions, Loops
  <1>2. /\ Len(d.in) = Len(e.in) + 1
        /\ \A i \in 1 .. Len(e.in) : d.in[i] = e.in[i]
        /\ d.in[Len(e.in) + 1] = l.data
    BY <1>1
  <1>a. PICK a \in Nat, b \in Nat : a = Len(e.got) /\ b = Len(e.in)
    BY <1>1
  <1>3. Pieces(d, m) = Pieces(e, l)
    <2>1. Pieces(e, l) = a + b + 1 /\ Pieces(d, m) = a + (b + 1)
      BY <1>a, <1>2, PiecesNat
    <2>2. QED
      BY <2>1
  <1>4. Numbered(d, m)
    <2>1. l.data = a + (b + 1)
      <3>1. l.data = a + b + 1
        BY <1>a DEF Dir, Numbered
      <3>2. QED
        BY <3>1
    <2>2. ASSUME NEW i \in 1 .. Len(d.in) PROVE d.in[i] = Len(d.got) + i
      <3>1. CASE i = b + 1
        BY <1>a, <1>2, <2>1, <3>1
      <3>2. CASE i # b + 1
        <4>1. i \in 1 .. Len(e.in)
          BY <1>a, <1>2, <3>2
        <4>2. QED
          BY <1>2, <4>1 DEF Dir, Numbered
      <3>3. QED
        BY <3>1, <3>2
    <2>3. QED
      BY <2>2 DEF Dir, Numbered
  <1>5. Gate(d, m) /\ e.eof = "no"
    BY DEF Dir, Gate
  <1>6. Ending(d, w, n, o)
    BY <1>5 DEF Dir, Ending
  <1>7. QED
    BY <1>3, <1>4, <1>5, <1>6 DEF Dir

(* push gives the piece up, as nobody expects any more.                    *)
LEMMA DirDrop ==
    ASSUME NEW e \in Sessions, NEW l \in Loops, NEW m \in Loops,
           NEW w, NEW n \in Nat, NEW o, NEW x,
           Dir(e, l, w, n, o, x), ~x, l.at = "push", m.at # "push"
    PROVE  Dir(e, m, w, n, o, x)
  <1>1. Pieces(e, m) <= n
    <2>1. PICK a \in Nat, b \in Nat : a = Len(e.got) /\ b = Len(e.in)
      BY PiecesNat
    <2>2. Pieces(e, l) = a + b + 1 /\ Pieces(e, m) = a + b
      BY <2>1, PiecesNat
    <2>3. a + b + 1 <= n
      BY <2>2 DEF Dir
    <2>4. a + b <= n
      BY <2>3
    <2>5. QED
      BY <2>2, <2>4
  <1>2. QED
    BY <1>1 DEF Dir, Numbered, Gate

(* Read takes a piece from stream.in.                                      *)
LEMMA DirRead ==
    ASSUME NEW e \in Sessions, NEW d \in Sessions, NEW l \in Loops,
           NEW w, NEW n \in Nat, NEW o, NEW x,
           Dir(e, l, w, n, o, x), e.in # <<>>,
           d.in = Tail(e.in), d.got = Append(e.got, Head(e.in)), d.eof = e.eof,
           d.reg = e.reg, d.done = e.done
    PROVE  Dir(d, l, w, n, o, x)
  <1>1. /\ e.in \in Seq(Nat) /\ e.got \in Seq(Nat)
        /\ Len(e.in) \in Nat \ {0} /\ Len(e.got) \in Nat
    BY DEF Sessions
  <1>2. /\ Len(d.in) = Len(e.in) - 1
        /\ \A i \in 1 .. Len(d.in) : d.in[i] = e.in[i + 1] /\ i + 1 \in 1 .. Len(e.in)
        /\ Len(d.got) = Len(e.got) + 1
        /\ \A i \in 1 .. Len(e.got) : d.got[i] = e.got[i]
        /\ d.got[Len(e.got) + 1] = e.in[1] /\ 1 \in 1 .. Len(e.in)
    BY <1>1
  <1>a. PICK a \in Nat, b \in Nat \ {0} : a = Len(e.got) /\ b = Len(e.in)
    BY <1>1
  <1>3. Len(d.got) + Len(d.in) = Len(e.got) + Len(e.in)
    <2>1. Len(d.got) = a + 1 /\ Len(d.in) = b - 1
      BY <1>a, <1>2
    <2>2. (a + 1) + (b - 1) = a + b
      OBVIOUS
    <2>3. QED
      BY <1>a, <2>1, <2>2
  <1>4. Pieces(d, l) = Pieces(e, l)
    BY <1>3 DEF Pieces
  <1>5. Numbered(d, l)
    <2>1. ASSUME NEW i \in 1 .. Len(d.got) PROVE d.got[i] = i
      <3>1. CASE i = Len(e.got) + 1
        BY <1>1, <1>2, <3>1 DEF Dir, Numbered
      <3>2. CASE i # Len(e.got) + 1
        <4>1. i \in 1 .. Len(e.got)
          BY <1>1, <1>2, <3>2
        <4>2. QED
          BY <1>2, <4>1 DEF Dir, Numbered
      <3>3. QED
        BY <3>1, <3>2
    <2>2. ASSUME NEW i \in 1 .. Len(d.in) PROVE d.in[i] = Len(d.got) + i
      <3>1. d.in[i] = a + (i + 1) /\ Len(d.got) = a + 1
        BY <1>a, <1>2 DEF Dir, Numbered
      <3>2. a + (i + 1) = (a + 1) + i
        <4>1. i \in Int
          OBVIOUS
        <4>2. QED
          BY <4>1
      <3>3. QED
        BY <3>1, <3>2
    <2>3. QED
      BY <1>3, <2>1, <2>2 DEF Dir, Numbered
  <1>6. Gate(d, l) /\ Ending(d, w, n, o)
    BY <1>3 DEF Dir, Gate, Ending
  <1>7. QED
    BY <1>4, <1>5, <1>6 DEF Dir

(* A FIN ends a known stream: all pieces are there.                        *)
LEMMA DirFinTaken ==
    ASSUME NEW e \in Sessions, NEW d \in Sessions, NEW l \in Loops,
           NEW w \in Seq(Frames), NEW n \in Nat, NEW o, NEW x, NEW y,
           Dir(e, l, w, n, o, x), x, ~y, l.at # "push", w # <<>>, Head(w).cmd = "fin",
           d.in = e.in, d.got = e.got, d.eof = "fin", ~d.reg
    PROVE  Dir(d, l, Tail(w), n, o, y)
  <1>1. PICK k \in Nat : k = Pieces(e, l) /\ k = Len(e.got) + Len(e.in) /\ Pieces(d, l) = k
    BY PiecesNat
  <1>2. k = n /\ o
    <2>1. Ending(e, w, n, o) /\ Flow(k, w, n) /\ k <= n
      BY <1>1 DEF Dir
    <2>2. k \in 0 .. n
      BY <2>1
    <2>3. QED
      BY <2>1, <2>2, FinIsLast
  <1>3. Ending(e, Tail(w), n, o)
    BY TakePlain DEF Dir
  <1>4. Ending(d, Tail(w), n, o)
    BY <1>1, <1>2, <1>3 DEF Ending
  <1>5. Numbered(d, l) /\ Gate(d, l)
    BY DEF Dir, Numbered, Gate
  <1>6. Pieces(d, l) <= n
    <2>1. n <= n
      OBVIOUS
    <2>2. QED
      BY <1>1, <1>2, <2>1, Zenon
  <1>7. QED
    BY <1>4, <1>5, <1>6 DEF Dir

(* A stream nothing has happened to.                                       *)
LEMMA DirFresh ==
    ASSUME NEW e \in Sessions, NEW l \in Loops, NEW w, NEW o, NEW x,
           e.in = <<>>, e.got = <<>>, e.eof = "no", e.done => ~e.reg, l.at # "push",
           No(w, {"psh", "fin"})
    PROVE  Dir(e, l, w, 0, o, x)
  <1>1. Len(e.in) = 0 /\ Len(e.got) = 0
    OBVIOUS
  <1>2. Pieces(e, l) = 0
    BY <1>1 DEF Pieces
  <1>3. Numbered(e, l)
    BY <1>1 DEF Numbered
  <1>4. Gate(e, l)
    BY DEF Gate
  <1>5. Ending(e, w, 0, o) /\ Flow(0, w, 0)
    BY DEF Ending, Flow, No
  <1>6. QED
    BY <1>2, <1>3, <1>4, <1>5 DEF Dir

(* The SYN arrives.                                                        *)
LEMMA DirSyn ==
    ASSUME NEW e \in Sessions, NEW d \in Sessions, NEW l \in Loops,
           NEW w \in Seq(Frames), NEW n \in Nat, NEW o, NEW x, NEW y,
           Dir(e, l, w, n, o, x), x, w # <<>>, Head(w).cmd = "syn",
           d.in = e.in, d.got = e.got, d.eof = e.eof, e.eof = "no", ~d.done
    PROVE  Dir(d, l, Tail(w), n, o, y)
  <1>1. Pieces(d, l) = Pieces(e, l) /\ Pieces(e, l) \in Nat
    BY PiecesNat DEF Pieces
  <1>2. Numbered(d, l) /\ Gate(d, l)
    BY DEF Dir, Numbered, Gate
  <1>3. Ending(d, w, n, o)
    BY DEF Dir, Ending
  <1>4. Ending(d, Tail(w), n, o)
    BY <1>3, TakePlain
  <1>5. Flow(Pieces(e, l), Tail(w), n)
    BY <1>1, TakePlain DEF Dir
  <1>6. QED
    BY <1>1, <1>2, <1>4, <1>5 DEF Dir

-----------------------------------------------------------------------------
(* The shape of a step                                                     *)

(* The sides are each other's peers.                                       *)
LEMMA Sidewise ==
    /\ "client" \in Sides /\ "server" \in Sides
    /\ Peer("client") = "server" /\ Peer("server") = "client"
    /\ \A s \in Sides : /\ Peer(s) \in Sides /\ Peer(s) # s /\ Peer(Peer(s)) = s
                        /\ \A x \in Sides : x = s \/ x = Peer(s)
  BY DEF Sides, Peer

(* A step of side s: its session, readLoop, owner and copiers afterwards.  *)
Moves(s, d, l, pc, r, c) ==
    /\ ep' = [ep EXCEPT ![s] = d]
    /\ loop' = [loop EXCEPT ![s] = l]
    /\ task' = [task EXCEPT ![s] = pc]
    /\ reader' = [reader EXCEPT ![s] = r]
    /\ writer' = [writer EXCEPT ![s] = c]

(* What does not change may be said to be assigned.                        *)
LEMMA Stays ==
    ASSUME TypeOK, NEW s \in Sides
    PROVE  /\ ep' = ep => ep' = [ep EXCEPT ![s] = ep[s]]
           /\ loop' = loop => loop' = [loop EXCEPT ![s] = loop[s]]
           /\ task' = task => task' = [task EXCEPT ![s] = task[s]]
           /\ reader' = reader => reader' = [reader EXCEPT ![s] = reader[s]]
           /\ writer' = writer => writer' = [writer EXCEPT ![s] = writer[s]]
           /\ ep[s] \in Sessions /\ loop[s] \in Loops /\ task[s] \in Tasks
           /\ reader[s] \in Readers /\ writer[s] \in Writers
           /\ wire[s] \in Seq(Frames)
  BY DEF TypeOK, Readers, Writers

(* The state of both sides after a step.                                   *)
LEMMA MoveFields ==
    ASSUME TypeOK, NEW s \in Sides, NEW d \in Sessions, NEW l \in Loops,
           NEW pc \in Tasks, NEW r \in Readers, NEW c \in Writers, Moves(s, d, l, pc, r, c)
    PROVE  /\ ep'[s] = d /\ loop'[s] = l /\ task'[s] = pc
           /\ reader'[s] = r /\ writer'[s] = c
           /\ ep'[Peer(s)] = ep[Peer(s)] /\ loop'[Peer(s)] = loop[Peer(s)]
           /\ task'[Peer(s)] = task[Peer(s)]
           /\ reader'[Peer(s)] = reader[Peer(s)] /\ writer'[Peer(s)] = writer[Peer(s)]
           /\ wire' \in [Sides -> Seq(Frames)] => TypeOK'
  <1>1. Peer(s) \in Sides /\ Peer(s) # s
    BY Sidewise
  <1>2. /\ ep'[s] = d /\ ep'[Peer(s)] = ep[Peer(s)] /\ ep' \in [Sides -> Sessions]
        /\ loop'[s] = l /\ loop'[Peer(s)] = loop[Peer(s)] /\ loop' \in [Sides -> Loops]
    BY <1>1 DEF Moves, TypeOK
  <1>3. /\ task'[s] = pc /\ task'[Peer(s)] = task[Peer(s)] /\ task' \in [Sides -> Tasks]
        /\ reader'[s] = r /\ reader'[Peer(s)] = reader[Peer(s)]
        /\ reader' \in [Sides -> Readers]
        /\ writer'[s] = c /\ writer'[Peer(s)] = writer[Peer(s)]
        /\ writer' \in [Sides -> Writers]
    BY <1>1 DEF Moves, TypeOK, Readers, Writers
  <1>4. QED
    BY <1>2, <1>3 DEF TypeOK, Readers, Writers

(* A frame joins or leaves a wire and is no data that a known stream waits *)
(* for, and neither a SYN nor settings to the side that acts on it.        *)
Wired(x) ==
    \/ wire'[x] = wire[x]
    \/ \E f \in Frames : /\ f.cmd \notin {"psh", "fin", "settings"}
                         /\ f.cmd = "syn" => x = "client"
                         /\ wire'[x] = Append(wire[x], f)
    \/ /\ wire[x] # <<>>
       /\ wire'[x] = Tail(wire[x])
       /\ ep[x].reg => Head(wire[x]).cmd # "psh"

(* Commands that are not on a wire do not come from a step of this kind.   *)
LEMMA NoneJoins ==
    ASSUME NEW w \in Seq(Frames), NEW cmds, No(w, cmds)
    PROVE  /\ \A f \in Frames : f.cmd \notin cmds => No(Append(w, f), cmds)
           /\ w # <<>> => No(Tail(w), cmds) /\ Head(w).cmd \notin cmds
  <1>1. ASSUME NEW f \in Frames, f.cmd \notin cmds PROVE No(Append(w, f), cmds)
    <2> DEFINE v == Append(w, f)
    <2>1. /\ DOMAIN v = DOMAIN w \cup {Len(w) + 1}
          /\ v[Len(w) + 1] = f
          /\ \A i \in DOMAIN w : v[i] = w[i] /\ i < Len(w) + 1 /\ i \in Nat
      BY Appended
    <2> HIDE DEF v
    <2>2. No(v, cmds)
      BY <1>1, <2>1 DEF No
    <2>3. QED
      BY <2>2 DEF v
  <1>2. ASSUME w # <<>> PROVE No(Tail(w), cmds) /\ Head(w).cmd \notin cmds
    BY <1>2, Taken DEF No
  <1>3. QED
    BY <1>1, <1>2

(* What the goroutines' places demand of a step.                           *)
Fits(s, d, l, pc, r, c) ==
    /\ c = "run" => pc = "relay"
    /\ r = "eof" => d.in = <<>> /\ d.eof # "no"
    /\ pc = "session" => s = "client" /\ ~d.reg
    /\ d.done => ~d.open
    /\ s = "server" /\ d.queued => pc = "none"
    /\ s = "client" => ~d.seen
    /\ serve' = "auth" => serve = "auth" /\ (s = "server" => l.at = "none")
    /\ s = "server" /\ l.at = "none" => ~d.reg /\ ~d.done

(* The owner of the stream goes on from where it is.                       *)
Onward(s, pc) ==
    /\ Over(s) => pc \in {"remove", "session", "closed"}
    /\ s = "client" /\ pc \in {"dial", "settings", "open"} => task[s] \in {"dial", "settings", "open"}
    /\ s = "server" /\ pc # "none" => task[s] # "none" \/ ep[s].queued

(* The roles after a step.                                                 *)
LEMMA RolesMove ==
    ASSUME TypeOK, Roles, NEW s \in Sides, NEW d \in Sessions, NEW l \in Loops,
           NEW pc \in Tasks, NEW r \in Readers, NEW c \in Writers, Moves(s, d, l, pc, r, c),
           wire' \in [Sides -> Seq(Frames)],
           No(wire'["client"], {"settings"}),
           Fits(s, d, l, pc, r, c)
    PROVE  TypeOK' /\ Roles'
  <1>1. /\ ep'[s] = d /\ loop'[s] = l /\ task'[s] = pc
        /\ reader'[s] = r /\ writer'[s] = c
        /\ ep'[Peer(s)] = ep[Peer(s)] /\ loop'[Peer(s)] = loop[Peer(s)]
        /\ task'[Peer(s)] = task[Peer(s)]
        /\ reader'[Peer(s)] = reader[Peer(s)] /\ writer'[Peer(s)] = writer[Peer(s)]
        /\ TypeOK'
    BY MoveFields
  <1>2. ASSUME NEW x \in Sides
        PROVE  /\ writer'[x] = "run" => task'[x] = "relay"
               /\ reader'[x] = "eof" => ep'[x].in = <<>> /\ ep'[x].eof # "no"
               /\ task'[x] = "session" => x = "client" /\ ~ep'[x].reg
               /\ ep'[x].done => ~ep'[x].open
    <2>1. CASE x = s
      BY <1>1, <2>1 DEF Fits
    <2>2. CASE x = Peer(s)
      BY <1>1, <2>2 DEF Roles
    <2>3. QED
      BY <2>1, <2>2, Sidewise
  <1>3. CASE s = "client"
    BY <1>1, <1>2, <1>3, Sidewise DEF Roles, No, Fits
  <1>4. CASE s = "server"
    BY <1>1, <1>2, <1>4, Sidewise DEF Roles, No, Fits
  <1>5. QED
    BY <1>3, <1>4 DEF Sides

(* The order of the SYN over a step.                                       *)
LEMMA SynKept ==
    ASSUME TypeOK, SynFirst(wire["server"]),
           \/ wire'["server"] = wire["server"]
           \/ \E f \in Frames : f.cmd # "syn" /\ wire'["server"] = Append(wire["server"], f)
           \/ wire["server"] # <<>> /\ wire'["server"] = Tail(wire["server"])
    PROVE  SynFirst(wire'["server"]) /\ (SynOnWire' => SynOnWire)
  <1>1. wire["server"] \in Seq(Frames)
    BY Sidewise DEF TypeOK
  <1>2. ASSUME ~SynOnWire PROVE No(wire'["server"], {"syn"})
    <2>1. No(wire["server"], {"syn"})
      BY <1>2 DEF SynOnWire, No
    <2>2. /\ \A f \in Frames : f.cmd \notin {"syn"} => No(Append(wire["server"], f), {"syn"})
          /\ wire["server"] # <<>> => No(Tail(wire["server"]), {"syn"})
      BY <1>1, <2>1, NoneJoins, Zenon
    <2>3. QED
      BY <2>1, <2>2
  <1>3. SynFirst(wire'["server"])
    BY <1>1, SynStays
  <1>4. QED
    BY <1>2, <1>3 DEF SynOnWire, No

(* A direction may expect less, of a peer that is over.                    *)
LEMMA DirWeaken ==
    ASSUME NEW e, NEW l, NEW w, NEW n, NEW o, NEW p, NEW x, NEW y,
           Dir(e, l, w, n, o, x), o => p, y => x
    PROVE  Dir(e, l, w, n, p, y)
  BY DEF Dir, Ending

(* A direction no data move in.                                            *)
LEMMA DirectionIdles ==
    ASSUME StreamInv, TypeOK', NEW x \in Sides,
           Idles(ep[x], loop[x], ep'[x], loop'[x]),
           Plain(wire[x], wire'[x], Expects(x)'),
           ep'[Peer(x)].sent = ep[Peer(x)].sent,
           Over(Peer(x)) => Over(Peer(x))', Expects(x)' => Expects(x)
    PROVE  Direction(x)'
  <1>1. /\ ep[x] \in Sessions /\ ep'[x] \in Sessions /\ loop[x] \in Loops
        /\ loop'[x] \in Loops /\ wire[x] \in Seq(Frames) /\ wire'[x] \in Seq(Frames)
        /\ ep[Peer(x)].sent \in Nat
    BY Sidewise DEF StreamInv, TypeOK, Sessions
  <1>2. Dir(ep[x], loop[x], wire[x], ep[Peer(x)].sent, Over(Peer(x)), Expects(x))
    BY DEF StreamInv, Direction
  <1>3. PICK e \in Sessions, e1 \in Sessions, m \in Loops, m1 \in Loops,
             w \in Seq(Frames), w1 \in Seq(Frames), n \in Nat :
          /\ e = ep[x] /\ e1 = ep'[x] /\ m = loop[x] /\ m1 = loop'[x]
          /\ w = wire[x] /\ w1 = wire'[x] /\ n = ep[Peer(x)].sent
    BY <1>1
  <1>4. PICK o, a, o1, a1 : /\ o = Over(Peer(x)) /\ o1 = Over(Peer(x))'
                            /\ a = Expects(x) /\ a1 = Expects(x)'
    BY Zenon
  <1>5. /\ Dir(e, m, w, n, o, a) /\ Idles(e, m, e1, m1) /\ Plain(w, w1, a1)
        /\ (o => o1) /\ (a1 => a)
    BY <1>2, <1>3, <1>4, Zenon
  <1>6. Dir(e1, m1, w1, n, o1, a1)
    BY <1>5, DirPlain
  <1>7. Dir(ep'[x], loop'[x], wire'[x], ep[Peer(x)].sent, Over(Peer(x))', Expects(x)')
    BY <1>3, <1>4, <1>6, Zenon
  <1>8. QED
    BY <1>7 DEF Direction

(* A step that neither writes nor takes nor reads data keeps all.          *)
LEMMA PlainMove ==
    ASSUME StreamInv, NEW s \in Sides, NEW d \in Sessions, NEW l \in Loops,
           NEW pc \in Tasks, NEW r \in Readers, NEW c \in Writers, Moves(s, d, l, pc, r, c),
           wire' \in [Sides -> Seq(Frames)], ~panic',
           \A x \in Sides : Wired(x),
           Fits(s, d, l, pc, r, c), Onward(s, pc),
           Idles(ep[s], loop[s], d, l), d.sent = ep[s].sent, d.queued => ep[s].queued
    PROVE  StreamInv'
  <1>0. TypeOK /\ Roles /\ \A x \in Sides : wire[x] \in Seq(Frames)
    BY DEF StreamInv, TypeOK
  <1>1. /\ ep'[s] = d /\ loop'[s] = l /\ task'[s] = pc
        /\ ep'[Peer(s)] = ep[Peer(s)] /\ loop'[Peer(s)] = loop[Peer(s)]
        /\ task'[Peer(s)] = task[Peer(s)]
    BY <1>0, MoveFields
  <1>2. No(wire'["client"], {"settings"})
    <2>1. No(wire["client"], {"settings"}) /\ wire["client"] \in Seq(Frames) /\ Wired("client")
      BY <1>0, Sidewise DEF Roles
    <2>2. QED
      <3>1. /\ \A f \in Frames : f.cmd \notin {"settings"} =>
                                No(Append(wire["client"], f), {"settings"})
            /\ wire["client"] # <<>> => No(Tail(wire["client"]), {"settings"})
        BY <2>1, NoneJoins, Zenon
      <3>2. QED
        BY <2>1, <3>1 DEF Wired
  <1>3. TypeOK' /\ Roles'
    BY <1>0, <1>2, RolesMove
  <1>4. SynFirst(wire'["server"]) /\ (SynOnWire' => SynOnWire)
    <2>1. SynFirst(wire["server"]) /\ Wired("server")
      BY Sidewise DEF StreamInv
    <2>2. QED
      BY <1>0, <2>1, SynKept DEF Wired
  <1>5. \A x \in Sides : /\ Idles(ep[x], loop[x], ep'[x], loop'[x])
                         /\ ep'[x].sent = ep[x].sent
                         /\ ep'[x].queued => ep[x].queued
                         /\ Over(x) => Over(x)'
                         /\ Over(x) \in BOOLEAN /\ Over(x)' \in BOOLEAN
    <2>1. Idles(ep[Peer(s)], loop[Peer(s)], ep'[Peer(s)], loop'[Peer(s)])
      BY <1>1 DEF Idles
    <2>2. QED
      BY <1>1, <2>1, Sidewise DEF Over, Onward
  <1>6. Opening'
    <2>1. ASSUME task'["client"] \in {"dial", "settings", "open"}
          PROVE  /\ Untouched(ep'["client"]) /\ loop'["client"].at # "push"
                 /\ No(wire'["server"], {"psh", "fin", "syn"})
      <3>1. task["client"] \in {"dial", "settings", "open"}
        BY <1>1, <2>1, Sidewise DEF Onward, Sides
      <3>2. /\ Untouched(ep["client"]) /\ loop["client"].at # "push"
            /\ No(wire["server"], {"psh", "fin", "syn"})
        BY <3>1 DEF StreamInv, Opening
      <3>3. Untouched(ep'["client"]) /\ loop'["client"].at # "push"
        BY <1>5, <3>2, Sidewise DEF Idles, Untouched
      <3>4. wire["server"] \in Seq(Frames) /\ Wired("server")
        BY <1>0, Sidewise
      <3>5. No(wire'["server"], {"psh", "fin", "syn"})
        <4>1. /\ \A f \in Frames : f.cmd \notin {"psh", "fin", "syn"} =>
                                  No(Append(wire["server"], f), {"psh", "fin", "syn"})
              /\ wire["server"] # <<>> => No(Tail(wire["server"]), {"psh", "fin", "syn"})
          BY <3>2, <3>4, NoneJoins, Zenon
        <4>2. QED
          BY <3>2, <3>4, <4>1 DEF Wired
      <3>6. QED
        BY <3>3, <3>5
    <2>2. ASSUME Before'
          PROVE  /\ Untouched(ep'["server"]) /\ loop'["server"].at # "push"
                 /\ No(wire'["client"], {"psh", "fin"})
                 /\ task'["server"] = "none"
      <3>1. Before
        BY <1>1, <1>4, <2>2, Sidewise DEF Before, Onward, Sides
      <3>2. /\ Untouched(ep["server"]) /\ loop["server"].at # "push"
            /\ No(wire["client"], {"psh", "fin"})
            /\ task["server"] = "none"
        BY <3>1 DEF StreamInv, Opening
      <3>3. Untouched(ep'["server"]) /\ loop'["server"].at # "push"
        BY <1>5, <3>2, Sidewise DEF Idles, Untouched
      <3>4. wire["client"] \in Seq(Frames) /\ Wired("client")
        BY <1>0, Sidewise
      <3>5. No(wire'["client"], {"psh", "fin"})
        <4>1. /\ \A f \in Frames : f.cmd \notin {"psh", "fin"} =>
                                  No(Append(wire["client"], f), {"psh", "fin"})
              /\ wire["client"] # <<>> => No(Tail(wire["client"]), {"psh", "fin"})
          BY <3>2, <3>4, NoneJoins, Zenon
        <4>2. QED
          BY <3>2, <3>4, <4>1 DEF Wired
      <3>6. task'["server"] = "none"
        BY <1>1, <3>2, Sidewise DEF Onward, Untouched, Sides
      <3>7. QED
        BY <3>3, <3>5, <3>6
    <2>3. QED
      BY <2>1, <2>2 DEF Opening
  <1>8. ASSUME NEW x \in Sides PROVE Direction(x)'
    <2>1. /\ ep[x] \in Sessions /\ ep'[x] \in Sessions /\ loop[x] \in Loops
          /\ loop'[x] \in Loops /\ wire[x] \in Seq(Frames) /\ wire'[x] \in Seq(Frames)
          /\ ep[Peer(x)].sent \in Nat /\ ep'[Peer(x)].sent = ep[Peer(x)].sent
      BY <1>0, <1>3, <1>5, Sidewise DEF TypeOK, Sessions
    <2>2. Expects(x) \in BOOLEAN /\ Expects(x)' \in BOOLEAN /\ (Expects(x)' => Expects(x))
      BY <1>4, <1>5, <2>1 DEF Expects, Sessions, Idles, SynOnWire
    <2>3. Plain(wire[x], wire'[x], Expects(x)')
      <3>1. CASE /\ wire[x] # <<>>
                 /\ wire'[x] = Tail(wire[x])
                 /\ ep[x].reg => Head(wire[x]).cmd # "psh"
        <4>1. ASSUME Expects(x)', Head(wire[x]).cmd = "psh" PROVE FALSE
          <5>1. x = "server" /\ SynOnWire
            BY <2>2, <3>1, <4>1 DEF Expects
          <5>2. PICK j \in DOMAIN wire["server"] : wire["server"][j].cmd = "syn"
            BY <5>1 DEF SynOnWire
          <5>3. 1 \in DOMAIN wire["server"] /\ wire["server"][1].cmd = "psh" /\ j >= 1
            BY <2>1, <3>1, <4>1, <5>1, Taken
          <5>4. j < 1
            BY <5>2, <5>3 DEF StreamInv, SynFirst
          <5>5. QED
            BY <2>1, <5>1, <5>3, <5>4
        <4>2. QED
          BY <3>1, <4>1 DEF Plain
      <3>2. QED
        BY <3>1 DEF Plain, Wired
    <2>4. QED
      BY <1>3, <1>5, <2>1, <2>2, <2>3, Sidewise, DirectionIdles
  <1>9. QED
    BY <1>3, <1>4, <1>6, <1>8 DEF StreamInv

(* What a write and a taken frame make of the wires.                       *)
LEMMA WireFields ==
    ASSUME TypeOK, NEW s \in Sides
    PROVE  /\ \A f \in Frames :
                 /\ Sent(s, f) \in [Sides -> Seq(Frames)]
                 /\ Sent(s, f)[Peer(s)] = Append(wire[Peer(s)], f)
                 /\ Sent(s, f)[s] = wire[s]
           /\ wire[s] # <<>> =>
                 /\ Rest(s) \in [Sides -> Seq(Frames)]
                 /\ Rest(s)[s] = Tail(wire[s])
                 /\ Rest(s)[Peer(s)] = wire[Peer(s)]
  <1>1. \A x \in Sides : wire[x] \in Seq(Frames)
    BY DEF TypeOK
  <1>2. ASSUME NEW f \in Frames
        PROVE  /\ Sent(s, f) \in [Sides -> Seq(Frames)]
               /\ Sent(s, f)[Peer(s)] = Append(wire[Peer(s)], f)
               /\ Sent(s, f)[s] = wire[s]
    <2>1. Append(wire[Peer(s)], f) \in Seq(Frames)
      BY <1>1, Sidewise
    <2>2. QED
      BY <2>1, Sidewise DEF Sent, TypeOK
  <1>3. ASSUME wire[s] # <<>>
        PROVE  /\ Rest(s) \in [Sides -> Seq(Frames)]
               /\ Rest(s)[s] = Tail(wire[s])
               /\ Rest(s)[Peer(s)] = wire[Peer(s)]
    <2>1. Tail(wire[s]) \in Seq(Frames)
      BY <1>1, <1>3
    <2>2. QED
      BY <2>1, Sidewise DEF Rest, TypeOK
  <1>4. QED
    BY <1>2, <1>3

(* The frames that are written.                                            *)
LEMMA FrameType ==
    ASSUME NEW c \in Commands, NEW d \in Nat
    PROVE  frame(c, d) \in Frames /\ frame(c, d).cmd = c /\ frame(c, d).data = d
  BY DEF frame, Frames

(* Where the stream is known on both sides, the opening is over.           *)
LEMMA OpeningKept ==
    ASSUME StreamInv, NEW s \in Sides, NEW d \in Sessions, NEW l \in Loops,
           NEW pc \in Tasks, NEW r \in Readers, NEW c \in Writers, Moves(s, d, l, pc, r, c),
           task'["client"] \notin {"dial", "settings", "open"},
           SynOnWire' => s = "client" /\ SynOnWire /\ wire'["client"] = wire["client"]
    PROVE  Opening'
  <1>1. SUFFICES ASSUME SynOnWire'
                 PROVE  /\ Untouched(ep'["server"]) /\ loop'["server"].at # "push"
                        /\ No(wire'["client"], {"psh", "fin"})
                        /\ task'["server"] = "none"
    BY DEF Opening, Before
  <1>2. /\ ep'["server"] = ep["server"] /\ loop'["server"] = loop["server"]
        /\ task'["server"] = task["server"]
    BY <1>1, MoveFields, Sidewise DEF StreamInv
  <1>3. QED
    BY <1>1, <1>2 DEF StreamInv, Opening, Before

(* A side writes a piece.                                                  *)
LEMMA DataMove ==
    ASSUME StreamInv, NEW s \in Sides, NEW d \in Sessions, NEW pc \in Tasks,
           Moves(s, d, loop[s], pc, reader[s], writer[s]),
           Keeps(ep[s], d), d.sent = ep[s].sent + 1, d.seen = ep[s].seen, d.open = ep[s].open,
           wire' = Sent(s, frame("psh", ep[s].sent + 1)),
           task[s] \in {"target", "request", "relay"}, pc \in {"request", "look", "relay"},
           s = "server" => task[s] = "relay",
           task[s] = "relay" <=> pc = "relay", serve' = serve, ~panic'
    PROVE  StreamInv'
  <1>0. /\ TypeOK /\ Roles /\ Peer(s) \in Sides /\ Peer(s) # s /\ Peer(Peer(s)) = s
        /\ \A x \in Sides : x = s \/ x = Peer(s)
    BY Sidewise DEF StreamInv
  <1>1. /\ loop[s] \in Loops /\ reader[s] \in Readers /\ writer[s] \in Writers
        /\ ep[s] \in Sessions /\ ep[Peer(s)] \in Sessions /\ loop[Peer(s)] \in Loops
        /\ wire[Peer(s)] \in Seq(Frames) /\ ep[s].sent \in Nat
    BY <1>0, Stays DEF Sessions
  <1>2. PICK f \in Frames : f = frame("psh", ep[s].sent + 1) /\ f.cmd = "psh"
                            /\ f.data = ep[s].sent + 1
    <2>1. PICK n \in Nat : n = ep[s].sent + 1
      BY <1>1
    <2>2. "psh" \in Commands
      BY DEF Commands
    <2>3. QED
      BY <2>1, <2>2, FrameType
  <1>3. /\ wire' \in [Sides -> Seq(Frames)] /\ wire'[s] = wire[s]
        /\ wire'[Peer(s)] = Append(wire[Peer(s)], f)
    BY <1>0, <1>2, WireFields
  <1>4. /\ ep'[s] = d /\ loop'[s] = loop[s] /\ task'[s] = pc
        /\ ep'[Peer(s)] = ep[Peer(s)] /\ loop'[Peer(s)] = loop[Peer(s)]
        /\ task'[Peer(s)] = task[Peer(s)]
    BY <1>0, <1>1, MoveFields
  <1>5. TypeOK' /\ Roles'
    <2>1. No(wire'["client"], {"settings"})
      <3>1. No(wire["client"], {"settings"})
        BY <1>0 DEF Roles
      <3>2. CASE s = "client"
        BY <1>3, <3>1, <3>2
      <3>3. CASE s = "server"
        <4>1. wire["client"] \in Seq(Frames) /\ wire'["client"] = Append(wire["client"], f)
          BY <1>1, <1>3, <3>3, Sidewise
        <4>2. f.cmd \notin {"settings"}
          BY <1>2
        <4>3. QED
          BY <3>1, <4>1, <4>2, NoneJoins, Zenon
      <3>4. QED
        BY <3>2, <3>3 DEF Sides
    <2>2. Fits(s, d, loop[s], pc, reader[s], writer[s])
      BY <1>0 DEF Fits, Roles, Keeps
    <2>3. QED
      BY <1>0, <1>1, <1>3, <2>1, <2>2, RolesMove
  <1>6. SynFirst(wire'["server"]) /\ (SynOnWire' => SynOnWire)
    <2>1. f.cmd # "syn" /\ SynFirst(wire["server"])
      BY <1>2 DEF StreamInv
    <2>2. QED
      BY <1>0, <1>3, <2>1, Sidewise, SynKept
  <1>7. Opening'
    <2>1. s = "server" => ~Before
      BY DEF StreamInv, Opening
    <2>2. task'["client"] \notin {"dial", "settings", "open"}
      BY <1>4, <2>1, Sidewise DEF Before, Sides
    <2>3. SynOnWire' => s = "client" /\ SynOnWire /\ wire'["client"] = wire["client"]
      BY <1>3, <1>6, <2>1 DEF Before, Sides
    <2>4. QED
      BY <1>1, <2>2, <2>3, OpeningKept
  <1>8. Direction(s)'
    <2>1. Idles(ep[s], loop[s], ep'[s], loop'[s])
      BY <1>4 DEF Idles, Keeps
    <2>2. Plain(wire[s], wire'[s], Expects(s)')
      BY <1>3 DEF Plain
    <2>3. (Over(Peer(s)) => Over(Peer(s))') /\ (Expects(s)' => Expects(s))
      BY <1>4, <1>6 DEF Over, Expects, Keeps
    <2>4. QED
      BY <1>4, <1>5, <2>1, <2>2, <2>3, DirectionIdles
  <1>9. Direction(Peer(s))'
    <2>1. PICK e \in Sessions, m \in Loops, w \in Seq(Frames), n \in Nat :
            e = ep[Peer(s)] /\ m = loop[Peer(s)] /\ w = wire[Peer(s)] /\ n = ep[s].sent
      BY <1>1
    <2>2. Dir(e, m, w, n, Over(s), Expects(Peer(s)))
      BY <1>0, <2>1 DEF StreamInv, Direction
    <2>3. ~Over(s) /\ ~Over(s)'
      BY <1>4 DEF Over
    <2>4. f.cmd = "psh" /\ f.data = n + 1
      BY <1>2, <2>1
    <2>5. PICK o, a, o1, a1 : /\ o = Over(s) /\ o1 = Over(s)'
                              /\ a = Expects(Peer(s)) /\ a1 = Expects(Peer(s))'
      BY Zenon
    <2>6. Expects(Peer(s))' => Expects(Peer(s))
      BY <1>4, <1>6 DEF Expects
    <2>7. Dir(e, m, w, n, o, a) /\ ~o /\ (o => o1) /\ (a1 => a)
      BY <2>2, <2>3, <2>5, <2>6, Zenon
    <2>8. Dir(e, m, Append(w, f), n + 1, o, a)
      BY <2>4, <2>7, DirData
    <2>9. Dir(e, m, Append(w, f), n + 1, o1, a1)
      BY <2>7, <2>8, DirWeaken
    <2>a. Dir(ep'[Peer(s)], loop'[Peer(s)], wire'[Peer(s)], ep'[s].sent, Over(s)',
              Expects(Peer(s))')
      BY <1>3, <1>4, <2>1, <2>5, <2>9, Zenon
    <2>b. QED
      BY <1>0, <2>a DEF Direction
  <1>a. QED
    BY <1>0, <1>5, <1>6, <1>7, <1>8, <1>9 DEF StreamInv

(* The peer's direction, where s leaves it alone.                          *)
LEMMA PeerKept ==
    ASSUME StreamInv, TypeOK', NEW s \in Sides, NEW d \in Sessions, NEW l \in Loops,
           NEW pc \in Tasks, NEW r \in Readers, NEW c \in Writers, Moves(s, d, l, pc, r, c),
           d.sent = ep[s].sent, Over(s) => pc \in {"remove", "session", "closed"},
           wire'[Peer(s)] = wire[Peer(s)]
    PROVE  Direction(Peer(s))'
  <1>1. /\ ep'[s] = d /\ task'[s] = pc
        /\ ep'[Peer(s)] = ep[Peer(s)] /\ loop'[Peer(s)] = loop[Peer(s)]
    BY MoveFields DEF StreamInv
  <1>2. Peer(s) \in Sides /\ Peer(Peer(s)) = s
    BY Sidewise
  <1>3. Idles(ep[Peer(s)], loop[Peer(s)], ep'[Peer(s)], loop'[Peer(s)])
    BY <1>1 DEF Idles
  <1>4. Plain(wire[Peer(s)], wire'[Peer(s)], Expects(Peer(s))')
    BY DEF Plain
  <1>5. (Over(s) => Over(s)') /\ (Expects(Peer(s))' => Expects(Peer(s)))
    BY <1>1 DEF Over, Expects, SynOnWire
  <1>6. QED
    BY <1>1, <1>2, <1>3, <1>4, <1>5, DirectionIdles

(* A reader takes a piece from stream.in.                                  *)
LEMMA ReadMove ==
    ASSUME StreamInv, NEW s \in Sides, NEW pc \in Tasks, NEW r \in Readers,
           ep[s].in # <<>>, Moves(s, Read(ep[s]), loop[s], pc, r, writer[s]),
           wire' = wire, r \in {reader[s], "run", "error"},
           \/ pc = task[s]
           \/ pc \in {"request", "connect"} /\ task[s] \in {"target", "request"},
           serve' = serve, ~panic'
    PROVE  StreamInv'
  <1>0. /\ TypeOK /\ Roles /\ Peer(s) \in Sides
        /\ \A x \in Sides : x = s \/ x = Peer(s)
        /\ wire' \in [Sides -> Seq(Frames)]
    BY Sidewise DEF StreamInv, TypeOK
  <1>1. /\ loop[s] \in Loops /\ writer[s] \in Writers
        /\ ep[s] \in Sessions /\ ep[Peer(s)].sent \in Nat /\ wire[s] \in Seq(Frames)
    BY <1>0, Stays DEF Sessions
  <1>2. PICK d \in Sessions :
          /\ d = Read(ep[s])
          /\ d.in = Tail(ep[s].in) /\ d.got = Append(ep[s].got, Head(ep[s].in))
          /\ d.sent = ep[s].sent /\ d.queued = ep[s].queued /\ d.seen = ep[s].seen
          /\ d.eof = ep[s].eof /\ d.done = ep[s].done /\ d.reg = ep[s].reg
          /\ d.open = ep[s].open
    BY <1>1, ReadFields
  <1>3. Moves(s, d, loop[s], pc, r, writer[s])
    BY <1>2
  <1>4. /\ ep'[s] = d /\ loop'[s] = loop[s] /\ task'[s] = pc
        /\ ep'[Peer(s)] = ep[Peer(s)] /\ task'[Peer(s)] = task[Peer(s)]
    BY <1>0, <1>1, <1>3, MoveFields
  <1>5. TypeOK' /\ Roles'
    <2>1. No(wire'["client"], {"settings"})
      BY <1>0 DEF Roles
    <2>2. r # "eof"
      BY <1>0 DEF Roles
    <2>3. Fits(s, d, loop[s], pc, r, writer[s])
      BY <1>0, <1>2, <2>2 DEF Fits, Roles
    <2>4. QED
      BY <1>0, <1>1, <1>3, <2>1, <2>3, RolesMove
  <1>6. Opening'
    <2>1. /\ s = "server" => ~Before
          /\ s = "client" => task["client"] \notin {"dial", "settings", "open"}
      BY DEF StreamInv, Opening, Untouched
    <2>2. task'["client"] \notin {"dial", "settings", "open"}
      BY <1>4, <2>1, Sidewise DEF Before, Sides
    <2>3. SynOnWire' => s = "client" /\ SynOnWire /\ wire'["client"] = wire["client"]
      BY <2>1 DEF Before, Sides, SynOnWire
    <2>4. QED
      BY <1>1, <1>3, <2>2, <2>3, OpeningKept
  <1>7. Direction(s)'
    <2>1. PICK e \in Sessions, m \in Loops, w \in Seq(Frames), n \in Nat :
            e = ep[s] /\ m = loop[s] /\ w = wire[s] /\ n = ep[Peer(s)].sent
      BY <1>1
    <2>2. Dir(e, m, w, n, Over(Peer(s)), Expects(s))
      BY <2>1 DEF StreamInv, Direction
    <2>3. /\ d.in = Tail(e.in) /\ d.got = Append(e.got, Head(e.in)) /\ d.eof = e.eof
          /\ d.reg = e.reg /\ d.done = e.done /\ e.in # <<>>
      BY <1>2, <2>1
    <2>4. PICK o, a, o1, a1 : /\ o = Over(Peer(s)) /\ o1 = Over(Peer(s))'
                              /\ a = Expects(s) /\ a1 = Expects(s)'
      BY Zenon
    <2>5. (Over(Peer(s)) => Over(Peer(s))') /\ (Expects(s)' => Expects(s))
      BY <1>2, <1>4 DEF Over, Expects, SynOnWire
    <2>6. Dir(e, m, w, n, o, a) /\ (o => o1) /\ (a1 => a)
      BY <2>2, <2>4, <2>5, Zenon
    <2>7. Dir(d, m, w, n, o, a)
      BY <2>3, <2>6, DirRead
    <2>8. Dir(d, m, w, n, o1, a1)
      BY <2>6, <2>7, DirWeaken
    <2>9. Dir(ep'[s], loop'[s], wire'[s], ep'[Peer(s)].sent, Over(Peer(s))', Expects(s)')
      BY <1>4, <2>1, <2>4, <2>8, Zenon
    <2>a. QED
      BY <2>9 DEF Direction
  <1>8. Direction(Peer(s))'
    BY <1>1, <1>2, <1>3, <1>5, PeerKept DEF Over
  <1>9. SynFirst(wire'["server"])
    BY DEF StreamInv
  <1>a. QED
    BY <1>0, <1>5, <1>6, <1>7, <1>8, <1>9 DEF StreamInv

(* stream.Close writes its FIN, or fails to.                               *)
LEMMA FinMove ==
    ASSUME StreamInv, NEW s \in Sides, StreamFin(s)
    PROVE  StreamInv'
  <1>0. /\ TypeOK /\ Roles /\ Peer(s) \in Sides /\ Peer(s) # s /\ Peer(Peer(s)) = s
        /\ \A x \in Sides : x = s \/ x = Peer(s)
    BY Sidewise DEF StreamInv
  <1>1. /\ loop[s] \in Loops /\ reader[s] \in Readers /\ writer[s] \in Writers
        /\ ep[s] \in Sessions /\ ep[Peer(s)] \in Sessions /\ loop[Peer(s)] \in Loops
        /\ wire[Peer(s)] \in Seq(Frames) /\ ep[s].sent \in Nat
    BY <1>0, Stays DEF Sessions
  <1>2. PICK d \in Sessions :
          /\ d = [ep[s] EXCEPT !.closed = TRUE] /\ Keeps(ep[s], d)
          /\ d.seen = ep[s].seen /\ d.sent = ep[s].sent /\ d.open = ep[s].open
    BY <1>1, ClosedAssigned DEF Keeps
  <1>3. "remove" \in Tasks /\ Moves(s, d, loop[s], "remove", reader[s], writer[s])
    BY <1>0, <1>2, Stays DEF StreamFin, Moves, Go, AfterFin, Tasks
  <1>4. PICK f \in Frames : f = frame("fin", 0) /\ f.cmd = "fin"
    <2>1. "fin" \in Commands /\ 0 \in Nat
      BY DEF Commands
    <2>2. QED
      BY <2>1, FrameType
  <1>5. /\ wire' \in [Sides -> Seq(Frames)] /\ wire'[s] = wire[s]
        /\ wire'[Peer(s)] \in {wire[Peer(s)], Append(wire[Peer(s)], f)}
    <2>1. wire' = wire \/ wire' = Sent(s, f)
      BY <1>4 DEF StreamFin, WriteIgnored
    <2>2. CASE wire' = wire
      BY <1>0, <2>2 DEF TypeOK
    <2>3. CASE wire' = Sent(s, f)
      BY <1>0, <2>3, WireFields
    <2>4. QED
      BY <2>1, <2>2, <2>3
  <1>6. /\ ep'[s] = d /\ loop'[s] = loop[s] /\ task'[s] = "remove"
        /\ ep'[Peer(s)] = ep[Peer(s)] /\ loop'[Peer(s)] = loop[Peer(s)]
        /\ task'[Peer(s)] = task[Peer(s)]
    BY <1>0, <1>1, <1>3, MoveFields
  <1>7. TypeOK' /\ Roles'
    <2>1. No(wire'["client"], {"settings"})
      <3>1. No(wire["client"], {"settings"}) /\ wire["client"] \in Seq(Frames)
        BY <1>0, Sidewise DEF Roles, TypeOK
      <3>2. CASE wire'["client"] = wire["client"]
        BY <3>1, <3>2
      <3>3. CASE wire'["client"] = Append(wire["client"], f)
        <4>1. f.cmd \notin {"settings"}
          BY <1>4
        <4>2. QED
          BY <3>1, <3>3, <4>1, NoneJoins, Zenon
      <3>4. QED
        BY <1>0, <1>5, <3>2, <3>3, Sidewise
    <2>2. Fits(s, d, loop[s], "remove", reader[s], writer[s])
      BY <1>0, <1>2 DEF Fits, Roles, Keeps, StreamFin
    <2>3. QED
      BY <1>0, <1>1, <1>3, <1>5, <2>1, <2>2, RolesMove
  <1>8. SynFirst(wire'["server"]) /\ (SynOnWire' => SynOnWire)
    <2>1. f.cmd # "syn" /\ SynFirst(wire["server"])
      BY <1>4 DEF StreamInv
    <2>2. QED
      BY <1>0, <1>5, <2>1, Sidewise, SynKept
  <1>9. Opening'
    <2>1. s = "server" => ~Before
      BY DEF StreamInv, Opening, StreamFin
    <2>2. task'["client"] \notin {"dial", "settings", "open"}
      BY <1>6, <2>1, Sidewise DEF Before, Sides
    <2>3. SynOnWire' => s = "client" /\ SynOnWire /\ wire'["client"] = wire["client"]
      BY <1>5, <1>8, <2>1 DEF Before, Sides
    <2>4. QED
      BY <1>1, <1>3, <2>2, <2>3, OpeningKept
  <1>a. Direction(s)'
    <2>1. Idles(ep[s], loop[s], ep'[s], loop'[s])
      BY <1>2, <1>6 DEF Idles, Keeps
    <2>2. Plain(wire[s], wire'[s], Expects(s)')
      BY <1>5 DEF Plain
    <2>3. (Over(Peer(s)) => Over(Peer(s))') /\ (Expects(s)' => Expects(s))
      BY <1>2, <1>6, <1>8 DEF Over, Expects, Keeps
    <2>4. QED
      BY <1>6, <1>7, <2>1, <2>2, <2>3, DirectionIdles
  <1>b. Direction(Peer(s))'
    <2>1. PICK e \in Sessions, m \in Loops, w \in Seq(Frames), n \in Nat :
            e = ep[Peer(s)] /\ m = loop[Peer(s)] /\ w = wire[Peer(s)] /\ n = ep[s].sent
      BY <1>1
    <2>2. PICK o, a, o1, a1 : /\ o = Over(s) /\ o1 = Over(s)'
                              /\ a = Expects(Peer(s)) /\ a1 = Expects(Peer(s))'
      BY Zenon
    <2>3. Over(s)' /\ (Expects(Peer(s))' => Expects(Peer(s)))
      BY <1>6, <1>8 DEF Over, Expects
    <2>4. Dir(e, m, w, n, Over(s), Expects(Peer(s)))
      BY <1>0, <2>1 DEF StreamInv, Direction
    <2>5. Dir(e, m, w, n, o, a) /\ o1 /\ (a1 => a)
      BY <2>2, <2>3, <2>4, Zenon
    <2>6. Dir(e, m, w, n, o1, a1)
      BY <2>5, DirWeaken
    <2>7. Dir(e, m, Append(w, f), n, o1, a1)
      <3>1. Dir(e, m, Append(w, f), n, TRUE, a)
        BY <1>4, <2>5, DirFin
      <3>2. QED
        BY <2>5, <3>1, DirWeaken
    <2>8. Dir(ep'[Peer(s)], loop'[Peer(s)], wire'[Peer(s)], ep'[s].sent, Over(s)',
              Expects(Peer(s))')
      <3>1. ep'[s].sent = n
        BY <1>2, <1>6, <2>1
      <3>2. CASE wire'[Peer(s)] = w
        BY <1>6, <2>1, <2>2, <2>6, <3>1, <3>2, Zenon
      <3>3. CASE wire'[Peer(s)] = Append(w, f)
        BY <1>6, <2>1, <2>2, <2>7, <3>1, <3>3, Zenon
      <3>4. QED
        BY <1>5, <2>1, <3>2, <3>3
    <2>9. QED
      BY <1>0, <2>8 DEF Direction
  <1>c. ~panic'
    BY DEF StreamInv, StreamFin
  <1>d. QED
    BY <1>0, <1>7, <1>8, <1>9, <1>a, <1>b, <1>c DEF StreamInv

(* A step of readLoop that concerns the stream.                            *)
LEMMA LoopMove ==
    ASSUME StreamInv, NEW s \in Sides, NEW d \in Sessions, NEW l \in Loops,
           Moves(s, d, l, task[s], reader[s], writer[s]),
           \/ wire' = wire
           \/ wire[s] # <<>> /\ wire' = Rest(s),
           d.sent = ep[s].sent, d.seen = ep[s].seen, d.done = ep[s].done, d.open = ep[s].open,
           l.at # "none", serve' = serve, serve = "auth" => s = "client", ~panic',
           task[s] = "session" => ~d.reg,
           reader[s] = "eof" => d.in = <<>> /\ d.eof # "no",
           s = "server" /\ d.queued => task[s] = "none",
           task["client"] \notin {"dial", "settings", "open"},
           SynOnWire' => s = "client" /\ wire'["client"] = wire["client"],
           Dir(d, l, wire'[s], ep[Peer(s)].sent, Over(Peer(s)), Expects(s)')
    PROVE  StreamInv'
  <1>0. /\ TypeOK /\ Roles /\ Peer(s) \in Sides /\ Peer(s) # s /\ Peer(Peer(s)) = s
        /\ \A x \in Sides : x = s \/ x = Peer(s)
        /\ SynFirst(wire["server"])
    BY Sidewise DEF StreamInv
  <1>1. /\ task[s] \in Tasks /\ reader[s] \in Readers /\ writer[s] \in Writers
        /\ wire[s] \in Seq(Frames)
    BY <1>0, Stays
  <1>2. /\ wire' \in [Sides -> Seq(Frames)] /\ wire'[Peer(s)] = wire[Peer(s)]
        /\ wire'[s] = wire[s] \/ (wire[s] # <<>> /\ wire'[s] = Tail(wire[s]))
    <2>1. CASE wire' = wire
      BY <1>0, <2>1 DEF TypeOK
    <2>2. CASE wire[s] # <<>> /\ wire' = Rest(s)
      BY <1>0, <2>2, WireFields
    <2>3. QED
      BY <2>1, <2>2
  <1>3. /\ ep'[s] = d /\ loop'[s] = l /\ task'[s] = task[s]
        /\ ep'[Peer(s)] = ep[Peer(s)] /\ task'[Peer(s)] = task[Peer(s)]
    BY <1>0, <1>1, MoveFields
  <1>4. TypeOK' /\ Roles'
    <2>1. No(wire'["client"], {"settings"})
      <3>1. No(wire["client"], {"settings"}) /\ wire["client"] \in Seq(Frames)
        BY <1>0, Sidewise DEF Roles, TypeOK
      <3>2. wire["client"] # <<>> => No(Tail(wire["client"]), {"settings"})
        BY <3>1, NoneJoins, Zenon
      <3>3. wire'["client"] = wire["client"]
            \/ (wire["client"] # <<>> /\ wire'["client"] = Tail(wire["client"]))
        BY <1>0, <1>2, Sidewise
      <3>4. QED
        BY <3>1, <3>2, <3>3
    <2>2. Fits(s, d, l, task[s], reader[s], writer[s])
      BY <1>0 DEF Fits, Roles
    <2>3. QED
      BY <1>0, <1>1, <1>2, <2>1, <2>2, RolesMove
  <1>5. SynFirst(wire'["server"]) /\ (SynOnWire' => SynOnWire)
    BY <1>0, <1>2, Sidewise, SynKept
  <1>6. Opening'
    <2>1. task'["client"] \notin {"dial", "settings", "open"}
      BY <1>3, Sidewise DEF Sides
    <2>2. QED
      BY <1>1, <1>5, <2>1, OpeningKept
  <1>7. Direction(s)'
    <2>1. PICK o, o1 : o = Over(Peer(s)) /\ o1 = Over(Peer(s))'
      BY Zenon
    <2>2. PICK a : a = Expects(s)'
      BY Zenon
    <2>3. Over(Peer(s)) => Over(Peer(s))'
      BY <1>3 DEF Over
    <2>4. (o => o1) /\ Dir(d, l, wire'[s], ep[Peer(s)].sent, o, a)
      BY <2>1, <2>2, <2>3, Zenon
    <2>5. Dir(d, l, wire'[s], ep[Peer(s)].sent, o1, a)
      BY <2>4, DirWeaken
    <2>6. Dir(ep'[s], loop'[s], wire'[s], ep'[Peer(s)].sent, Over(Peer(s))', Expects(s)')
      BY <1>3, <2>1, <2>2, <2>5, Zenon
    <2>7. QED
      BY <2>6 DEF Direction
  <1>8. Direction(Peer(s))'
    BY <1>1, <1>2, <1>4, PeerKept DEF Over
  <1>9. QED
    BY <1>0, <1>4, <1>5, <1>6, <1>7, <1>8 DEF StreamInv

(* What readLoop knows when it has taken a frame.                          *)
LEMMA TookFacts ==
    ASSUME StreamInv, NEW s \in Sides, NEW command, Took(s, command)
    PROVE  /\ loop[s].at = "read" /\ wire[s] # <<>> /\ wire[s] \in Seq(Frames)
           /\ Head(wire[s]).cmd = command /\ Head(wire[s]) \in Frames
           /\ ep[s].open /\ ~ep[s].done
           /\ serve = "auth" => s = "client"
           /\ command \in {"psh", "fin"} /\ ep[s].reg => ~Before
           /\ ep[s].reg => task["client"] \notin {"dial", "settings", "open"}
  <1>0. TypeOK /\ Roles /\ Opening
    BY DEF StreamInv
  <1>1. /\ loop[s].at = "read" /\ wire[s] # <<>> /\ wire[s] \in Seq(Frames)
        /\ Head(wire[s]).cmd = command /\ ep[s].open
    BY <1>0 DEF Took, TypeOK
  <1>2. Head(wire[s]) \in Frames
    BY <1>1
  <1>3. ~ep[s].done /\ (serve = "auth" => s = "client")
    BY <1>0, <1>1 DEF Roles, Sides
  <1>4. ASSUME command \in {"psh", "fin"}, ep[s].reg, Before PROVE FALSE
    <2>1. Untouched(ep["server"]) /\ No(wire["client"], {"psh", "fin"})
      BY <1>0, <1>4 DEF Opening
    <2>2. s = "client"
      BY <1>4, <2>1 DEF Untouched, Sides
    <2>3. Head(wire["client"]).cmd \notin {"psh", "fin"}
      BY <1>1, <2>1, <2>2, NoneJoins
    <2>4. QED
      BY <1>1, <1>4, <2>2, <2>3
  <1>5. ASSUME ep[s].reg PROVE task["client"] \notin {"dial", "settings", "open"}
    BY <1>0, <1>5 DEF Opening, Before, Untouched, Sides
  <1>6. QED
    BY <1>1, <1>2, <1>3, <1>4, <1>5

(* readLoop takes a piece for a known stream.                              *)
LEMMA PshStep ==
    ASSUME StreamInv, NEW s \in Sides, HandlePsh(s), ep[s].reg
    PROVE  StreamInv'
  <1>0. /\ TypeOK /\ Roles /\ Peer(s) \in Sides
        /\ ep[s] \in Sessions /\ loop[s] \in Loops /\ ep[Peer(s)].sent \in Nat
    BY Sidewise, Stays DEF StreamInv, Sessions
  <1>1. Took(s, "psh") /\ wire' = Rest(s)
    BY DEF HandlePsh
  <1>2. /\ loop[s].at = "read" /\ wire[s] # <<>> /\ wire[s] \in Seq(Frames)
        /\ Head(wire[s]).cmd = "psh" /\ Head(wire[s]) \in Frames
        /\ serve = "auth" => s = "client"
        /\ ~Before /\ task["client"] \notin {"dial", "settings", "open"}
    BY <1>1, TookFacts
  <1>3. PICK l \in Loops : /\ l = [at |-> "push", data |-> Head(wire[s]).data]
                          /\ l.at = "push" /\ l.data = Head(wire[s]).data
    <2>1. Head(wire[s]).data \in Nat
      BY <1>2 DEF Frames
    <2>2. [at |-> "push", data |-> Head(wire[s]).data] \in Loops
      BY <2>1 DEF Loops, Places
    <2>3. QED
      BY <2>2
  <1>4. Moves(s, ep[s], l, task[s], reader[s], writer[s])
    BY <1>0, <1>3, Stays DEF HandlePsh, Moves
  <1>5. wire'[s] = Tail(wire[s]) /\ wire'[Peer(s)] = wire[Peer(s)]
    BY <1>0, <1>1, <1>2, WireFields
  <1>6. ~SynOnWire'
    BY <1>0, <1>2, <1>5, Sidewise, SynKept DEF StreamInv, Before
  <1>7. Dir(ep[s], l, wire'[s], ep[Peer(s)].sent, Over(Peer(s)), Expects(s)')
    <2>1. PICK e \in Sessions, m \in Loops, w \in Seq(Frames), n \in Nat :
            e = ep[s] /\ m = loop[s] /\ w = wire[s] /\ n = ep[Peer(s)].sent
      BY <1>0, <1>2
    <2>2. PICK o, a, a1 : o = Over(Peer(s)) /\ a = Expects(s) /\ a1 = Expects(s)'
      BY Zenon
    <2>3. Expects(s) /\ Expects(s)'
      BY DEF HandlePsh, Expects
    <2>4. Dir(e, m, w, n, Over(Peer(s)), Expects(s))
      BY <2>1 DEF StreamInv, Direction
    <2>5. Dir(e, m, w, n, o, a) /\ a
      BY <2>2, <2>3, <2>4, Zenon
    <2>a. a1 => a
      BY <2>2, <2>3, Zenon
    <2>6. Dir(e, l, Tail(w), n, o, a)
      BY <1>2, <1>3, <2>1, <2>5, DirPsh
    <2>7. Dir(e, l, Tail(w), n, o, a1)
      BY <2>6, <2>a, DirWeaken
    <2>8. QED
      BY <1>5, <2>1, <2>2, <2>7, Zenon
  <1>8. ~panic' /\ serve' = serve
    BY DEF HandlePsh, StreamInv
  <1>9. /\ task[s] = "session" => ~ep[s].reg
        /\ reader[s] = "eof" => ep[s].in = <<>> /\ ep[s].eof # "no"
        /\ s = "server" /\ ep[s].queued => task[s] = "none"
    BY <1>0 DEF Roles
  <1>a. QED
    BY <1>0, <1>1, <1>2, <1>3, <1>4, <1>6, <1>7, <1>8, <1>9, LoopMove

(* readLoop takes the FIN of a known stream.                               *)
LEMMA FinStep ==
    ASSUME StreamInv, NEW s \in Sides, HandleFin(s), ep[s].reg
    PROVE  StreamInv'
  <1>0. /\ TypeOK /\ Roles /\ Peer(s) \in Sides
        /\ ep[s] \in Sessions /\ loop[s] \in Loops /\ ep[Peer(s)].sent \in Nat
        /\ task[s] \in Tasks /\ reader[s] \in Readers /\ writer[s] \in Writers
    BY Sidewise, Stays DEF StreamInv, Sessions
  <1>1. Took(s, "fin") /\ wire' = Rest(s)
    BY DEF HandleFin
  <1>2. /\ loop[s].at = "read" /\ wire[s] # <<>> /\ wire[s] \in Seq(Frames)
        /\ Head(wire[s]).cmd = "fin"
        /\ serve = "auth" => s = "client"
        /\ ~Before /\ task["client"] \notin {"dial", "settings", "open"}
    BY <1>1, TookFacts
  <1>3. PICK d \in Sessions :
          /\ d = removeStream(closeRead(ep[s], "fin"))
          /\ d.in = ep[s].in /\ d.got = ep[s].got /\ d.sent = ep[s].sent
          /\ d.queued = ep[s].queued /\ d.seen = ep[s].seen
          /\ d.eof = IF ep[s].eof = "no" THEN "fin" ELSE ep[s].eof
          /\ d.done = ep[s].done /\ d.open = ep[s].open /\ ~d.reg
    BY <1>0, FinFields
  <1>4. Moves(s, d, loop[s], task[s], reader[s], writer[s])
    BY <1>0, <1>3, Stays DEF HandleFin, Moves
  <1>5. wire'[s] = Tail(wire[s]) /\ wire'[Peer(s)] = wire[Peer(s)] /\ ep'[s] = d
    BY <1>0, <1>1, <1>2, <1>4, WireFields, MoveFields
  <1>6. ~SynOnWire'
    BY <1>0, <1>2, <1>5, Sidewise, SynKept DEF StreamInv, Before
  <1>7. Dir(d, loop[s], wire'[s], ep[Peer(s)].sent, Over(Peer(s)), Expects(s)')
    <2>1. PICK e \in Sessions, m \in Loops, w \in Seq(Frames), n \in Nat :
            e = ep[s] /\ m = loop[s] /\ w = wire[s] /\ n = ep[Peer(s)].sent
      BY <1>0, <1>2
    <2>2. PICK o, a, a1 : o = Over(Peer(s)) /\ a = Expects(s) /\ a1 = Expects(s)'
      BY Zenon
    <2>3. Expects(s) /\ ~Expects(s)'
      BY <1>3, <1>5, <1>6 DEF Expects
    <2>4. Dir(e, m, w, n, Over(Peer(s)), Expects(s))
      BY <2>1 DEF StreamInv, Direction
    <2>5. Dir(e, m, w, n, o, a) /\ a /\ ~a1
      BY <2>2, <2>3, <2>4, Zenon
    <2>6. d.in = e.in /\ d.got = e.got /\ d.eof = "fin" /\ ~d.reg
      BY <1>3, <2>1, <2>5 DEF Dir, Gate
    <2>7. Dir(d, m, Tail(w), n, o, a1)
      BY <1>2, <2>1, <2>5, <2>6, DirFinTaken
    <2>8. QED
      BY <1>5, <2>1, <2>2, <2>7, Zenon
  <1>8. ~panic' /\ serve' = serve
    BY DEF HandleFin, StreamInv
  <1>9. /\ task[s] = "session" => ~d.reg
        /\ reader[s] = "eof" => d.in = <<>> /\ d.eof # "no"
        /\ s = "server" /\ d.queued => task[s] = "none"
    BY <1>0, <1>3 DEF Roles
  <1>a. QED
    BY <1>0, <1>1, <1>2, <1>3, <1>4, <1>6, <1>7, <1>8, <1>9, LoopMove

(* push puts the piece into stream.in, or gives it up with the session; it *)
(* finds stream.in open.                                                   *)
LEMMA PushStep ==
    ASSUME StreamInv, NEW s \in Sides, Push(s)
    PROVE  StreamInv'
  <1>0. /\ TypeOK /\ Roles /\ Opening /\ Peer(s) \in Sides
        /\ ep[s] \in Sessions /\ loop[s] \in Loops /\ ep[Peer(s)].sent \in Nat
        /\ task[s] \in Tasks /\ reader[s] \in Readers /\ writer[s] \in Writers
        /\ wire[s] \in Seq(Frames)
    BY Sidewise, Stays DEF StreamInv, Sessions
  <1>1. loop[s].at = "push" /\ ep[s].eof = "no" /\ (ep[s].done => ~ep[s].reg)
    BY DEF Push, StreamInv, Direction, Dir, Gate
  <1>2. /\ s = "server" => ~Before
        /\ task["client"] \notin {"dial", "settings", "open"}
    BY <1>0, <1>1 DEF Opening, Before, Sides
  <1>3. ~panic' /\ wire' = wire /\ serve' = serve
    <2>1. panic' = panic \/ panic' = (panic \/ ep[s].eof # "no")
      BY DEF Push
    <2>2. ~panic /\ ~(ep[s].eof # "no")
      BY <1>1 DEF StreamInv
    <2>3. ~panic'
      BY <2>1, <2>2, Zenon
    <2>4. QED
      BY <2>3 DEF Push
  <1>4. SynOnWire' => s = "client" /\ wire'["client"] = wire["client"]
    BY <1>2, <1>3 DEF SynOnWire, Before, Sides
  <1>5. PICK l \in Loops : l = [loop[s] EXCEPT !.at = "read"] /\ l.at = "read"
    BY <1>0, LoopAssigned DEF Places
  <1>6. serve = "auth" => s = "client"
    BY <1>0, <1>1 DEF Roles, Sides
  <1>a. reader[s] # "eof" /\ (s = "server" /\ ep[s].queued => task[s] = "none")
        /\ (task[s] = "session" => ~ep[s].reg)
    BY <1>0, <1>1 DEF Roles
  <1>b. PICK e \in Sessions, m \in Loops, w \in Seq(Frames), n \in Nat :
          e = ep[s] /\ m = loop[s] /\ w = wire[s] /\ n = ep[Peer(s)].sent
    BY <1>0
  <1>c. PICK o, a, a1 : o = Over(Peer(s)) /\ a = Expects(s) /\ a1 = Expects(s)'
    BY Zenon
  <1>d. Dir(e, m, w, n, o, a)
    <2>1. Dir(e, m, w, n, Over(Peer(s)), Expects(s))
      BY <1>b DEF StreamInv, Direction
    <2>2. QED
      BY <1>c, <2>1, Zenon
  <1>7. CASE ep' = [ep EXCEPT ![s].in = Append(@, loop[s].data)]
    <2>0. loop[s].data \in Nat
      BY <1>0 DEF Loops
    <2>1. PICK d \in Sessions :
            /\ d = [ep[s] EXCEPT !.in = Append(@, loop[s].data)]
            /\ d.in = Append(ep[s].in, loop[s].data) /\ d.got = ep[s].got
            /\ d.sent = ep[s].sent /\ d.queued = ep[s].queued /\ d.seen = ep[s].seen
            /\ d.eof = ep[s].eof /\ d.done = ep[s].done /\ d.reg = ep[s].reg
            /\ d.open = ep[s].open
      <3>1. LET d == [ep[s] EXCEPT !.in = Append(@, loop[s].data)]
            IN  /\ d \in Sessions
                /\ d.in = Append(ep[s].in, loop[s].data) /\ d.got = ep[s].got
                /\ d.sent = ep[s].sent /\ d.queued = ep[s].queued /\ d.seen = ep[s].seen
                /\ d.eof = ep[s].eof /\ d.done = ep[s].done /\ d.reg = ep[s].reg
                /\ d.open = ep[s].open
        BY <1>0, <2>0, PushFields
      <3>2. QED
        BY <3>1, Zenon
    <2>2. Moves(s, d, l, task[s], reader[s], writer[s])
      BY <1>0, <1>5, <1>7, <2>1, Stays DEF Push, Moves, LoopTo
    <2>3. ep'[s] = d
      BY <1>0, <2>2, MoveFields
    <2>4. Expects(s)' => Expects(s)
      BY <1>3, <2>1, <2>3 DEF Expects, SynOnWire
    <2>5. Dir(d, l, w, n, o, a)
      <3>1. /\ d.in = Append(e.in, m.data) /\ d.got = e.got /\ d.eof = e.eof
            /\ d.reg = e.reg /\ d.done = e.done /\ m.at = "push" /\ l.at # "push"
        BY <1>1, <1>5, <1>b, <2>1
      <3>2. QED
        BY <1>d, <3>1, DirPush
    <2>6. a1 => a
      BY <1>c, <2>4, Zenon
    <2>7. Dir(d, l, w, n, o, a1)
      BY <2>5, <2>6, DirWeaken
    <2>8. Dir(d, l, wire'[s], ep[Peer(s)].sent, Over(Peer(s)), Expects(s)')
      BY <1>3, <1>b, <1>c, <2>7, Zenon
    <2>9. QED
      BY <1>0, <1>2, <1>3, <1>4, <1>5, <1>6, <1>a, <2>1, <2>2, <2>8, LoopMove
  <1>8. CASE ep' = ep /\ ep[s].done
    <2>1. Moves(s, ep[s], l, task[s], reader[s], writer[s])
      BY <1>0, <1>5, <1>8, Stays DEF Push, Moves, LoopTo
    <2>2. ~Expects(s) /\ ~Expects(s)'
      BY <1>1, <1>2, <1>3, <1>8 DEF Expects, SynOnWire, Before
    <2>3. Dir(e, l, w, n, o, a)
      <3>1. m.at = "push" /\ l.at # "push" /\ ~a
        <4>1. m.at = "push" /\ l.at # "push"
          BY <1>1, <1>5, <1>b
        <4>2. ~a
          BY <1>c, <2>2, Zenon
        <4>3. QED
          BY <4>1, <4>2
      <3>2. QED
        BY <1>d, <3>1, DirDrop
    <2>4. a1 => a
      BY <1>c, <2>2, Zenon
    <2>5. Dir(e, l, w, n, o, a1)
      BY <2>3, <2>4, DirWeaken
    <2>6. Dir(ep[s], l, wire'[s], ep[Peer(s)].sent, Over(Peer(s)), Expects(s)')
      BY <1>3, <1>b, <1>c, <2>5, Zenon
    <2>7. QED
      BY <1>0, <1>2, <1>3, <1>4, <1>5, <1>6, <1>a, <2>1, <2>6, LoopMove
  <1>9. QED
    BY <1>7, <1>8 DEF Push

(* The listener learns of the stream.                                      *)
LEMMA SynStep ==
    ASSUME StreamInv, NEW s \in Sides, HandleSyn(s), ep[s].seen
    PROVE  StreamInv'
  <1>0. /\ TypeOK /\ Roles /\ Opening /\ Peer(s) \in Sides /\ SynFirst(wire["server"])
        /\ ep[s] \in Sessions /\ loop[s] \in Loops /\ ep[Peer(s)].sent \in Nat
        /\ task[s] \in Tasks /\ reader[s] \in Readers /\ writer[s] \in Writers
    BY Sidewise, Stays DEF StreamInv, Sessions
  <1>1. s = "server" /\ Took(s, "syn") /\ wire' = Rest(s)
    BY <1>0 DEF HandleSyn, Roles, Sides
  <1>2. /\ loop[s].at = "read" /\ wire[s] # <<>> /\ wire[s] \in Seq(Frames)
        /\ Head(wire[s]).cmd = "syn" /\ ~ep[s].done
        /\ serve = "auth" => s = "client"
    BY <1>1, TookFacts
  <1>a. 1 \in DOMAIN wire["server"] /\ wire["server"][1].cmd = "syn"
    BY <1>1, <1>2
  <1>3. SynOnWire /\ Before
    BY <1>a DEF SynOnWire, Before
  <1>4. Untouched(ep[s]) /\ task[s] = "none" /\ task["client"] \notin {"dial", "settings", "open"}
    BY <1>0, <1>1, <1>3, <1>a DEF Opening, No
  <1>5. PICK d \in Sessions :
          /\ d = [ep[s] EXCEPT !.reg = TRUE, !.queued = TRUE]
          /\ d.in = ep[s].in /\ d.got = ep[s].got /\ d.sent = ep[s].sent
          /\ d.seen = ep[s].seen /\ d.eof = ep[s].eof
          /\ d.done = ep[s].done /\ d.reg /\ d.open = ep[s].open
    BY <1>0, SynFields
  <1>6. Moves(s, d, loop[s], task[s], reader[s], writer[s])
    BY <1>0, <1>5, Stays DEF HandleSyn, Moves
  <1>7. wire'[s] = Tail(wire[s])
    BY <1>0, <1>1, <1>2, WireFields
  <1>8. ~SynOnWire'
    <2>1. ASSUME NEW i \in DOMAIN wire'["server"], wire'["server"][i].cmd = "syn"
          PROVE  FALSE
      <3>1. i \in Nat /\ i + 1 \in DOMAIN wire["server"]
            /\ wire["server"][i + 1].cmd = "syn" /\ i # 0
        <4>1. /\ wire'["server"] = Tail(wire["server"])
              /\ wire["server"] \in Seq(Frames) /\ wire["server"] # <<>>
          BY <1>1, <1>2, <1>7
        <4>2. QED
          BY <2>1, <4>1
      <3>2. 1 = i + 1
        BY <1>0, <1>a, <3>1 DEF SynFirst
      <3>3. QED
        BY <3>1, <3>2
    <2>2. QED
      BY <2>1 DEF SynOnWire
  <1>9. Dir(d, loop[s], wire'[s], ep[Peer(s)].sent, Over(Peer(s)), Expects(s)')
    <2>1. PICK e \in Sessions, m \in Loops, w \in Seq(Frames), n \in Nat :
            e = ep[s] /\ m = loop[s] /\ w = wire[s] /\ n = ep[Peer(s)].sent
      BY <1>0, <1>2
    <2>2. PICK o, a, a1 : o = Over(Peer(s)) /\ a = Expects(s) /\ a1 = Expects(s)'
      BY Zenon
    <2>3. Expects(s)
      BY <1>1, <1>3 DEF Expects
    <2>4. Dir(e, m, w, n, Over(Peer(s)), Expects(s))
      BY <2>1 DEF StreamInv, Direction
    <2>5. Dir(e, m, w, n, o, a) /\ a
      BY <2>2, <2>3, <2>4, Zenon
    <2>6. d.in = e.in /\ d.got = e.got /\ d.eof = e.eof /\ e.eof = "no" /\ ~d.done
      BY <1>2, <1>4, <1>5, <2>1 DEF Untouched
    <2>7. Dir(d, m, Tail(w), n, o, a1)
      BY <1>2, <2>1, <2>5, <2>6, DirSyn
    <2>8. QED
      BY <1>7, <2>1, <2>2, <2>7, Zenon
  <1>b. ~panic' /\ serve' = serve
    BY DEF HandleSyn, StreamInv
  <1>c. /\ task[s] = "session" => ~d.reg
        /\ reader[s] = "eof" => d.in = <<>> /\ d.eof # "no"
    BY <1>0, <1>4, <1>5 DEF Roles
  <1>d. QED
    BY <1>0, <1>1, <1>2, <1>4, <1>5, <1>6, <1>8, <1>9, <1>b, <1>c, LoopMove

(* The session is made: the wire to the listener holds its first frames.   *)
LEMMA SessionStep ==
    ASSUME StreamInv, NewClientSession,
           NEW pc \in {"settings", "open"}, Go("client", pc)
    PROVE  StreamInv'
  <1>0. /\ TypeOK /\ Roles /\ Opening
        /\ "client" \in Sides /\ "server" \in Sides
        /\ Peer("client") = "server" /\ Peer("server") = "client"
        /\ pc \in Tasks
    BY Sidewise DEF StreamInv, Tasks
  <1>1. /\ ep["client"] \in Sessions /\ loop["client"] \in Loops
        /\ reader["client"] \in Readers /\ writer["client"] \in Writers
        /\ ep["server"] \in Sessions /\ loop["server"] \in Loops
        /\ wire["server"] \in Seq(Frames)
    BY <1>0, Stays
  <1>2. /\ task["client"] \in {"dial", "settings"} /\ serve' = serve /\ ~panic'
        /\ ep' = ep /\ reader' = reader /\ writer' = writer
        /\ task' = [task EXCEPT !["client"] = pc]
        /\ loop' = loop \/ loop' = [loop EXCEPT !["client"].at = "read"]
        /\ \E c \in {"auth", "badAuth", "settings"} : wire' = Sent("client", frame(c, 0))
    <2>1. task["client"] \in {"dial", "settings"} /\ task' = [task EXCEPT !["client"] = pc]
      BY DEF NewClientSession, Go
    <2>2. task'["client"] = pc
      BY <1>0, <2>1 DEF TypeOK
    <2>3. ~Go("client", "failed")
      BY <1>0, <2>2 DEF Go, TypeOK
    <2>4. QED
      BY <2>1, <2>3 DEF NewClientSession, StreamInv
  <1>a. /\ Untouched(ep["client"]) /\ loop["client"].at # "push"
        /\ No(wire["server"], {"psh", "fin", "syn"})
        /\ Untouched(ep["server"]) /\ loop["server"].at # "push"
        /\ No(wire["client"], {"psh", "fin"}) /\ task["server"] = "none"
    BY <1>0, <1>2 DEF Opening, Before
  <1>3. PICK l \in Loops : l.at # "push" /\ loop' = [loop EXCEPT !["client"] = l]
    <2>1. CASE loop' = loop
      BY <1>0, <1>1, <1>a, <2>1, Stays
    <2>2. CASE loop' = [loop EXCEPT !["client"].at = "read"]
      <3>1. PICK l \in Loops : l = [loop["client"] EXCEPT !.at = "read"] /\ l.at = "read"
        BY <1>1, LoopAssigned DEF Places
      <3>2. QED
        BY <2>2, <3>1
    <2>3. QED
      BY <1>2, <2>1, <2>2
  <1>4. Moves("client", ep["client"], l, pc, reader["client"], writer["client"])
    BY <1>0, <1>2, <1>3, Stays DEF Moves
  <1>5. PICK f \in Frames :
          wire' = Sent("client", f) /\ f.cmd \in {"auth", "badAuth", "settings"}
    <2>1. PICK c \in {"auth", "badAuth", "settings"} : wire' = Sent("client", frame(c, 0))
      BY <1>2
    <2>2. c \in Commands /\ 0 \in Nat
      BY DEF Commands
    <2>3. QED
      BY <2>1, <2>2, FrameType
  <1>6. /\ wire' \in [Sides -> Seq(Frames)]
        /\ wire'["server"] = Append(wire["server"], f) /\ wire'["client"] = wire["client"]
    BY <1>0, <1>5, WireFields
  <1>7. No(wire'["server"], {"psh", "fin", "syn"})
    <2>1. f.cmd \notin {"psh", "fin", "syn"}
      BY <1>5
    <2>2. No(Append(wire["server"], f), {"psh", "fin", "syn"})
      BY <1>1, <1>a, <2>1, NoneJoins, Zenon
    <2>3. QED
      BY <1>6, <2>2
  <1>8. TypeOK' /\ Roles'
    <2>1. No(wire'["client"], {"settings"})
      BY <1>0, <1>6 DEF Roles
    <2>2. Fits("client", ep["client"], l, pc, reader["client"], writer["client"])
      BY <1>0, <1>2 DEF Fits, Roles
    <2>3. QED
      BY <1>0, <1>1, <1>4, <1>6, <2>1, <2>2, RolesMove
  <1>9. /\ ep'["client"] = ep["client"] /\ loop'["client"] = l /\ task'["client"] = pc
        /\ ep'["server"] = ep["server"] /\ loop'["server"] = loop["server"]
        /\ task'["server"] = task["server"]
    BY <1>0, <1>1, <1>4, MoveFields
  <1>b. Opening'
    BY <1>3, <1>6, <1>7, <1>9, <1>a DEF Opening
  <1>c. SynFirst(wire'["server"])
    BY <1>7 DEF SynFirst, No
  <1>d. Direction("client")'
    <2>1. Dir(ep'["client"], loop'["client"], wire'["client"], 0, Over("server")',
              Expects("client")')
      BY <1>1, <1>3, <1>6, <1>9, <1>a, DirFresh DEF Untouched
    <2>2. QED
      BY <1>0, <1>9, <1>a, <2>1 DEF Direction, Untouched
  <1>e. Direction("server")'
    <2>0. No(wire'["server"], {"psh", "fin"})
      BY <1>7 DEF No
    <2>1. Dir(ep'["server"], loop'["server"], wire'["server"], 0, Over("client")',
              Expects("server")')
      BY <1>1, <1>9, <1>a, <2>0, DirFresh DEF Untouched
    <2>2. QED
      BY <1>0, <1>9, <1>a, <2>1 DEF Direction, Untouched
  <1>f. QED
    BY <1>2, <1>8, <1>b, <1>c, <1>d, <1>e DEF StreamInv, Sides

(* The stream is opened: its SYN is the last frame on the wire.            *)
LEMMA OpenStep ==
    ASSUME StreamInv, OpenStream, Go("client", "target")
    PROVE  StreamInv'
  <1>0. /\ TypeOK /\ Roles /\ Opening
        /\ "client" \in Sides /\ "server" \in Sides
        /\ Peer("client") = "server" /\ Peer("server") = "client"
        /\ "target" \in Tasks
    BY Sidewise DEF StreamInv, Tasks
  <1>1. /\ ep["client"] \in Sessions /\ loop["client"] \in Loops
        /\ reader["client"] \in Readers /\ writer["client"] \in Writers
        /\ ep["server"] \in Sessions /\ loop["server"] \in Loops
        /\ wire["server"] \in Seq(Frames)
    BY <1>0, Stays
  <1>2. /\ task["client"] = "open" /\ serve' = serve /\ ~panic'
        /\ ep["client"].open
        /\ ep' = [ep EXCEPT !["client"] = openStream(@)]
        /\ loop' = loop /\ reader' = reader /\ writer' = writer
        /\ task' = [task EXCEPT !["client"] = "target"]
        /\ wire' = Sent("client", frame("syn", 0))
    <2>1. task["client"] = "open" /\ task' = [task EXCEPT !["client"] = "target"]
      BY DEF OpenStream, Go
    <2>2. task'["client"] = "target"
      BY <1>0, <2>1 DEF TypeOK
    <2>3. ~Go("client", "failed")
      BY <1>0, <2>2 DEF Go, TypeOK
    <2>4. QED
      BY <2>1, <2>3 DEF OpenStream, StreamInv, CanWrite
  <1>3. PICK d \in Sessions :
          /\ d = openStream(ep["client"])
          /\ d.in = ep["client"].in /\ d.got = ep["client"].got /\ d.sent = ep["client"].sent
          /\ d.queued = ep["client"].queued /\ d.seen = ep["client"].seen
          /\ d.eof = ep["client"].eof /\ d.done = ep["client"].done
          /\ d.open = ep["client"].open
    BY <1>1, OpenFields
  <1>4. Moves("client", d, loop["client"], "target", reader["client"], writer["client"])
    BY <1>0, <1>2, <1>3, Stays DEF Moves
  <1>5. PICK f \in Frames : f = frame("syn", 0) /\ f.cmd = "syn"
    <2>1. "syn" \in Commands /\ 0 \in Nat
      BY DEF Commands
    <2>2. QED
      BY <2>1, FrameType
  <1>6. /\ wire' \in [Sides -> Seq(Frames)] /\ wire'["client"] = wire["client"]
        /\ wire'["server"] = Append(wire["server"], f)
    BY <1>0, <1>2, <1>5, WireFields
  <1>7. TypeOK' /\ Roles'
    <2>1. No(wire'["client"], {"settings"})
      BY <1>0, <1>6 DEF Roles
    <2>2. Fits("client", d, loop["client"], "target", reader["client"], writer["client"])
      BY <1>0, <1>2, <1>3 DEF Fits, Roles
    <2>3. QED
      BY <1>0, <1>1, <1>4, <1>6, <2>1, <2>2, RolesMove
  <1>8. /\ ep'["client"] = d /\ loop'["client"] = loop["client"]
        /\ task'["client"] = "target"
        /\ ep'["server"] = ep["server"] /\ loop'["server"] = loop["server"]
        /\ task'["server"] = task["server"]
    BY <1>0, <1>1, <1>4, MoveFields
  <1>9. /\ Untouched(ep["client"]) /\ loop["client"].at # "push"
        /\ Untouched(ep["server"]) /\ loop["server"].at # "push"
        /\ No(wire["client"], {"psh", "fin"}) /\ task["server"] = "none"
        /\ No(wire["server"], {"psh", "fin", "syn"})
    BY <1>0, <1>2 DEF Opening, Before
  <1>a. Opening'
    BY <1>6, <1>8, <1>9 DEF Opening
  <1>b. /\ DOMAIN wire'["server"] = DOMAIN wire["server"] \cup {Len(wire["server"]) + 1}
        /\ wire'["server"][Len(wire["server"]) + 1] = f
        /\ \A i \in DOMAIN wire["server"] : wire'["server"][i] = wire["server"][i]
    BY <1>1, <1>6, Appended
  <1>c. SynFirst(wire'["server"])
    BY <1>5, <1>9, <1>b DEF SynFirst, No
  <1>d. Direction("client")'
    <2>1. d.done => ~d.reg
      BY <1>0, <1>2, <1>3 DEF Roles
    <2>2. Dir(d, loop["client"], wire["client"], 0, Over("server")', Expects("client")')
      BY <1>1, <1>3, <1>9, <2>1, DirFresh DEF Untouched
    <2>3. QED
      BY <1>0, <1>6, <1>8, <1>9, <2>2 DEF Direction, Untouched
  <1>e. Direction("server")'
    <2>1. No(wire'["server"], {"psh", "fin"})
      BY <1>5, <1>9, <1>b DEF No
    <2>2. Dir(ep["server"], loop["server"], wire'["server"], 0, Over("client")',
              Expects("server")')
      BY <1>1, <1>9, <2>1, DirFresh DEF Untouched
    <2>3. QED
      BY <1>0, <1>3, <1>8, <1>9, <2>2 DEF Direction, Untouched
  <1>f. QED
    BY <1>2, <1>7, <1>a, <1>c, <1>d, <1>e DEF StreamInv, Sides

-----------------------------------------------------------------------------
(* Steps that do not concern the data                                      *)

(* What the wires may see in such a step.                                  *)
Quietly == wire' \in [Sides -> Seq(Frames)] /\ \A x \in Sides : Wired(x)

LEMMA QuietWires ==
    ASSUME TypeOK, NEW s \in Sides
    PROVE  /\ wire' = wire => Quietly
           /\ \A f \in Frames :
                 f.cmd \notin {"psh", "fin", "settings", "syn"} /\ wire' = Sent(s, f) => Quietly
           /\ wire[s] # <<>> /\ (ep[s].reg => Head(wire[s]).cmd # "psh") =>
                 (wire' = Rest(s) => Quietly)
  <1>0. /\ Peer(s) \in Sides /\ Peer(s) # s /\ \A x \in Sides : x = s \/ x = Peer(s)
        /\ wire[Peer(s)] \in Seq(Frames)
    BY Sidewise DEF TypeOK
  <1>1. ASSUME wire' = wire PROVE Quietly
    BY <1>1 DEF Quietly, Wired, TypeOK
  <1>2. ASSUME NEW f \in Frames, f.cmd \notin {"psh", "fin", "settings", "syn"},
               wire' = Sent(s, f)
        PROVE  Quietly
    <2>1. /\ wire' \in [Sides -> Seq(Frames)] /\ wire'[s] = wire[s]
          /\ wire'[Peer(s)] = Append(wire[Peer(s)], f)
      BY <1>2, WireFields
    <2>2. Wired(s) /\ Wired(Peer(s))
      BY <1>2, <2>1 DEF Wired
    <2>3. QED
      BY <1>0, <2>1, <2>2 DEF Quietly
  <1>3. ASSUME wire[s] # <<>>, ep[s].reg => Head(wire[s]).cmd # "psh", wire' = Rest(s)
        PROVE  Quietly
    <2>1. /\ wire' \in [Sides -> Seq(Frames)] /\ wire'[s] = Tail(wire[s])
          /\ wire'[Peer(s)] = wire[Peer(s)]
      BY <1>3, WireFields
    <2>2. Wired(s) /\ Wired(Peer(s))
      BY <1>3, <2>1 DEF Wired
    <2>3. QED
      BY <1>0, <2>1, <2>2 DEF Quietly
  <1>4. QED
    BY <1>1, <1>2, <1>3

(* The owner of the stream or a copier goes on, and readLoop stays.        *)
LEMMA StillMove ==
    ASSUME StreamInv, Quietly, ~panic', NEW s \in Sides, NEW d \in Sessions,
           NEW pc \in Tasks, NEW r \in Readers, NEW c \in Writers,
           Moves(s, d, loop[s], pc, r, c),
           Keeps(ep[s], d), d.seen = ep[s].seen, d.sent = ep[s].sent, d.done => ~d.open,
           Onward(s, pc), serve' = "auth" => serve = "auth",
           c = "run" => pc = "relay",
           r = "eof" => reader[s] = "eof" \/ AtEof(s),
           pc = "session" => s = "client" /\ ~ep[s].reg,
           s = "server" /\ ep[s].queued => pc = "none"
    PROVE  StreamInv'
  <1>1. Roles /\ loop[s] \in Loops
    BY Stays DEF StreamInv
  <1>2. Fits(s, d, loop[s], pc, r, c)
    BY <1>1 DEF Fits, Roles, Keeps, AtEof
  <1>3. Idles(ep[s], loop[s], d, loop[s])
    BY DEF Idles, Keeps
  <1>4. QED
    BY <1>1, <1>2, <1>3, PlainMove DEF Quietly, Keeps

(* The session is closed, once nothing is sent to the stream.              *)
LEMMA CloseMove ==
    ASSUME StreamInv, Quietly, ~panic', NEW s \in Sides, NEW e \in Sessions, NEW l \in Loops,
           NEW pc \in Tasks,
           Moves(s, CloseSession(e), l, pc, reader[s], writer[s]),
           Keeps(ep[s], e), e.sent = ep[s].sent, e.open = ep[s].open, s = "client" => ~e.seen,
           l = loop[s] \/ (l.at # "push" /\ loop[s].at # "push"),
           l.at # "push" \/ ~ep[s].reg,
           s = "server" => l.at # "none" /\ loop[s].at # "none",
           Onward(s, pc), serve' = "auth" => serve = "auth",
           writer[s] = "run" => pc = "relay",
           pc = "session" => s = "client" /\ ~ep[s].reg,
           s = "server" /\ ep[s].queued => pc = "none"
    PROVE  StreamInv'
  <1>0. Roles /\ reader[s] \in Readers /\ writer[s] \in Writers /\ (ep[s].done => ~ep[s].reg)
    BY Stays DEF StreamInv, Direction, Dir, Gate
  <1>1. PICK d \in Sessions :
          /\ d = CloseSession(e)
          /\ d.in = e.in /\ d.got = e.got /\ d.sent = e.sent
          /\ d.queued = e.queued /\ d.seen = e.seen
          /\ d.reg => e.reg /\ e.done
          /\ d.eof = e.eof \/ (d.eof = "cut" /\ e.reg /\ ~d.reg)
          /\ d.done
          /\ (e.done => ~e.open) => ~d.open
    BY CloseFields
  <1>2. ~d.reg /\ ~d.open
    BY <1>0, <1>1 DEF Roles, Keeps
  <1>3. Moves(s, d, l, pc, reader[s], writer[s])
    BY <1>1
  <1>4. Fits(s, d, l, pc, reader[s], writer[s])
    <2>1. reader[s] = "eof" => d.in = <<>> /\ d.eof # "no"
      BY <1>0, <1>1 DEF Roles, Keeps
    <2>2. serve = "auth" => s = "client"
      BY <1>0 DEF Roles, Sides
    <2>3. QED
      BY <1>1, <1>2, <2>1, <2>2 DEF Fits, Keeps
  <1>5. Idles(ep[s], loop[s], d, l)
    BY <1>1, <1>2 DEF Idles, Keeps
  <1>6. d.sent = ep[s].sent /\ (d.queued => ep[s].queued)
    BY <1>1 DEF Keeps
  <1>7. QED
    BY <1>0, <1>3, <1>4, <1>5, <1>6, PlainMove DEF Quietly

(* The relay starts.                                                       *)
LEMMA RelayStarts ==
    ASSUME StreamInv, Quietly, NEW s \in Sides, StartRelay(s),
           UNCHANGED <<loop, serve, panic>>,
           task[s] \in {"look", "select", "connect"}
    PROVE  StreamInv'
  <1>0. /\ TypeOK /\ Roles /\ ~panic' /\ ep[s] \in Sessions /\ loop[s] \in Loops
        /\ "relay" \in Tasks /\ "run" \in Readers /\ "run" \in Writers
    BY Stays DEF StreamInv, Tasks, Readers, Writers
  <1>1. PICK b \in BOOLEAN : b = (kind = "udp")
    OBVIOUS
  <1>2. PICK d \in Sessions :
          /\ d = [ep[s] EXCEPT !.timed = b] /\ Keeps(ep[s], d)
          /\ d.seen = ep[s].seen /\ d.sent = ep[s].sent /\ d.open = ep[s].open
    BY <1>0, TimedAssigned DEF Keeps
  <1>3. Moves(s, d, loop[s], "relay", "run", "run")
    BY <1>0, <1>1, <1>2, Stays DEF StartRelay, Moves, Go
  <1>4. d.done => ~d.open
    BY <1>0, <1>2 DEF Roles, Keeps
  <1>5. Onward(s, "relay") /\ (s = "server" => ~ep[s].queued)
    BY <1>0 DEF Onward, Over, Roles
  <1>6. QED
    BY <1>0, <1>2, <1>3, <1>4, <1>5, StillMove

(* Only the owner goes on.                                                 *)
LEMMA OwnerGoes ==
    ASSUME StreamInv, Quietly, NEW s \in Sides, NEW pc \in Tasks, Go(s, pc),
           UNCHANGED <<ep, loop, serve, reader, writer, panic>>,
           writer[s] = "run" => pc = "relay", pc # "session",
           Onward(s, pc), s = "server" => task[s] # "none"
    PROVE  StreamInv'
  <1>0. /\ TypeOK /\ Roles /\ ~panic' /\ ep[s] \in Sessions /\ loop[s] \in Loops
        /\ reader[s] \in Readers /\ writer[s] \in Writers
    BY Stays DEF StreamInv
  <1>1. Moves(s, ep[s], loop[s], pc, reader[s], writer[s])
    BY <1>0, Stays DEF Moves, Go
  <1>2. /\ Keeps(ep[s], ep[s]) /\ (ep[s].done => ~ep[s].open)
        /\ s = "server" => ~ep[s].queued
    BY <1>0 DEF Keeps, Roles
  <1>3. QED
    BY <1>0, <1>1, <1>2, StillMove

(* The steps of the dial.                                                  *)
LEMMA DialSteps ==
    ASSUME StreamInv, NewClientSession \/ OpenStream \/ WriteTarget \/ LookForAck \/ WaitAck
    PROVE  StreamInv'
  <1> DEFINE s == "client"
  <1>0. /\ TypeOK /\ Roles /\ Opening /\ s \in Sides /\ Peer(s) = "server"
        /\ ep[s] \in Sessions /\ loop[s] \in Loops /\ reader[s] \in Readers
        /\ writer[s] \in Writers /\ (ep[s].done => ~ep[s].open)
    BY Sidewise, Stays DEF StreamInv, Roles
  <1>a. ~panic
    BY DEF StreamInv
  <1>b. "failed" \in Tasks /\ "fin" \in Tasks /\ "select" \in Tasks
    BY DEF Tasks
  <1>1. CASE NewClientSession
    <2>1. CASE Go(s, "settings") \/ Go(s, "open")
      BY <1>1, <2>1, SessionStep
    <2>2. CASE Go(s, "failed") /\ ep' = [ep EXCEPT ![s].open = FALSE] /\ UNCHANGED <<wire, loop>>
      <3>1. PICK d \in Sessions :
              /\ d = [ep[s] EXCEPT !.open = FALSE] /\ Keeps(ep[s], d)
              /\ d.seen = ep[s].seen /\ d.sent = ep[s].sent /\ ~d.open
        BY <1>0, OpenAssigned DEF Keeps
      <3>2. Moves(s, d, loop[s], "failed", reader[s], writer[s])
        BY <1>0, <1>1, <2>2, <3>1, Stays DEF NewClientSession, Moves, Go
      <3>3. Quietly /\ ~panic' /\ serve' = serve
        BY <1>0, <1>1, <1>a, <2>2, QuietWires DEF NewClientSession
      <3>4. Onward(s, "failed") /\ writer[s] # "run"
        BY <1>0, <1>1 DEF Onward, Over, Roles, NewClientSession
      <3>5. QED
        BY <1>0, <1>b, <3>1, <3>2, <3>3, <3>4, StillMove
    <2>3. QED
      BY <1>1, <2>1, <2>2 DEF NewClientSession
  <1>2. CASE OpenStream
    <2>1. CASE Go(s, "target")
      BY <1>2, <2>1, OpenStep
    <2>2. CASE /\ ep' = [ep EXCEPT ![s] = CloseSession(removeStream(openStream(@)))]
               /\ Go(s, "failed") /\ UNCHANGED wire
      <3>0. Untouched(ep[s]) /\ loop[s].at # "push" /\ task[s] = "open"
        BY <1>0, <1>2 DEF Opening, OpenStream
      <3>1. openStream(ep[s]) \in Sessions
        BY <1>0, OpenFields
      <3>2. PICK e \in Sessions :
              /\ e = removeStream(openStream(ep[s])) /\ Keeps(ep[s], e)
              /\ e.seen = ep[s].seen /\ e.sent = ep[s].sent /\ e.open = ep[s].open
        BY <1>0, <3>0, <3>1, OpenFields, RemoveFields DEF Keeps, Untouched, Sessions
      <3>3. Moves(s, CloseSession(e), loop[s], "failed", reader[s], writer[s])
        BY <1>0, <1>2, <2>2, <3>2, Stays DEF OpenStream, Moves, Go
      <3>4. Quietly /\ ~panic' /\ serve' = serve
        BY <1>0, <1>2, <1>a, <2>2, QuietWires DEF OpenStream
      <3>5. Onward(s, "failed") /\ writer[s] # "run" /\ ~e.seen
        BY <1>0, <3>0, <3>2 DEF Onward, Over, Roles
      <3>6. QED
        BY <1>0, <1>b, <3>0, <3>2, <3>3, <3>4, <3>5, CloseMove
    <2>3. QED
      BY <1>2, <2>1, <2>2 DEF OpenStream
  <1>3. CASE WriteTarget
    <2>0. task[s] \in {"target", "request"} /\ serve' = serve /\ ~panic' /\ writer[s] # "run"
      BY <1>0, <1>3, <1>a DEF WriteTarget, Roles
    <2>1. CASE /\ wire' = Sent(s, frame("psh", ep[s].sent + 1))
               /\ ep' = [ep EXCEPT ![s].sent = @ + 1]
               /\ Go(s, IF task[s] = "target" /\ kind = "udp" THEN "request" ELSE "look")
      <3>1. PICK pc \in Tasks :
              /\ pc = IF task[s] = "target" /\ kind = "udp" THEN "request" ELSE "look"
              /\ pc \in {"request", "look"}
        BY DEF Tasks
      <3>2. PICK d \in Sessions :
              /\ d = [ep[s] EXCEPT !.sent = @ + 1] /\ Keeps(ep[s], d)
              /\ d.seen = ep[s].seen /\ d.sent = ep[s].sent + 1 /\ d.open = ep[s].open
        BY <1>0, SentAssigned DEF Keeps
      <3>3. Moves(s, d, loop[s], pc, reader[s], writer[s])
        BY <1>0, <1>3, <2>1, <3>1, <3>2, Stays DEF WriteTarget, Moves, Go
      <3>4. QED
        BY <1>0, <2>0, <2>1, <3>1, <3>2, <3>3, DataMove
    <2>2. CASE Go(s, "fin") /\ UNCHANGED <<wire, ep>>
      <3>1. Quietly /\ UNCHANGED <<ep, loop, serve, reader, writer, panic>>
        BY <1>0, <1>3, <2>2, QuietWires DEF WriteTarget
      <3>2. Onward(s, "fin")
        BY <2>0 DEF Onward, Over
      <3>3. QED
        BY <1>0, <1>b, <2>0, <2>2, <3>1, <3>2, OwnerGoes
    <2>3. QED
      BY <1>3, <2>1, <2>2 DEF WriteTarget
  <1>4. CASE LookForAck \/ WaitAck
    <2>1. /\ task[s] \in {"look", "select"} /\ UNCHANGED <<loop, serve, panic>> /\ Quietly
          /\ writer[s] # "run"
      BY <1>0, <1>4, QuietWires DEF LookForAck, WaitAck, Roles
    <2>2. CASE StartRelay(s)
      BY <1>0, <2>1, <2>2, RelayStarts
    <2>3. ASSUME NEW pc \in {"select", "fin"}, Go(s, pc), UNCHANGED <<reader, writer, ep>>
          PROVE  StreamInv'
      <3>1. pc \in Tasks /\ Onward(s, pc)
        BY <1>b, <2>1 DEF Onward, Over
      <3>2. QED
        BY <1>0, <2>1, <2>3, <3>1, OwnerGoes
    <2>4. QED
      BY <1>4, <2>2, <2>3 DEF LookForAck, WaitAck
  <1>5. QED
    BY <1>1, <1>2, <1>3, <1>4

(* A write of a control frame whose error is ignored.                      *)
LEMMA IgnoredQuietly ==
    ASSUME TypeOK, NEW s \in Sides, NEW n \in Nat, WriteIgnored(s, frame("synack", n))
    PROVE  Quietly
  <1>1. PICK f \in Frames : f = frame("synack", n) /\ f.cmd = "synack"
    <2>1. "synack" \in Commands
      BY DEF Commands
    <2>2. QED
      BY <2>1, FrameType
  <1>2. wire' = wire \/ wire' = Sent(s, f)
    BY <1>1 DEF WriteIgnored
  <1>3. f.cmd \notin {"psh", "fin", "settings", "syn"}
    BY <1>1
  <1>4. QED
    BY <1>2, <1>3, QuietWires

(* The steps of the listener.                                              *)
LEMMA ListenerSteps ==
    ASSUME StreamInv, Auth \/ ServeFallback \/ AcceptStream \/ ReadTarget \/ ServeStream
    PROVE  StreamInv'
  <1> DEFINE s == "server"
  <1>0. /\ TypeOK /\ Roles /\ s \in Sides /\ ep[s] \in Sessions /\ loop[s] \in Loops
        /\ reader[s] \in Readers /\ writer[s] \in Writers /\ task[s] \in Tasks
        /\ (ep[s].done => ~ep[s].open) /\ (ep[s].queued => task[s] = "none")
        /\ (writer[s] = "run" => task[s] = "relay") /\ task[s] # "session"
    BY Sidewise, Stays DEF StreamInv, Roles
  <1>a. ~panic
    BY DEF StreamInv
  <1>b. "target" \in Tasks /\ "fin" \in Tasks /\ "end" \in Writers
    BY DEF Tasks, Writers
  <1>c. Onward(s, task[s])
    BY DEF Onward, Over
  <1>1. CASE Auth
    <2>0. /\ serve = "auth" /\ loop[s].at = "none" /\ ~ep[s].reg /\ ~ep[s].done /\ ~panic'
          /\ UNCHANGED <<task, reader, writer>>
      BY <1>0, <1>1, <1>a DEF Auth, Roles
    <2>1. Quietly
      <3>1. wire' = wire \/ (wire[s] # <<>> /\ wire' = Rest(s))
        BY <1>1 DEF Auth, Rest
      <3>2. QED
        BY <1>0, <2>0, <3>1, QuietWires
    <2>2. ASSUME serve' = "accept", loop' = [loop EXCEPT ![s].at = "read"], ep' = ep
          PROVE  StreamInv'
      <3>1. PICK l \in Loops : l = [loop[s] EXCEPT !.at = "read"] /\ l.at = "read"
        BY <1>0, LoopAssigned DEF Places
      <3>2. Moves(s, ep[s], l, task[s], reader[s], writer[s])
        BY <1>0, <2>0, <2>2, <3>1, Stays DEF Moves
      <3>3. Fits(s, ep[s], l, task[s], reader[s], writer[s])
        BY <1>0, <2>2, <3>1 DEF Fits, Roles
      <3>4. Idles(ep[s], loop[s], ep[s], l)
        BY <2>0, <3>1 DEF Idles
      <3>5. QED
        BY <1>0, <1>c, <2>0, <2>1, <3>2, <3>3, <3>4, PlainMove DEF Quietly
    <2>3. ASSUME NEW b \in BOOLEAN, ep' = [ep EXCEPT ![s].open = b], loop' = loop,
                 serve' # "auth"
          PROVE  StreamInv'
      <3>1. PICK d \in Sessions :
              /\ d = [ep[s] EXCEPT !.open = b] /\ Keeps(ep[s], d)
              /\ d.seen = ep[s].seen /\ d.sent = ep[s].sent
        BY <1>0, OpenAssigned DEF Keeps
      <3>2. Moves(s, d, loop[s], task[s], reader[s], writer[s])
        BY <1>0, <2>0, <2>3, <3>1, Stays DEF Moves
      <3>3. ~d.done
        BY <2>0, <3>1 DEF Keeps
      <3>4. QED
        BY <1>0, <1>c, <2>0, <2>1, <2>3, <3>1, <3>2, <3>3, StillMove
    <2>4. HasFallback \in BOOLEAN /\ FALSE \in BOOLEAN
      BY AnyTlsAssumption
    <2>5. \/ serve' = "accept" /\ loop' = [loop EXCEPT ![s].at = "read"] /\ ep' = ep
          \/ /\ loop' = loop /\ serve' # "auth"
             /\ \E b \in BOOLEAN : ep' = [ep EXCEPT ![s].open = b]
      BY <1>1, <2>4 DEF Auth
    <2>6. QED
      BY <2>2, <2>3, <2>5
  <1>2. CASE ServeFallback
    <2>1. PICK d \in Sessions :
            /\ d = [ep[s] EXCEPT !.open = FALSE] /\ Keeps(ep[s], d)
            /\ d.seen = ep[s].seen /\ d.sent = ep[s].sent /\ ~d.open
      BY <1>0, OpenAssigned DEF Keeps
    <2>2. Moves(s, d, loop[s], task[s], reader[s], writer[s])
      BY <1>0, <1>2, <2>1, Stays DEF ServeFallback, Moves
    <2>3. Quietly /\ ~panic' /\ serve' # "auth"
      BY <1>0, <1>2, <1>a, QuietWires DEF ServeFallback
    <2>4. QED
      BY <1>0, <1>c, <2>1, <2>2, <2>3, StillMove
  <1>3. CASE AcceptStream
    <2>0. /\ Quietly /\ ~panic' /\ UNCHANGED <<loop, reader, writer>>
          /\ serve' # "auth"
      BY <1>0, <1>3, <1>a, QuietWires DEF AcceptStream, Roles
    <2>1. CASE ep[s].queued /\ ep' = [ep EXCEPT ![s].queued = FALSE] /\ Go(s, "target")
      <3>1. PICK d \in Sessions :
              /\ d = [ep[s] EXCEPT !.queued = FALSE]
              /\ d.in = ep[s].in /\ d.got = ep[s].got /\ d.sent = ep[s].sent
              /\ ~d.queued /\ d.seen = ep[s].seen /\ d.eof = ep[s].eof
              /\ d.done = ep[s].done /\ d.reg = ep[s].reg /\ d.open = ep[s].open
        BY <1>0, AcceptFields
      <3>2. Moves(s, d, loop[s], "target", reader[s], writer[s])
        BY <1>0, <2>0, <2>1, <3>1, Stays DEF Moves, Go
      <3>3. Fits(s, d, loop[s], "target", reader[s], writer[s])
        BY <1>0, <2>0, <2>1, <3>1 DEF Fits, Roles
      <3>4. Idles(ep[s], loop[s], d, loop[s]) /\ Onward(s, "target")
        BY <1>0, <2>1, <3>1 DEF Idles, Onward, Over
      <3>5. QED
        BY <1>0, <1>b, <2>0, <3>1, <3>2, <3>3, <3>4, PlainMove DEF Quietly
    <2>2. CASE ep[s].done /\ ep' = [ep EXCEPT ![s] = CloseSession(@)] /\ task' = task
      <3>1. Moves(s, CloseSession(ep[s]), loop[s], task[s], reader[s], writer[s])
        BY <1>0, <2>0, <2>2, Stays DEF Moves
      <3>2. Keeps(ep[s], ep[s]) /\ ~ep[s].reg /\ loop[s].at # "none"
        BY <1>0, <2>2 DEF Keeps, StreamInv, Direction, Dir, Gate, Roles
      <3>3. serve' # "auth" /\ s # "client"
        BY <1>3 DEF AcceptStream
      <3>4. QED
        BY <1>0, <1>c, <2>0, <3>1, <3>2, <3>3, CloseMove
    <2>3. QED
      BY <1>3, <2>1, <2>2 DEF AcceptStream
  <1>4. CASE ReadTarget
    <2>0. /\ task[s] \in {"target", "request"} /\ ~panic'
          /\ UNCHANGED <<loop, serve, reader, writer, panic>>
      BY <1>4, <1>a DEF ReadTarget
    <2>1. CASE /\ Readable(s) /\ ep' = [ep EXCEPT ![s] = Read(@)] /\ wire' = wire
               /\ Go(s, IF task[s] = "target" /\ kind = "udp" THEN "request" ELSE "connect")
      <3>1. PICK pc \in Tasks :
              /\ pc = IF task[s] = "target" /\ kind = "udp" THEN "request" ELSE "connect"
              /\ pc \in {"request", "connect"}
        BY DEF Tasks
      <3>2. Moves(s, Read(ep[s]), loop[s], pc, reader[s], writer[s])
        BY <1>0, <2>0, <2>1, <3>1, Stays DEF Moves, Go
      <3>3. ep[s].in # <<>>
        BY <2>1 DEF Readable
      <3>4. QED
        BY <1>0, <2>0, <2>1, <3>1, <3>2, <3>3, ReadMove
    <2>2. CASE WriteIgnored(s, frame("synack", 1)) /\ Go(s, "fin") /\ ep' = ep
      <3>1. Quietly
        BY <1>0, <2>2, IgnoredQuietly
      <3>2. Onward(s, "fin") /\ writer[s] # "run"
        BY <1>0, <2>0 DEF Onward, Over
      <3>3. QED
        BY <1>0, <1>b, <2>0, <2>2, <3>1, <3>2, OwnerGoes
    <2>3. QED
      BY <1>4, <2>1, <2>2 DEF ReadTarget
  <1>5. CASE ServeStream
    <2>0. /\ task[s] = "connect" /\ UNCHANGED <<loop, serve, panic>>
          /\ Onward(s, "fin") /\ writer[s] # "run"
      BY <1>0, <1>5 DEF ServeStream, Onward, Over
    <2>1. Quietly
      BY <1>0, <1>5, IgnoredQuietly DEF ServeStream
    <2>2. CASE StartRelay(s)
      BY <1>0, <2>0, <2>1, <2>2, RelayStarts
    <2>3. CASE Go(s, "fin") /\ UNCHANGED <<reader, writer, ep>>
      BY <1>0, <1>b, <2>0, <2>1, <2>3, OwnerGoes
    <2>4. QED
      BY <1>5, <2>2, <2>3 DEF ServeStream
  <1>6. QED
    BY <1>1, <1>2, <1>3, <1>4, <1>5

(* The steps of the relay and of the close of a stream.                    *)
LEMMA RelaySteps ==
    ASSUME StreamInv, NEW s \in Sides,
           \/ CopyFrom(s) \/ CopyTo(s) \/ RelayEnds(s)
           \/ StreamFin(s) \/ StreamRemove(s) \/ ClientConnClose(s)
    PROVE  StreamInv'
  <1>0. /\ TypeOK /\ Roles /\ ep[s] \in Sessions /\ loop[s] \in Loops
        /\ reader[s] \in Readers /\ writer[s] \in Writers /\ task[s] \in Tasks
        /\ (ep[s].done => ~ep[s].open) /\ (s = "server" /\ ep[s].queued => task[s] = "none")
        /\ (writer[s] = "run" => task[s] = "relay")
        /\ (task[s] = "session" => s = "client" /\ ~ep[s].reg)
        /\ Keeps(ep[s], ep[s])
    BY Stays DEF StreamInv, Roles, Keeps
  <1>a. ~panic
    BY DEF StreamInv
  <1>b. /\ "fin" \in Tasks /\ "session" \in Tasks /\ "closed" \in Tasks
        /\ "end" \in Writers /\ "eof" \in Readers /\ "run" \in Readers /\ "error" \in Readers
    BY DEF Tasks, Writers, Readers
  <1>c. Onward(s, task[s])
    BY DEF Onward, Over
  <1>1. CASE CopyFrom(s)
    <2>0. /\ reader[s] = "run" /\ ~panic' /\ wire' = wire /\ UNCHANGED <<loop, task, serve, writer>>
      BY <1>1, <1>a DEF CopyFrom
    <2>1. ASSUME NEW r \in {"run", "error"}, Readable(s), ep' = [ep EXCEPT ![s] = Read(@)],
                 reader' = [reader EXCEPT ![s] = r]
          PROVE  StreamInv'
      <3>1. Moves(s, Read(ep[s]), loop[s], task[s], r, writer[s])
        BY <1>0, <2>0, <2>1, Stays DEF Moves
      <3>2. ep[s].in # <<>> /\ r \in Readers
        BY <1>b, <2>1 DEF Readable
      <3>3. QED
        BY <1>0, <2>0, <2>1, <3>1, <3>2, ReadMove
    <2>2. CASE AtEof(s) /\ reader' = [reader EXCEPT ![s] = "eof"] /\ ep' = ep
      <3>1. Moves(s, ep[s], loop[s], task[s], "eof", writer[s])
        BY <1>0, <2>0, <2>2, Stays DEF Moves
      <3>2. Quietly
        BY <1>0, <2>0, QuietWires
      <3>3. QED
        BY <1>0, <1>b, <1>c, <2>0, <2>2, <3>1, <3>2, StillMove
    <2>3. QED
      BY <1>1, <2>1, <2>2 DEF CopyFrom
  <1>2. CASE CopyTo(s)
    <2>0. /\ task[s] = "relay" /\ ~panic' /\ UNCHANGED <<loop, task, serve, reader>>
      BY <1>0, <1>2, <1>a DEF CopyTo
    <2>1. CASE /\ wire' = Sent(s, frame("psh", ep[s].sent + 1))
               /\ ep' = [ep EXCEPT ![s].sent = @ + 1] /\ writer' = writer
      <3>1. PICK d \in Sessions :
              /\ d = [ep[s] EXCEPT !.sent = @ + 1] /\ Keeps(ep[s], d)
              /\ d.seen = ep[s].seen /\ d.sent = ep[s].sent + 1 /\ d.open = ep[s].open
        BY <1>0, SentAssigned DEF Keeps
      <3>2. Moves(s, d, loop[s], task[s], reader[s], writer[s])
        BY <1>0, <2>0, <2>1, <3>1, Stays DEF Moves
      <3>3. QED
        BY <1>0, <2>0, <2>1, <3>1, <3>2, DataMove
    <2>2. CASE /\ writer' = [writer EXCEPT ![s] = "end"]
               /\ ep' = [ep EXCEPT ![s].timed = TRUE] /\ wire' = wire
      <3>1. PICK d \in Sessions :
              /\ d = [ep[s] EXCEPT !.timed = TRUE] /\ Keeps(ep[s], d)
              /\ d.seen = ep[s].seen /\ d.sent = ep[s].sent /\ d.open = ep[s].open
        BY <1>0, TimedAssigned DEF Keeps
      <3>2. Moves(s, d, loop[s], task[s], reader[s], "end")
        BY <1>0, <2>0, <2>2, <3>1, Stays DEF Moves
      <3>3. Quietly /\ (d.done => ~d.open)
        BY <1>0, <2>2, <3>1, QuietWires DEF Keeps
      <3>4. QED
        BY <1>0, <1>b, <1>c, <2>0, <3>1, <3>2, <3>3, StillMove
    <2>3. QED
      BY <1>2, <2>1, <2>2 DEF CopyTo
  <1>3. CASE RelayEnds(s)
    <2>1. Moves(s, ep[s], loop[s], "fin", reader[s], "end")
      BY <1>0, <1>3, Stays DEF RelayEnds, Moves, Go
    <2>2. Quietly /\ ~panic' /\ serve' = serve /\ task[s] = "relay"
      BY <1>0, <1>3, <1>a, QuietWires DEF RelayEnds
    <2>3. Onward(s, "fin")
      BY <2>2 DEF Onward, Over
    <2>4. QED
      BY <1>0, <1>b, <2>1, <2>2, <2>3, StillMove
  <1>4. CASE StreamFin(s)
    BY <1>4, FinMove
  <1>5. CASE StreamRemove(s)
    <2>1. PICK pc \in Tasks : /\ pc = AfterFin(s, "remove")
                             /\ pc = IF s = "client" THEN "session" ELSE "closed"
      BY <1>b DEF AfterFin
    <2>2. PICK d \in Sessions :
            /\ d = removeStream(ep[s])
            /\ d.in = ep[s].in /\ d.got = ep[s].got /\ d.sent = ep[s].sent
            /\ d.queued = ep[s].queued /\ d.seen = ep[s].seen /\ d.eof = ep[s].eof
            /\ d.done = ep[s].done /\ d.open = ep[s].open /\ ~d.reg
      BY <1>0, RemoveFields
    <2>3. Moves(s, d, loop[s], pc, reader[s], writer[s])
      BY <1>0, <1>5, <2>1, <2>2, Stays DEF StreamRemove, Moves, Go
    <2>4. Quietly /\ ~panic' /\ serve' = serve /\ task[s] = "remove"
      BY <1>0, <1>5, <1>a, QuietWires DEF StreamRemove
    <2>5. Fits(s, d, loop[s], pc, reader[s], writer[s])
      BY <1>0, <2>1, <2>2, <2>4 DEF Fits, Roles
    <2>6. Idles(ep[s], loop[s], d, loop[s]) /\ Onward(s, pc)
      BY <2>1, <2>2, <2>4 DEF Idles, Onward, Over
    <2>7. QED
      BY <1>0, <2>2, <2>3, <2>4, <2>5, <2>6, PlainMove DEF Quietly
  <1>6. CASE ClientConnClose(s)
    <2>1. /\ task[s] = "session" /\ s = "client" /\ ~ep[s].reg
          /\ Quietly /\ ~panic' /\ serve' = serve
      BY <1>0, <1>6, <1>a, QuietWires DEF ClientConnClose
    <2>2. Moves(s, CloseSession(ep[s]), loop[s], "closed", reader[s], writer[s])
      BY <1>0, <1>6, Stays DEF ClientConnClose, Moves, Go, AfterFin
    <2>3. Onward(s, "closed") /\ ~ep[s].seen
      BY <1>0, <2>1 DEF Onward, Over, Roles
    <2>4. QED
      BY <1>0, <1>b, <2>1, <2>2, <2>3, CloseMove
  <1>7. QED
    BY <1>1, <1>2, <1>3, <1>4, <1>5, <1>6

(* readLoop ends with the session it closes.                               *)
LEMMA LoopEnds ==
    ASSUME StreamInv, Quietly, NEW s \in Sides, NEW e \in Sessions,
           loop[s].at \notin {"none", "push"}, LoopTo(s, "end"), ep' = [ep EXCEPT ![s] = CloseSession(e)],
           UNCHANGED <<task, serve, reader, writer, panic>>,
           Keeps(ep[s], e), e.sent = ep[s].sent, e.open = ep[s].open, s = "client" => ~e.seen
    PROVE  StreamInv'
  <1>0. /\ TypeOK /\ Roles /\ loop[s] \in Loops /\ task[s] \in Tasks /\ ~panic'
    BY Stays DEF StreamInv
  <1>1. PICK l \in Loops : l = [loop[s] EXCEPT !.at = "end"] /\ l.at = "end"
    BY <1>0, LoopAssigned DEF Places
  <1>2. Moves(s, CloseSession(e), l, task[s], reader[s], writer[s])
    BY <1>0, <1>1, Stays DEF Moves, LoopTo
  <1>3. /\ Onward(s, task[s]) /\ (writer[s] = "run" => task[s] = "relay")
        /\ (task[s] = "session" => s = "client" /\ ~ep[s].reg)
        /\ (s = "server" /\ ep[s].queued => task[s] = "none")
    BY <1>0 DEF Onward, Over, Roles
  <1>4. QED
    BY <1>0, <1>1, <1>2, <1>3, CloseMove

(* readLoop goes on, and the stream is as it was.                          *)
LEMMA LoopTurns ==
    ASSUME StreamInv, Quietly, NEW s \in Sides, NEW d \in Sessions, NEW l \in Loops,
           loop' = [loop EXCEPT ![s] = l], ep' = [ep EXCEPT ![s] = d],
           l = loop[s] \/ (/\ l.at \notin {"none", "push"}
                           /\ loop[s].at \notin {"none", "push"}),
           UNCHANGED <<task, serve, reader, writer, panic>>,
           Keeps(ep[s], d), d.sent = ep[s].sent, d.open = ep[s].open, s = "client" => ~d.seen
    PROVE  StreamInv'
  <1>0. /\ TypeOK /\ Roles /\ loop[s] \in Loops /\ task[s] \in Tasks /\ ~panic'
        /\ reader[s] \in Readers /\ writer[s] \in Writers
    BY Stays DEF StreamInv
  <1>1. Moves(s, d, l, task[s], reader[s], writer[s])
    BY <1>0, Stays DEF Moves
  <1>2. Fits(s, d, l, task[s], reader[s], writer[s])
    BY <1>0 DEF Fits, Roles, Keeps
  <1>3. Onward(s, task[s]) /\ Idles(ep[s], loop[s], d, l)
    BY DEF Onward, Over, Idles, Keeps
  <1>4. QED
    BY <1>0, <1>1, <1>2, <1>3, PlainMove DEF Quietly, Keeps

LEMMA LoopGoes ==
    ASSUME StreamInv, Quietly, NEW s \in Sides, NEW d \in Sessions,
           loop' = loop, ep' = [ep EXCEPT ![s] = d],
           UNCHANGED <<task, serve, reader, writer, panic>>,
           Keeps(ep[s], d), d.sent = ep[s].sent, d.open = ep[s].open, s = "client" => ~d.seen
    PROVE  StreamInv'
  <1>1. loop[s] \in Loops /\ loop' = [loop EXCEPT ![s] = loop[s]]
    BY Stays DEF StreamInv, TypeOK
  <1>2. QED
    BY <1>1, LoopTurns

(* readLoop turns to an answer that it has to write, or back to reading.   *)
LEMMA LoopTurnsTo ==
    ASSUME StreamInv, Quietly, NEW s \in Sides, NEW d \in Sessions,
           NEW at \in {"read", "heartResponse", "serverSettings", "alert"}, LoopTo(s, at),
           loop[s].at \notin {"none", "push"}, ep' = [ep EXCEPT ![s] = d],
           UNCHANGED <<task, serve, reader, writer, panic>>,
           Keeps(ep[s], d), d.sent = ep[s].sent, d.open = ep[s].open, s = "client" => ~d.seen
    PROVE  StreamInv'
  <1>1. loop[s] \in Loops
    BY Stays DEF StreamInv
  <1>a. at \in Places
    BY DEF Places
  <1>2. PICK l \in Loops : l = [loop[s] EXCEPT !.at = at] /\ l.at = at
    BY <1>1, <1>a, LoopAssigned
  <1>3. loop' = [loop EXCEPT ![s] = l]
    BY <1>2 DEF LoopTo
  <1>4. QED
    BY <1>2, <1>3, LoopTurns

(* An answer is written, or the session ends with it.                      *)
LEMMA AnswerStep ==
    ASSUME StreamInv, NEW s \in Sides, Answer(s)
    PROVE  StreamInv'
  <1>0. /\ TypeOK /\ ep[s] \in Sessions /\ Keeps(ep[s], ep[s])
        /\ (s = "client" => ~ep[s].seen)
        /\ loop[s].at \in {"heartResponse", "serverSettings", "alert"}
        /\ UNCHANGED <<task, serve, reader, writer, panic>>
    BY Stays DEF StreamInv, Roles, Keeps, Answer
  <1>1. PICK f \in Frames : /\ f = frame(loop[s].at, 0)
                           /\ f.cmd \notin {"psh", "fin", "settings", "syn"}
    <2>1. loop[s].at \in Commands /\ 0 \in Nat
      BY <1>0 DEF Commands
    <2>2. QED
      BY <1>0, <2>1, FrameType
  <1>2. wire' = wire \/ wire' = Sent(s, f)
    BY <1>1 DEF Answer, WriteIgnored
  <1>3. Quietly
    BY <1>0, <1>1, <1>2, QuietWires
  <1>4. CASE LoopTo(s, "read") /\ UNCHANGED ep
    <2>1. ep' = [ep EXCEPT ![s] = ep[s]]
      BY <1>0, <1>4, Stays
    <2>2. QED
      BY <1>0, <1>3, <1>4, <2>1, LoopTurnsTo
  <1>5. CASE LoopTo(s, "end") /\ ep' = [ep EXCEPT ![s] = CloseSession(@)]
    BY <1>0, <1>3, <1>5, LoopEnds
  <1>6. QED
    BY <1>4, <1>5 DEF Answer

(* The steps of readLoop.                                                  *)
LEMMA LoopSteps ==
    ASSUME StreamInv, NEW s \in Sides, readLoop(s)
    PROVE  StreamInv'
  <1>0. /\ TypeOK /\ Roles /\ ep[s] \in Sessions /\ Keeps(ep[s], ep[s])
        /\ (s = "client" => ~ep[s].seen)
    BY Stays DEF StreamInv, Roles, Keeps
  <1>a. ASSUME NEW command, Took(s, command), command # "psh" \/ ~ep[s].reg, wire' = Rest(s)
        PROVE  Quietly
    <2>1. wire[s] # <<>> /\ Head(wire[s]).cmd = command
      BY <1>a, TookFacts
    <2>2. QED
      BY <1>0, <1>a, <2>1, QuietWires
  <1>1. CASE ReadFails(s)
    <2>1. Quietly
      BY <1>0, <1>1, QuietWires DEF ReadFails
    <2>2. QED
      BY <1>0, <1>1, <2>1, LoopEnds DEF ReadFails
  <1>2. CASE HandleControl(s)
    <2>0. wire' = Rest(s) /\ UNCHANGED <<task, serve, reader, writer, panic>>
      BY <1>2 DEF HandleControl
    <2>1. ASSUME NEW command \in {"waste", "serverSettings", "heartResponse"},
                 Took(s, command), UNCHANGED <<ep, loop>>
          PROVE  StreamInv'
      <3>1. Quietly
        BY <1>a, <2>0, <2>1
      <3>2. ep' = [ep EXCEPT ![s] = ep[s]]
        BY <1>0, <2>1, Stays
      <3>3. QED
        BY <1>0, <2>0, <2>1, <3>1, <3>2, LoopGoes
    <2>2. CASE Took(s, "heartRequest") /\ LoopTo(s, "heartResponse") /\ UNCHANGED ep
      <3>1. Quietly /\ loop[s].at = "read"
        BY <1>a, <2>0, <2>2, TookFacts
      <3>2. ep' = [ep EXCEPT ![s] = ep[s]]
        BY <1>0, <2>2, Stays
      <3>3. QED
        BY <1>0, <2>0, <2>2, <3>1, <3>2, LoopTurnsTo
    <2>3. CASE /\ Took(s, "settings") /\ LoopTo(s, "serverSettings")
               /\ ep' = [ep EXCEPT ![s].seen = TRUE]
      <3>1. PICK e \in Sessions :
              /\ e = [ep[s] EXCEPT !.seen = TRUE] /\ Keeps(ep[s], e)
              /\ e.sent = ep[s].sent /\ e.open = ep[s].open
        BY <1>0, SeenAssigned DEF Keeps
      <3>2. s # "client"
        <4>1. wire[s] \in Seq(Frames) /\ wire[s] # <<>> /\ Head(wire[s]).cmd = "settings"
          BY <2>3, TookFacts
        <4>2. No(wire["client"], {"settings"})
          BY <1>0 DEF Roles
        <4>3. s = "client" => Head(wire[s]).cmd \notin {"settings"}
          BY <4>1, <4>2, NoneJoins, Zenon
        <4>4. QED
          BY <4>1, <4>3
      <3>3. Quietly /\ loop[s].at = "read"
        BY <1>a, <2>0, <2>3, TookFacts
      <3>4. QED
        BY <2>0, <2>3, <3>1, <3>2, <3>3, LoopTurnsTo
    <2>4. QED
      BY <1>2, <2>1, <2>2, <2>3 DEF HandleControl
  <1>3. CASE HandleBad(s)
    <2>1. PICK command \in {"alert", "unknown"} : Took(s, command)
      BY <1>3 DEF HandleBad
    <2>2. Quietly /\ loop[s].at = "read"
      BY <1>3, <1>a, <2>1, TookFacts DEF HandleBad
    <2>3. QED
      BY <1>0, <1>3, <2>2, LoopEnds DEF HandleBad
  <1>4. CASE HandleSyn(s)
    <2>1. CASE ep[s].seen
      BY <1>4, <2>1, SynStep
    <2>2. CASE ~ep[s].seen
      <3>1. loop[s].at = "read" /\ LoopTo(s, "alert") /\ UNCHANGED ep
        BY <1>4, <2>2, TookFacts DEF HandleSyn
      <3>2. Quietly /\ UNCHANGED <<task, serve, reader, writer, panic>>
        BY <1>4, <1>a DEF HandleSyn
      <3>3. ep' = [ep EXCEPT ![s] = ep[s]]
        BY <1>0, <3>1, Stays
      <3>4. QED
        BY <1>0, <3>1, <3>2, <3>3, LoopTurnsTo
    <2>3. QED
      BY <2>1, <2>2
  <1>5. CASE HandleSynAck(s)
    <2>1. Quietly
      BY <1>5, <1>a DEF HandleSynAck
    <2>2. PICK a \in {"none", "wait", "ok", "refused", "gone"} :
            ep' = [ep EXCEPT ![s].ack = a]
      <3>1. ep[s].ack \in {"none", "wait", "ok", "refused", "gone"}
        BY <1>0 DEF Sessions
      <3>2. PICK a \in {"none", "wait", "ok", "refused", "gone"} :
              a = IF ep[s].ack # "wait" THEN ep[s].ack
                  ELSE IF Head(wire[s]).data = 0 THEN "ok" ELSE "refused"
        BY <3>1
      <3>3. QED
        BY <1>5, <3>2 DEF HandleSynAck
    <2>3. PICK d \in Sessions :
            /\ d = [ep[s] EXCEPT !.ack = a] /\ Keeps(ep[s], d)
            /\ d.seen = ep[s].seen /\ d.sent = ep[s].sent /\ d.open = ep[s].open
      BY <1>0, AckAssigned DEF Keeps
    <2>4. QED
      BY <1>0, <1>5, <2>1, <2>2, <2>3, LoopGoes DEF HandleSynAck
  <1>6. CASE HandlePsh(s)
    <2>1. CASE ep[s].reg
      BY <1>6, <2>1, PshStep
    <2>2. CASE ~ep[s].reg
      <3>1. Quietly
        BY <1>6, <1>a, <2>2 DEF HandlePsh
      <3>2. loop' = [loop EXCEPT ![s] = loop[s]] /\ ep' = ep
        BY <1>6, <2>2 DEF HandlePsh
      <3>3. loop' = loop /\ ep' = [ep EXCEPT ![s] = ep[s]]
        BY <1>0, <3>2, Stays DEF TypeOK
      <3>4. QED
        BY <1>0, <1>6, <3>1, <3>3, LoopGoes DEF HandlePsh
    <2>3. QED
      BY <2>1, <2>2
  <1>7. CASE HandleFin(s)
    <2>1. CASE ep[s].reg
      BY <1>7, <2>1, FinStep
    <2>2. CASE ~ep[s].reg
      <3>1. Quietly
        BY <1>7, <1>a DEF HandleFin
      <3>2. ep' = [ep EXCEPT ![s] = ep[s]]
        BY <1>7, <2>2 DEF HandleFin
      <3>3. QED
        BY <1>0, <1>7, <3>1, <3>2, LoopGoes DEF HandleFin
    <2>3. QED
      BY <2>1, <2>2
  <1>8. CASE Push(s)
    BY <1>8, PushStep
  <1>9. CASE Answer(s)
    BY <1>9, AnswerStep
  <1>10. QED
    BY <1>1, <1>2, <1>3, <1>4, <1>5, <1>6, <1>7, <1>8, <1>9 DEF readLoop

(* A foreign frame, and a break of the connection.                         *)
LEMMA WorldSteps ==
    ASSUME StreamInv, Break \/ \E s \in Sides : Extra(s)
    PROVE  StreamInv'
  <1>1. PICK s \in Sides : Break \/ Extra(s)
    BY Sidewise
  <1>2. /\ TypeOK /\ Roles /\ ep[s] \in Sessions /\ Keeps(ep[s], ep[s])
        /\ (s = "client" => ~ep[s].seen) /\ Peer(s) \in Sides /\ Peer(s) # s
        /\ wire[s] \in Seq(Frames) /\ \A x \in Sides : x = s \/ x = Peer(s)
    BY Sidewise, Stays DEF StreamInv, Roles, Keeps
  <1>3. /\ loop' = loop /\ ep' = [ep EXCEPT ![s] = ep[s]]
        /\ UNCHANGED <<task, serve, reader, writer, panic>>
    BY <1>1, <1>2, Stays DEF Break, Extra
  <1>4. Quietly
    <2>1. CASE Break
      BY <1>2, <2>1, QuietWires DEF Break
    <2>2. CASE Extra(s)
      <3>1. PICK c \in {"waste", "heartRequest", "unknown", "syn"} :
              /\ c = "syn" => s = "client"
              /\ wire' = [wire EXCEPT ![s] = Append(@, frame(c, 0))]
        BY <2>2 DEF Extra
      <3>2. PICK f \in Frames : f = frame(c, 0) /\ f.cmd = c
        <4>1. c \in Commands /\ 0 \in Nat
          BY DEF Commands
        <4>2. QED
          BY <4>1, FrameType
      <3>3. Append(wire[s], f) \in Seq(Frames)
        BY <1>2
      <3>4. /\ wire' \in [Sides -> Seq(Frames)] /\ wire'[s] = Append(wire[s], f)
            /\ wire'[Peer(s)] = wire[Peer(s)]
        BY <1>2, <3>1, <3>2, <3>3 DEF TypeOK
      <3>5. Wired(s) /\ Wired(Peer(s))
        BY <3>1, <3>2, <3>4 DEF Wired
      <3>6. QED
        BY <1>2, <3>4, <3>5 DEF Quietly
    <2>3. QED
      BY <1>1, <2>1, <2>2
  <1>5. QED
    BY <1>2, <1>3, <1>4, LoopGoes

-----------------------------------------------------------------------------
(* The theorems                                                            *)

(* The invariant holds initially.                                          *)
LEMMA InitStream ==
    ASSUME Init
    PROVE  StreamInv
  <1>1. PICK e \in Sessions :
          /\ e = newSession /\ Untouched(e) /\ ~e.done /\ ~e.seen /\ e.open
    <2>1. newSession \in Sessions
      BY DEF newSession, Sessions
    <2>2. Untouched(newSession) /\ ~newSession.done /\ ~newSession.seen /\ newSession.open
      BY DEF newSession, Untouched
    <2>3. QED
      BY <2>1, <2>2
  <1>2. PICK l \in Loops : l = [at |-> "none", data |-> 0] /\ l.at = "none"
    <2>1. [at |-> "none", data |-> 0] \in Loops
      BY DEF Loops, Places
    <2>2. QED
      BY <2>1
  <1>3. \A s \in Sides : /\ ep[s] = e /\ loop[s] = l /\ wire[s] = <<>>
                         /\ reader[s] = "none" /\ writer[s] = "none"
                         /\ task[s] = IF s = "client" THEN "dial" ELSE "none"
    BY <1>1, <1>2 DEF Init
  <1>4. TypeOK
    <2>1. <<>> \in Seq(Frames)
      OBVIOUS
    <2>2. QED
      BY <1>1, <1>2, <2>1 DEF Init, TypeOK, Readers, Writers, Tasks
  <1>5. \A s \in Sides : No(wire[s], {"psh", "fin"}) /\ DOMAIN wire[s] = {}
    BY <1>3 DEF No
  <1>6. Roles
    BY <1>1, <1>2, <1>3, <1>5, Sidewise DEF Roles, Untouched, No
  <1>7. Opening
    BY <1>1, <1>2, <1>3, <1>5, Sidewise DEF Opening, No
  <1>8. SynFirst(wire["server"])
    BY <1>5, Sidewise DEF SynFirst
  <1>9. ASSUME NEW s \in Sides PROVE Direction(s)
    <2>1. Dir(e, l, wire[s], 0, Over(Peer(s)), Expects(s))
      BY <1>1, <1>2, <1>5, DirFresh DEF Untouched
    <2>2. ep[Peer(s)].sent = 0
      BY <1>1, <1>3, Sidewise DEF Untouched
    <2>3. QED
      BY <1>3, <2>1, <2>2 DEF Direction
  <1>a. QED
    BY <1>4, <1>6, <1>7, <1>8, <1>9 DEF StreamInv, Init

(* Every step keeps it.                                                    *)
LEMMA NextStream ==
    ASSUME StreamInv, [Next]_vars
    PROVE  StreamInv'
  <1>1. CASE UNCHANGED vars
    <2>1. TypeOK'
      BY <1>1 DEF StreamInv, TypeOK, vars
    <2>2. Quietly
      BY <1>1, Sidewise, QuietWires DEF StreamInv, vars
    <2>3. /\ loop' = loop /\ ep' = [ep EXCEPT !["client"] = ep["client"]]
          /\ UNCHANGED <<task, serve, reader, writer, panic>>
      BY <1>1, Sidewise, Stays DEF StreamInv, vars
    <2>4. ep["client"] \in Sessions /\ ~ep["client"].seen
      BY Sidewise, Stays DEF StreamInv, Roles
    <2>5. Keeps(ep["client"], ep["client"])
      BY <2>4 DEF Keeps
    <2>6. QED
      BY <2>2, <2>3, <2>4, <2>5, Sidewise, LoopGoes
  <1>2. CASE Steps
    BY <1>2, DialSteps, ListenerSteps, RelaySteps, LoopSteps DEF Steps
  <1>3. CASE Break \/ \E s \in Sides : Extra(s)
    BY <1>3, WorldSteps
  <1>4. QED
    BY <1>1, <1>2, <1>3 DEF Next

(* The goroutines of both sides keep the streams' invariant: SYN before    *)
(* data before FIN on the wire, the pieces of each direction numbered      *)
(* through from what was read to what is on its way.                       *)
THEOREM StreamInvariant == Spec => []StreamInv
  <1>1. Init => StreamInv
    BY InitStream
  <1>2. StreamInv /\ [Next]_vars => StreamInv'
    BY NextStream
  <1>3. QED
    BY <1>1, <1>2, PTL DEF Spec

(* readLoop never sends on a stream.in that was closed, whatever the load  *)
(* and the buffer: a stream it sends to is known or was when its data was  *)
(* taken, and only readLoop itself closes the stream.in of a known one     *)
(* (session.go:216, stream.go:80).                                         *)
THEOREM NoSendOnClosedHolds == Spec => []NoSendOnClosed
  <1>1. StreamInv => NoSendOnClosed
    BY DEF StreamInv, NoSendOnClosed
  <1>2. QED
    BY <1>1, StreamInvariant, PTL

(* For every buffer, load and number of foreign frames, a stream reads a   *)
(* prefix of what the peer wrote, and all of it before the end of file     *)
(* that a FIN caused (stream.go:30, session.go:175).                       *)
THEOREM ReadsWhatWasWrittenHolds == Spec => []ReadsWhatWasWritten
  <1>1. StreamInv => ReadsWhatWasWritten
    <2>1. SUFFICES ASSUME StreamInv, NEW s \in Sides
                   PROVE  /\ \A i \in 1 .. Len(ep[s].got) : ep[s].got[i] = i
                          /\ Len(ep[s].got) <= ep[Peer(s)].sent
                          /\ reader[s] = "eof" /\ ep[s].eof = "fin" =>
                                Len(ep[s].got) = ep[Peer(s)].sent
      BY DEF ReadsWhatWasWritten
    <2>2. ep[s] \in Sessions /\ loop[s] \in Loops /\ ep[Peer(s)].sent \in Nat
      BY <2>1, Sidewise, Stays DEF StreamInv, Sessions
    <2>3. PICK g \in Nat, b \in Nat, n \in Nat :
            g = Len(ep[s].got) /\ b = Len(ep[s].in) /\ n = ep[Peer(s)].sent
      BY <2>2, PiecesNat
    <2>4. /\ \A i \in 1 .. Len(ep[s].got) : ep[s].got[i] = i
          /\ Pieces(ep[s], loop[s]) <= n
          /\ ep[s].eof = "fin" => Len(ep[s].got) + Len(ep[s].in) = n
          /\ reader[s] = "eof" => ep[s].in = <<>>
      BY <2>1, <2>3 DEF StreamInv, Direction, Dir, Numbered, Ending, Roles
    <2>5. g <= n
      <3>1. Pieces(ep[s], loop[s]) = g + b \/ Pieces(ep[s], loop[s]) = g + b + 1
        BY <2>2, <2>3, PiecesNat
      <3>2. g + b <= n \/ g + b + 1 <= n
        BY <2>4, <3>1
      <3>3. QED
        BY <3>2
    <2>6. ASSUME reader[s] = "eof", ep[s].eof = "fin" PROVE g = n
      <3>1. b = 0 /\ g + b = n
        BY <2>3, <2>4, <2>6
      <3>2. QED
        BY <3>1
    <2>7. QED
      BY <2>3, <2>4, <2>5, <2>6
  <1>2. QED
    BY <1>1, StreamInvariant, PTL

=============================================================================
