----------------------------- MODULE SmuxProofs -----------------------------
(***************************************************************************)
(* Proofs about a session, for every number of streams, all sizes of       *)
(* frames, buffers and windows, and any number of events.                  *)
(***************************************************************************)
EXTENDS Smux, FiniteSetTheorems, TLAPS

-----------------------------------------------------------------------------
(* Types.                                                                  *)

Bytes == [at : Nat, last : BOOLEAN]
Vers  == {1, 2}

Nops == [ver : Vers, cmd : {"NOP"}, sid : {0}, data : {<<>>}]
Syns == [ver : Vers, cmd : {"SYN"}, sid : Sids, data : {<<>>}]
Fins == [ver : Vers, cmd : {"FIN"}, sid : Sids, data : {<<>>}]
Pshs == [ver : Vers, cmd : {"PSH"}, sid : Sids,
         data : {d \in Seq(Bytes) : Len(d) \in 1 .. FrameSize}]
Upds == [ver : Vers, cmd : {"UPD"}, sid : Sids,
         data : (0 .. CountSpace - 1) \X {StreamBuffer}]

\* What a side sends: only the client opens streams.
CtrlFrames(p) == Nops \cup Upds \cup (IF p = "client" THEN Syns ELSE {})
DataFrames    == Pshs \cup Fins
Frames(p)     == CtrlFrames(p) \cup DataFrames

StreamType ==
    [reg : BOOLEAN, buf : Seq(Bytes), fin : BOOLEAN, die : BOOLEAN, event : BOOLEAN,
     update : BOOLEAN, deadline : BOOLEAN, numRead : 0 .. CountSpace - 1,
     numWritten : 0 .. CountSpace - 1, incr : Nat, consumed : 0 .. CountSpace - 1,
     window : {InitialWindow, StreamBuffer}]

Outs == {"", "eof", "closed", "ok", "consumed", "error"}

WriterType ==
    [pc : {"off", "start", "frame", "window", "sending", "end"}, next : Nat \ {0},
     chunk : Nat, n : Nat, out : Outs]

ReaderType ==
    [pc : {"off", "try", "taken", "updating", "wait", "end"}, n : Nat,
     notify : BOOLEAN, armed : BOOLEAN, out : {"", "error", "timeout", "closed", "EOF"}]

\* One value for each stream of each side.
Table(T) == [Sides -> [Sids -> T]]

Set2(f, p, i, v) == [f EXCEPT ![p][i] = v]

LEMMA Set2Facts ==
    ASSUME NEW T, NEW f \in Table(T), NEW p \in Sides, NEW i \in Sids, NEW v \in T
    PROVE  /\ Set2(f, p, i, v) \in Table(T)
           /\ Set2(f, p, i, v)[p][i] = v
           /\ \A q \in Sides, j \in Sids :
                 q # p \/ j # i => Set2(f, p, i, v)[q][j] = f[q][j]
  BY DEF Set2, Table

LEMMA Set2Same ==
    ASSUME NEW T, NEW f \in Table(T), NEW p \in Sides, NEW i \in Sids
    PROVE  Set2(f, p, i, f[p][i]) = f
  BY DEF Set2, Table

HeapType(h) ==
    /\ h \in [Sides -> [Classes -> Seq(Frames("client"))]]
    /\ \A p \in Sides : h[p][CTRL] \in Seq(CtrlFrames(p)) /\ h[p][DATA] \in Seq(DataFrames)

CallType == [Sides -> [Callers -> {"none", "sent", "ok", "failed"}]]

WireType(w) ==
    /\ DOMAIN w = Sides
    /\ \A p \in Sides : w[p] \in Seq(Frames(Peer(p)))

Tables ==
    /\ strm \in Table(StreamType)
    /\ wr \in Table(WriterType) /\ rd \in Table(ReaderType)
    /\ cl \in Table({"off", "sending", "end"})
    /\ got \in Table(Seq(Nat))

Types ==
    /\ ver \in [Sides -> Vers] /\ toWrite \in [Sides -> Nat]
    /\ closed \in [Sides -> BOOLEAN]
    /\ errs \in [Sides -> SUBSET {"read", "write", "proto"}]
    /\ recv \in [Sides -> {"run", "end"}]
    /\ bucket \in [Sides -> Int]
    /\ nextID \in Nat
    /\ HeapType(heap)
    /\ call \in CallType
    /\ WireType(wire)
    /\ accepts \in Seq(Sids)
    /\ Tables

-----------------------------------------------------------------------------
(* The ids of streams.                                                     *)

Is(f, cmd, i)  == f.cmd = cmd /\ f.sid = i
Has(s, cmd, i) == \E a \in 1 .. Len(s) : Is(s[a], cmd, i)

\* The users of a stream have not begun.
Unused(p, i) == wr[p][i] = Writer /\ rd[p][i] = Reader /\ cl[p][i] = "off" /\ got[p][i] = <<>>

\* The server has not met the stream.
Unseen(i) ==
    /\ Unused("server", i)
    /\ strm["server"][i] = Stream
    /\ \A a \in 1 .. Len(accepts) : accepts[a] # i

\* No stream is opened twice in s.
Once(s) == \A a, b \in 1 .. Len(s) :
    s[a].cmd = "SYN" /\ s[b].cmd = "SYN" /\ s[a].sid = s[b].sid => a = b

\* The ids still to come.
Future(i) == ~goAway /\ i > nextID

Ids ==
    /\ Once(wire["server"]) /\ Once(heap["client"][CTRL])
    /\ \A i \in Sids : ~(Has(wire["server"], "SYN", i) /\ Has(heap["client"][CTRL], "SYN", i))
    /\ \A i \in Sids : Has(wire["server"], "SYN", i) \/ Has(heap["client"][CTRL], "SYN", i)
                           => ~Future(i) /\ Unseen(i)
    /\ \A i \in Sids : Future(i) => Unused("client", i) /\ strm["client"][i] = Stream /\ Unseen(i)
    /\ dial.pc = "syn" => /\ ~Future(dial.sid)
                          /\ Unused("client", dial.sid) /\ strm["client"][dial.sid] = Stream
    /\ \A a \in 1 .. Len(accepts) : Unused("server", accepts[a])
    /\ \A a, b \in 1 .. Len(accepts) : accepts[a] = accepts[b] => a = b

-----------------------------------------------------------------------------
(* The users of a stream.                                                  *)

WriterOK(p, i) ==
    LET w == wr[p][i] IN
    /\ w.next - 1 + w.chunk <= toWrite[p]
    /\ w.pc = "sending" => w.n \in 1 .. w.chunk /\ w.n <= FrameSize
    /\ w.pc \notin {"sending", "end"} => w.n = 0
    /\ w.pc \in {"frame", "window"} => w.next <= toWrite[p]
    /\ w.pc \in {"off", "start"} => w.next = 1 /\ w.chunk = 0
    /\ w.pc = "end" /\ ~Broken(p) => w.n = 0

UsersOK(p, i) ==
    /\ cl[p][i] # "off" => wr[p][i].pc = "end" /\ rd[p][i].pc = "end"
    /\ rd[p][i].out = "EOF" => rd[p][i].pc = "end"
    /\ rd[p][i].notify => ver[p] = 2
    /\ ~strm[p][i].reg => strm[p][i].buf = <<>>

DialOK ==
    /\ ~goAway => nextID = 1 \/ nextID \in Sids
    /\ dial.pc = "syn" => dial.sid \in Sids

CallsOK == \A p \in Sides, w \in Callers : call[p][w] = "failed" => "write" \in errs[p]

\* What holds of the users and their calls, besides the types.
Core ==
    /\ Types /\ CallsOK /\ DialOK
    /\ \A p \in Sides, i \in Sids : WriterOK(p, i) /\ UsersOK(p, i)

-----------------------------------------------------------------------------
(* Queues.                                                                 *)

\* What a side may hand in of a class.
Class(p, c) == IF c = CTRL THEN CtrlFrames(p) ELSE DataFrames

HeapPut(h, p, c, a) == [h EXCEPT ![p][c] = a]

LEMMA HeapSet ==
    ASSUME NEW h, HeapType(h), NEW p \in Sides, NEW c \in Classes, NEW a \in Seq(Class(p, c))
    PROVE  /\ HeapType(HeapPut(h, p, c, a))
           /\ HeapPut(h, p, c, a)[p][c] = a
           /\ \A q \in Sides, d \in Classes : q # p \/ d # c => HeapPut(h, p, c, a)[q][d] = h[q][d]
  <1>1. Class(p, c) \subseteq Frames("client")
    BY DEF Frames, CtrlFrames, Class
  <1>2. a \in Seq(Frames("client"))
    BY <1>1
  <1>3. CTRL # DATA /\ Classes = {CTRL, DATA}
    BY DEF CTRL, DATA, Classes
  <1> DEFINE k == [h EXCEPT ![p][c] = a]
  <1>5. /\ k \in [Sides -> [Classes -> Seq(Frames("client"))]]
        /\ k[p][c] = a
        /\ \A q \in Sides, d \in Classes : q # p \/ d # c => k[q][d] = h[q][d]
    BY <1>2 DEF HeapType
  <1> HIDE DEF k
  <1>6. ASSUME NEW q \in Sides, NEW d \in Classes PROVE k[q][d] \in Seq(Class(q, d))
    <2>1. h[q][d] \in Seq(Class(q, d))
      BY <1>3 DEF HeapType, Class
    <2>2. CASE q = p /\ d = c
      BY <1>5, <2>2
    <2>3. CASE q # p \/ d # c
      BY <1>5, <2>1, <2>3
    <2>4. QED
      BY <2>2, <2>3
  <1>7. \A q \in Sides : k[q][CTRL] \in Seq(CtrlFrames(q)) /\ k[q][DATA] \in Seq(DataFrames)
    BY <1>3, <1>6 DEF Class
  <1>8. HeapType(k)
    BY <1>5, <1>7 DEF HeapType
  <1>9. QED
    BY <1>5, <1>8 DEF k, HeapPut

\* The queue of a class has frames of the class.
LEMMA HeapClass ==
    ASSUME NEW h, HeapType(h), NEW p \in Sides, NEW c \in Classes
    PROVE  h[p][c] \in Seq(Class(p, c))
  BY DEF HeapType, Class, Classes

LEMMA HeapAppend ==
    ASSUME NEW h, HeapType(h), NEW p \in Sides, NEW c \in Classes, NEW f \in Class(p, c)
    PROVE  /\ HeapType(HeapPut(h, p, c, Append(h[p][c], f)))
           /\ HeapPut(h, p, c, Append(h[p][c], f))[p][c] = Append(h[p][c], f)
           /\ \A q \in Sides, d \in Classes :
                 q # p \/ d # c => HeapPut(h, p, c, Append(h[p][c], f))[q][d] = h[q][d]
  <1> DEFINE a == Append(h[p][c], f)
  <1>1. a \in Seq(Class(p, c))
    BY HeapClass
  <1> HIDE DEF a
  <1>2. /\ HeapType(HeapPut(h, p, c, a))
        /\ HeapPut(h, p, c, a)[p][c] = a
        /\ \A q \in Sides, d \in Classes : q # p \/ d # c => HeapPut(h, p, c, a)[q][d] = h[q][d]
    BY <1>1, HeapSet
  <1>3. QED
    BY <1>2 DEF a

LEMMA HeapTail ==
    ASSUME NEW h, HeapType(h), NEW p \in Sides, NEW c \in Classes, h[p][c] # <<>>
    PROVE  /\ HeapType(HeapPut(h, p, c, Tail(h[p][c])))
           /\ HeapPut(h, p, c, Tail(h[p][c]))[p][c] = Tail(h[p][c])
           /\ \A q \in Sides, d \in Classes :
                 q # p \/ d # c => HeapPut(h, p, c, Tail(h[p][c]))[q][d] = h[q][d]
  <1> DEFINE a == Tail(h[p][c])
  <1>1. a \in Seq(Class(p, c))
    BY HeapClass
  <1> HIDE DEF a
  <1>2. /\ HeapType(HeapPut(h, p, c, a))
        /\ HeapPut(h, p, c, a)[p][c] = a
        /\ \A q \in Sides, d \in Classes : q # p \/ d # c => HeapPut(h, p, c, a)[q][d] = h[q][d]
    BY <1>1, HeapSet
  <1>3. QED
    BY <1>2 DEF a

\* The frame that is sent next, and its class.
LEMMA HeapHead ==
    ASSUME NEW h, HeapType(h), NEW p \in Sides, NEW c \in Classes, h[p][c] # <<>>
    PROVE  Head(h[p][c]) \in Class(p, c) /\ Head(h[p][c]) \in Frames(p)
  <1>1. h[p][c] \in Seq(Class(p, c))
    BY DEF HeapType, Class, Classes
  <1>2. Class(p, c) \subseteq Frames(p)
    BY DEF Class, Frames
  <1>3. QED
    BY <1>1, <1>2

WirePut(w, p, a) == [w EXCEPT ![p] = a]

LEMMA WireTail ==
    ASSUME NEW w, WireType(w), NEW p \in Sides, w[p] # <<>>
    PROVE  /\ WireType(WirePut(w, p, Tail(w[p])))
           /\ WirePut(w, p, Tail(w[p]))[p] = Tail(w[p])
           /\ Head(w[p]) \in Frames(Peer(p))
           /\ \A q \in Sides : q # p => WirePut(w, p, Tail(w[p]))[q] = w[q]
  BY DEF WireType, WirePut

LEMMA WireAppend ==
    ASSUME NEW w, WireType(w), NEW p \in Sides, NEW f \in Frames(Peer(p))
    PROVE  /\ WireType(WirePut(w, p, Append(w[p], f)))
           /\ WirePut(w, p, Append(w[p], f))[p] = Append(w[p], f)
           /\ \A q \in Sides : q # p => WirePut(w, p, Append(w[p], f))[q] = w[q]
  BY DEF WireType, WirePut

LEMMA Peers ==
    \A p \in Sides : /\ Peer(p) \in Sides /\ Peer(p) # p /\ Peer(Peer(p)) = p
                     /\ \A q \in Sides : q = p \/ q = Peer(p)
  BY DEF Sides, Peer

\* The callers of frames.
LEMMA CallerOf ==
    ASSUME NEW p \in Sides, NEW f \in Frames(p)
    PROVE  Caller(f) \in Callers
  BY DEF Frames, CtrlFrames, DataFrames, Nops, Upds, Syns, Pshs, Fins, Caller, Callers

-----------------------------------------------------------------------------
(* What the steps do.                                                      *)

\* Only the stream i of side p changes.
Only(f, g, p, i) == \A q \in Sides, j \in Sids : q # p \/ j # i => g[q][j] = f[q][j]

\* What is left alone by a deadline, by a signal and by the end of the session.
Alike(s, t) ==
    /\ t.reg = s.reg /\ t.buf = s.buf /\ t.fin = s.fin
    /\ t.numRead = s.numRead /\ t.numWritten = s.numWritten
    /\ t.consumed = s.consumed /\ t.window = s.window

\* A user of stream i of side p.
UserStep(p, i) ==
    /\ Tables'
    /\ Only(strm, strm', p, i) /\ Only(wr, wr', p, i) /\ Only(rd, rd', p, i)
    /\ Only(cl, cl', p, i) /\ Only(got, got', p, i)
    /\ UNCHANGED <<ver, toWrite, closed, errs, recv, wire, accepts, nextID, goAway, dial>>

\* No result arrives.
Calm == call' \in CallType /\ \A q \in Sides, w \in Callers : call'[q][w] \in {call[q][w], "none", "sent"}

\* Nothing is handed in.
Quiet == heap' = heap /\ Calm

\* The frame f is handed in.
Asked(p, c, f) ==
    /\ f \in Class(p, c)
    /\ HeapType(heap')
    /\ heap'[p][c] = Append(heap[p][c], f)
    /\ \A q \in Sides, d \in Classes : q # p \/ d # c => heap'[q][d] = heap[q][d]
    /\ Calm

LEMMA CallEnds ==
    ASSUME Types, NEW p \in Sides, NEW who \in Callers, CallEnd(p, who)
    PROVE  Calm
  BY DEF Types, CallType, CallEnd, Calm

LEMMA CallSame ==
    ASSUME Types, call' = call
    PROVE  Calm
  BY DEF Types, CallType, Calm

LEMMA Submits ==
    ASSUME Types, NEW p \in Sides, NEW c \in Classes, NEW f \in Class(p, c), Submit(p, c, f)
    PROVE  Asked(p, c, f)
  <1>1. HeapType(heap)
    BY DEF Types
  <1>2. heap' = HeapPut(heap, p, c, Append(heap[p][c], f))
    BY <1>1 DEF Submit, HeapPut, HeapType
  <1>3. f \in Frames(p)
    BY DEF Class, Frames
  <1>4. Caller(f) \in Callers
    BY <1>3, CallerOf
  <1>5. Calm
    BY <1>4 DEF Submit, Types, CallType, Calm
  <1>6. QED
    BY <1>1, <1>2, <1>5, HeapAppend DEF Asked

\* The stream of a Write.
Writing(p, i) == UserStep(p, i) /\ UNCHANGED <<rd, cl, got, bucket>>

LEMMA Constants ==
    /\ FrameSize \in Nat \ {0} /\ ReceiveBuffer \in Nat \ {0} /\ StreamBuffer \in Nat \ {0}
    /\ CountSpace \in Nat \ {0} /\ InitialWindow \in Nat /\ IdSpace \in Nat \ {0}
    /\ Sids \subseteq Nat
  BY SmuxAssumption DEF Sids

LEMMA StepFacts ==
    ASSUME Types, NEW p \in Sides, NEW i \in Sids,
           NEW s \in StreamType, NEW w \in WriterType, NEW r \in ReaderType,
           NEW c \in {"off", "sending", "end"}, NEW g \in Seq(Nat),
           strm' = Set2(strm, p, i, s), wr' = Set2(wr, p, i, w), rd' = Set2(rd, p, i, r),
           cl' = Set2(cl, p, i, c), got' = Set2(got, p, i, g),
           UNCHANGED <<ver, toWrite, closed, errs, recv, wire, accepts, nextID, goAway, dial>>
    PROVE  /\ UserStep(p, i)
           /\ strm'[p][i] = s /\ wr'[p][i] = w /\ rd'[p][i] = r /\ cl'[p][i] = c /\ got'[p][i] = g
  <1>1. Tables
    BY DEF Types
  <1>2. strm' \in Table(StreamType) /\ strm'[p][i] = s /\ Only(strm, strm', p, i)
    BY <1>1, Set2Facts DEF Only, Tables
  <1>3. wr' \in Table(WriterType) /\ wr'[p][i] = w /\ Only(wr, wr', p, i)
    BY <1>1, Set2Facts DEF Only, Tables
  <1>4. rd' \in Table(ReaderType) /\ rd'[p][i] = r /\ Only(rd, rd', p, i)
    BY <1>1, Set2Facts DEF Only, Tables
  <1>5. cl' \in Table({"off", "sending", "end"}) /\ cl'[p][i] = c /\ Only(cl, cl', p, i)
    BY <1>1, Set2Facts DEF Only, Tables
  <1>6. got' \in Table(Seq(Nat)) /\ got'[p][i] = g /\ Only(got, got', p, i)
    BY <1>1, Set2Facts DEF Only, Tables
  <1>7. QED
    BY <1>2, <1>3, <1>4, <1>5, <1>6 DEF UserStep, Tables

\* A table that is left alone.
LEMMA SameTables ==
    ASSUME Types, NEW p \in Sides, NEW i \in Sids
    PROVE  /\ strm[p][i] \in StreamType /\ wr[p][i] \in WriterType /\ rd[p][i] \in ReaderType
           /\ cl[p][i] \in {"off", "sending", "end"} /\ got[p][i] \in Seq(Nat)
           /\ Set2(strm, p, i, strm[p][i]) = strm /\ Set2(wr, p, i, wr[p][i]) = wr
           /\ Set2(rd, p, i, rd[p][i]) = rd /\ Set2(cl, p, i, cl[p][i]) = cl
           /\ Set2(got, p, i, got[p][i]) = got
  <1>1. /\ strm \in Table(StreamType) /\ wr \in Table(WriterType) /\ rd \in Table(ReaderType)
        /\ cl \in Table({"off", "sending", "end"}) /\ got \in Table(Seq(Nat))
    BY DEF Types, Tables
  <1>2. /\ strm[p][i] \in StreamType /\ wr[p][i] \in WriterType /\ rd[p][i] \in ReaderType
        /\ cl[p][i] \in {"off", "sending", "end"} /\ got[p][i] \in Seq(Nat)
    BY <1>1 DEF Table
  <1>3. Set2(strm, p, i, strm[p][i]) = strm /\ Set2(wr, p, i, wr[p][i]) = wr
    BY <1>1, Set2Same
  <1>4. Set2(rd, p, i, rd[p][i]) = rd /\ Set2(cl, p, i, cl[p][i]) = cl
    BY <1>1, Set2Same
  <1>5. Set2(got, p, i, got[p][i]) = got
    BY <1>1, Set2Same
  <1>6. QED
    BY <1>2, <1>3, <1>4, <1>5

LEMMA WriterStep ==
    ASSUME Types, NEW p \in Sides, NEW i \in Sids,
           NEW s \in StreamType, NEW w \in WriterType,
           strm' = Set2(strm, p, i, s), wr' = Set2(wr, p, i, w), UNCHANGED writeRest
    PROVE  Writing(p, i) /\ strm'[p][i] = s /\ wr'[p][i] = w
  <1>1. rd' = Set2(rd, p, i, rd[p][i]) /\ cl' = Set2(cl, p, i, cl[p][i])
        /\ got' = Set2(got, p, i, got[p][i])
    BY SameTables DEF writeRest
  <1>2. UNCHANGED <<ver, toWrite, closed, errs, recv, wire, accepts, nextID, goAway, dial,
                    rd, cl, got, bucket>>
    BY DEF writeRest, conf, sessVars, openVars
  <1>3. UserStep(p, i) /\ strm'[p][i] = s /\ wr'[p][i] = w
    BY <1>1, <1>2, StepFacts, SameTables
  <1>4. QED
    BY <1>2, <1>3 DEF Writing

\* Between the frames.
WriterMoves(p, i, pc, out) ==
    /\ Writing(p, i) /\ Quiet
    /\ Alike(strm[p][i], strm'[p][i])
    /\ wr'[p][i].pc = pc /\ wr'[p][i].out = out
    /\ wr'[p][i].next = wr[p][i].next /\ wr'[p][i].chunk = wr[p][i].chunk
    /\ wr'[p][i].n = wr[p][i].n

LEMMA WriterEndFacts ==
    ASSUME Types, NEW p \in Sides, NEW i \in Sids,
           NEW out \in {"eof", "closed", "ok", "consumed", "error"},
           WriterEnd(p, i, out), Quiet, UNCHANGED writeRest
    PROVE  WriterMoves(p, i, "end", out)
  <1> DEFINE s == Deadline(strm[p][i])
             w == [wr[p][i] EXCEPT !.pc = "end", !.out = out]
  <1>1. strm \in Table(StreamType) /\ wr \in Table(WriterType)
    BY DEF Types, Tables
  <1>2. strm[p][i] \in StreamType /\ wr[p][i] \in WriterType
    BY <1>1 DEF Table
  <1>3. s \in StreamType /\ Alike(strm[p][i], s)
    BY <1>2 DEF StreamType, Deadline, Alike
  <1>4. /\ w \in WriterType /\ w.pc = "end" /\ w.out = out /\ w.next = wr[p][i].next
        /\ w.chunk = wr[p][i].chunk /\ w.n = wr[p][i].n
    BY <1>2 DEF WriterType, Outs
  <1>5. strm' = Set2(strm, p, i, s) /\ wr' = Set2(wr, p, i, w)
    BY <1>1 DEF WriterEnd, Set2, Table
  <1> HIDE DEF s, w
  <1>6. Writing(p, i) /\ strm'[p][i] = s /\ wr'[p][i] = w
    BY <1>3, <1>4, <1>5, WriterStep
  <1>7. QED
    BY <1>3, <1>4, <1>6 DEF WriterMoves

LEMMA WriterMoveFacts ==
    ASSUME Types, NEW p \in Sides, NEW i \in Sids, NEW pc \in {"frame", "window"},
           wr' = [wr EXCEPT ![p][i].pc = pc],
           strm' = strm \/ strm' = [strm EXCEPT ![p][i].update = FALSE],
           Quiet, UNCHANGED writeRest
    PROVE  WriterMoves(p, i, pc, wr[p][i].out)
  <1> DEFINE s == IF strm' = strm THEN strm[p][i] ELSE [strm[p][i] EXCEPT !.update = FALSE]
             w == [wr[p][i] EXCEPT !.pc = pc]
  <1>1. strm \in Table(StreamType) /\ wr \in Table(WriterType)
    BY DEF Types, Tables
  <1>2. strm[p][i] \in StreamType /\ wr[p][i] \in WriterType
    BY <1>1 DEF Table
  <1>3. s \in StreamType /\ Alike(strm[p][i], s)
    BY <1>2 DEF StreamType, Alike
  <1>4. /\ w \in WriterType /\ w.pc = pc /\ w.out = wr[p][i].out /\ w.next = wr[p][i].next
        /\ w.chunk = wr[p][i].chunk /\ w.n = wr[p][i].n
    BY <1>2 DEF WriterType
  <1>5. strm' = Set2(strm, p, i, s)
    BY <1>1 DEF Set2, Table
  <1>6. wr' = Set2(wr, p, i, w)
    BY <1>1 DEF Set2, Table
  <1> HIDE DEF s, w
  <1>7. Writing(p, i) /\ strm'[p][i] = s /\ wr'[p][i] = w
    BY <1>3, <1>4, <1>5, <1>6, WriterStep
  <1>8. QED
    BY <1>3, <1>4, <1>7 DEF WriterMoves

LEMMA InCallers ==
    \A i \in Sids : /\ <<"SYN", i>> \in Callers /\ <<"PSH", i>> \in Callers
                    /\ <<"UPD", i>> \in Callers /\ <<"FIN", i>> \in Callers
                    /\ <<"NOP", 0>> \in Callers
  BY DEF Callers

\* A call that fails is one of a session that is broken.
LEMMA FailedBroken ==
    ASSUME Core, NEW p \in Sides, NEW who \in Callers, CallFailed(p, who)
    PROVE  Broken(p)
  BY DEF Core, CallsOK, CallFailed, Broken

LEMMA WriteClosedFacts ==
    ASSUME Core, NEW p \in Sides, NEW i \in Sids, WriteClosed(p, i)
    PROVE  /\ wr[p][i].pc = "start"
           /\ \E out \in {"eof", "closed", "ok"} : WriterMoves(p, i, "end", out)
  <1>1. Types
    BY DEF Core
  <1>2. Quiet
    BY <1>1, CallSame DEF WriteClosed, sendVars, Quiet
  <1>3. PICK out \in {"eof", "closed", "ok"} : WriterEnd(p, i, out)
    BY DEF WriteClosed
  <1>4. WriterMoves(p, i, "end", out)
    BY <1>1, <1>2, <1>3, WriterEndFacts DEF WriteClosed
  <1>5. QED
    BY <1>4 DEF WriteClosed

LEMMA MayWriteFacts ==
    ASSUME Core, NEW p \in Sides, NEW i \in Sids, MayWrite(p, i)
    PROVE  /\ wr[p][i].pc \in {"start", "frame"}
           /\ wr[p][i].next <= toWrite[p] /\ Left(p, i) \in Nat \ {0}
           /\ wr[p][i].chunk <= Left(p, i)
  <1>1. toWrite[p] \in Nat /\ wr[p][i] \in WriterType /\ WriterOK(p, i)
    BY SameTables DEF Core, Types
  <1>2. wr[p][i].next \in Nat /\ wr[p][i].chunk \in Nat
    BY <1>1 DEF WriterType
  <1>3. wr[p][i].next - 1 + wr[p][i].chunk <= toWrite[p]
    BY <1>1 DEF WriterOK
  <1>4. CASE wr[p][i].pc = "frame"
    <2>1. wr[p][i].next <= toWrite[p]
      BY <1>1, <1>4 DEF WriterOK
    <2>2. QED
      BY <1>1, <1>2, <1>3, <1>4, <2>1 DEF Left
  <1>5. CASE wr[p][i].pc = "start" /\ Left(p, i) > 0
    BY <1>1, <1>2, <1>3, <1>5 DEF Left
  <1>6. QED
    BY <1>4, <1>5 DEF MayWrite

LEMMA WriteNoWindowFacts ==
    ASSUME Core, NEW p \in Sides, NEW i \in Sids, WriteNoWindow(p, i)
    PROVE  /\ wr[p][i].pc \in {"start", "frame"} /\ wr[p][i].next <= toWrite[p]
           /\ ver[p] = 2 /\ wr[p][i].chunk = 0
           /\ \/ Inflight(p, i) < 0 /\ WriterMoves(p, i, "end", "consumed")
              \/ ~(Inflight(p, i) < 0) /\ WriterMoves(p, i, "window", wr[p][i].out)
  <1>1. Types /\ WriterOK(p, i)
    BY DEF Core
  <1>2. Quiet
    BY <1>1, CallSame DEF WriteNoWindow, sendVars, Quiet
  <1>4. wr[p][i].pc \in {"start", "frame"} /\ wr[p][i].next <= toWrite[p]
    BY MayWriteFacts DEF WriteNoWindow
  <1>5. CASE Inflight(p, i) < 0
    <2>1. WriterEnd(p, i, "consumed") /\ UNCHANGED writeRest
      BY <1>5 DEF WriteNoWindow
    <2>2. QED
      BY <1>1, <1>2, <1>4, <1>5, <2>1, WriterEndFacts DEF WriteNoWindow
  <1>6. CASE ~(Inflight(p, i) < 0)
    <2>1. wr' = [wr EXCEPT ![p][i].pc = "window"] /\ strm' = strm /\ UNCHANGED writeRest
      BY <1>6 DEF WriteNoWindow
    <2>2. QED
      BY <1>1, <1>2, <1>4, <1>6, <2>1, WriterMoveFacts DEF WriteNoWindow
  <1>7. QED
    BY <1>5, <1>6

LEMMA WriteFailsFacts ==
    ASSUME Core, NEW p \in Sides, NEW i \in Sids, WriteFails(p, i)
    PROVE  wr[p][i].pc = "sending" /\ Broken(p) /\ WriterMoves(p, i, "end", "error")
  <1>1. Types
    BY DEF Core
  <1>2. Broken(p)
    BY FailedBroken, InCallers DEF WriteFails
  <1>3. Quiet
    BY <1>1, CallEnds, InCallers DEF WriteFails, Quiet
  <1>4. QED
    BY <1>1, <1>2, <1>3, WriterEndFacts DEF WriteFails

LEMMA WriteWaitFacts ==
    ASSUME Core, NEW p \in Sides, NEW i \in Sids, WriteWait(p, i)
    PROVE  /\ wr[p][i].pc = "window"
           /\ \/ \E out \in {"eof", "closed"} : WriterMoves(p, i, "end", out)
              \/ WriterMoves(p, i, "frame", wr[p][i].out)
  <1>1. Types
    BY DEF Core
  <1>2. Quiet
    BY <1>1, CallSame DEF WriteWait, sendVars, Quiet
  <1>3. CASE \E out \in {"eof", "closed"} : WriterEnd(p, i, out)
    <2>1. PICK out \in {"eof", "closed"} : WriterEnd(p, i, out)
      BY <1>3
    <2>2. WriterMoves(p, i, "end", out)
      BY <1>1, <1>2, <2>1, WriterEndFacts DEF WriteWait
    <2>3. QED
      BY <2>2 DEF WriteWait
  <1>4. CASE ~\E out \in {"eof", "closed"} : WriterEnd(p, i, out)
    <2>1. wr' = [wr EXCEPT ![p][i].pc = "frame"] /\ strm' = [strm EXCEPT ![p][i].update = FALSE]
      BY <1>4 DEF WriteWait
    <2>2. WriterMoves(p, i, "frame", wr[p][i].out)
      BY <1>1, <1>2, <2>1, WriterMoveFacts DEF WriteWait
    <2>3. QED
      BY <2>2 DEF WriteWait
  <1>5. QED
    BY <1>3, <1>4

Piece(next, n) == [k \in 1 .. n |-> [at |-> next + k - 1, last |-> k = n]]

LEMMA PieceFacts ==
    ASSUME NEW next \in Nat \ {0}, NEW n \in Nat
    PROVE  /\ Piece(next, n) \in Seq(Bytes) /\ Len(Piece(next, n)) = n
           /\ \A k \in 1 .. n : Piece(next, n)[k].at = next + k - 1
  BY DEF Piece, Bytes

LEMMA InflightInt ==
    ASSUME Types, NEW p \in Sides, NEW i \in Sids
    PROVE  Inflight(p, i) \in Int /\ Window(p, i) \in Int
  <1>1. strm[p][i] \in StreamType
    BY SameTables
  <1>2. /\ strm[p][i].numWritten \in Int /\ strm[p][i].consumed \in Int
        /\ strm[p][i].window \in Int
    BY <1>1, Constants DEF StreamType
  <1>3. (strm[p][i].numWritten - strm[p][i].consumed) % CountSpace \in Int
    BY <1>2, Constants
  <1>4. Inflight(p, i) \in Int
    BY <1>3, Constants DEF Inflight, Signed
  <1>5. QED
    BY <1>2, <1>4 DEF Window

\* The writer hands in its next frame.
FrameAsked(p, i) ==
    /\ wr[p][i].pc \in {"start", "frame"}
    /\ Writing(p, i) /\ strm'[p][i] = strm[p][i]
    /\ wr'[p][i].pc = "sending" /\ wr'[p][i].out = wr[p][i].out
    /\ wr'[p][i].next = wr[p][i].next
    /\ wr'[p][i].n \in 1 .. wr'[p][i].chunk /\ wr'[p][i].n <= FrameSize
    /\ wr'[p][i].next - 1 + wr'[p][i].chunk <= toWrite[p]
    /\ wr[p][i].chunk > 0 => wr'[p][i].chunk = wr[p][i].chunk
    /\ wr[p][i].chunk = 0 /\ ver[p] = 2
          => Inflight(p, i) >= 0 /\ wr'[p][i].chunk <= Window(p, i)
    /\ Asked(p, DATA, Frame(p, "PSH", i, Piece(wr[p][i].next, wr'[p][i].n)))

LEMMA WriteFrameFacts ==
    ASSUME Core, NEW p \in Sides, NEW i \in Sids, WriteFrame(p, i)
    PROVE  FrameAsked(p, i)
  <1> DEFINE c == Chunk(p, i)
             n == Smaller(c, FrameSize)
             w == [wr[p][i] EXCEPT !.pc = "sending", !.n = n, !.chunk = c]
             f == Frame(p, "PSH", i, Piece(wr[p][i].next, n))
  <1>1. Types /\ MayWrite(p, i)
    BY DEF Core, WriteFrame
  <1>2. /\ wr[p][i].pc \in {"start", "frame"} /\ Left(p, i) \in Nat \ {0}
        /\ wr[p][i].chunk <= Left(p, i)
    BY <1>1, MayWriteFacts
  <1>3. /\ wr[p][i] \in WriterType /\ wr[p][i].chunk \in Nat /\ wr[p][i].next \in Nat \ {0}
        /\ strm[p][i] \in StreamType /\ toWrite[p] \in Nat /\ ver[p] \in Vers
        /\ wr \in Table(WriterType)
    <2>1. wr[p][i] \in WriterType /\ strm[p][i] \in StreamType
      BY <1>1, SameTables
    <2>2. wr[p][i].chunk \in Nat /\ wr[p][i].next \in Nat \ {0}
      BY <2>1 DEF WriterType
    <2>3. QED
      BY <1>1, <2>1, <2>2 DEF Types, Tables
  <1>4. ver[p] = 2 /\ wr[p][i].chunk = 0 => Inflight(p, i) >= 0 /\ Window(p, i) > 0
    BY DEF WriteFrame
  <1>5. Inflight(p, i) \in Int /\ Window(p, i) \in Int
    BY <1>1, InflightInt
  <1>6. /\ c \in Nat \ {0} /\ c <= Left(p, i)
        /\ wr[p][i].chunk > 0 => c = wr[p][i].chunk
        /\ wr[p][i].chunk = 0 /\ ver[p] = 2 => c <= Window(p, i)
    BY <1>2, <1>3, <1>4, <1>5 DEF Chunk, Smaller
  <1> HIDE DEF c
  <1>7. n \in 1 .. c /\ n <= FrameSize /\ n \in Nat /\ c \in Nat
    BY <1>6, Constants DEF Smaller
  <1>8. wr' = Set2(wr, p, i, w) /\ Submit(p, DATA, f) /\ strm' = strm /\ UNCHANGED writeRest
    BY <1>3 DEF WriteFrame, Set2, Table, c, Piece
  <1> HIDE DEF n
  <1>9. /\ w \in WriterType /\ w.pc = "sending" /\ w.out = wr[p][i].out
        /\ w.next = wr[p][i].next /\ w.n = n /\ w.chunk = c
    BY <1>3, <1>6, <1>7 DEF WriterType
  <1>10. f \in Class(p, DATA)
    <2>1. Piece(wr[p][i].next, n) \in Seq(Bytes) /\ Len(Piece(wr[p][i].next, n)) = n
      BY <1>3, <1>6, <1>7, PieceFacts
    <2>2. f \in Pshs
      BY <1>3, <1>6, <1>7, <2>1, Constants DEF Frame, Pshs
    <2>3. QED
      BY <2>2 DEF Class, DataFrames, DATA, CTRL
  <1> HIDE DEF w, f
  <1>11. Asked(p, DATA, f)
    BY <1>1, <1>8, <1>10, Submits DEF Classes
  <1>12. strm' = Set2(strm, p, i, strm[p][i])
    BY <1>1, <1>8, SameTables
  <1>13. Writing(p, i) /\ strm'[p][i] = strm[p][i] /\ wr'[p][i] = w
    BY <1>1, <1>3, <1>8, <1>9, <1>12, WriterStep
  <1>14. wr'[p][i].next - 1 + wr'[p][i].chunk <= toWrite[p]
    BY <1>3, <1>6, <1>9, <1>13 DEF Left
  <1>15. Asked(p, DATA, Frame(p, "PSH", i, Piece(wr[p][i].next, wr'[p][i].n)))
    BY <1>9, <1>11, <1>13 DEF f
  <1>16. QED
    BY <1>2, <1>4, <1>6, <1>7, <1>9, <1>13, <1>14, <1>15 DEF FrameAsked

LEMMA ModRange ==
    ASSUME NEW a \in Int
    PROVE  a % CountSpace \in 0 .. CountSpace - 1
  BY Constants

\* The writer's frame is out.
FrameSent(p, i) ==
    /\ wr[p][i].pc = "sending"
    /\ Writing(p, i) /\ Quiet
    /\ strm'[p][i].reg = strm[p][i].reg /\ strm'[p][i].buf = strm[p][i].buf
    /\ strm'[p][i].fin = strm[p][i].fin /\ strm'[p][i].numRead = strm[p][i].numRead
    /\ strm'[p][i].consumed = strm[p][i].consumed
    /\ strm'[p][i].window = strm[p][i].window
    /\ strm'[p][i].numWritten =
          (strm[p][i].numWritten + Count(p, wr[p][i].n)) % CountSpace
    /\ wr'[p][i].next = wr[p][i].next + wr[p][i].n
    /\ wr'[p][i].chunk = wr[p][i].chunk - wr[p][i].n
    /\ wr'[p][i].n = 0 /\ wr'[p][i].out \in {"ok", ""}
    /\ \/ wr'[p][i].pc = "end"
       \/ wr'[p][i].pc \in {"frame", "window"} /\ wr'[p][i].next <= toWrite[p]

LEMMA WriteSentFacts ==
    ASSUME Core, NEW p \in Sides, NEW i \in Sids, WriteSent(p, i)
    PROVE  FrameSent(p, i)
  <1> DEFINE a == wr[p][i]
             done == a.n = Left(p, i)
             t == [strm[p][i] EXCEPT !.numWritten = (@ + Count(p, a.n)) % CountSpace]
             s == IF done THEN Deadline(t) ELSE t
             w == [a EXCEPT !.next = @ + a.n, !.chunk = @ - a.n, !.n = 0,
                       !.pc = IF done THEN "end" ELSE IF a.chunk > a.n THEN "frame" ELSE "window",
                       !.out = IF done THEN "ok" ELSE ""]
  <1>1. Types /\ WriterOK(p, i) /\ wr[p][i].pc = "sending"
    BY DEF Core, WriteSent
  <1>2. a \in WriterType /\ strm[p][i] \in StreamType /\ toWrite[p] \in Nat
    BY <1>1, SameTables DEF Types
  <1>3. a.n \in 1 .. a.chunk /\ a.n \in Nat /\ a.chunk \in Nat /\ a.next \in Nat \ {0}
    BY <1>1, <1>2 DEF WriterOK, WriterType
  <1>4. a.next - 1 + a.chunk <= toWrite[p]
    BY <1>1 DEF WriterOK
  <1>5. ~done => a.next + a.n <= toWrite[p]
    BY <1>2, <1>3, <1>4 DEF Left
  <1>6. (strm[p][i].numWritten + Count(p, a.n)) % CountSpace \in 0 .. CountSpace - 1
    <2>1. strm[p][i].numWritten \in Int
      BY <1>2, Constants DEF StreamType
    <2>2. Count(p, a.n) \in Int
      BY <1>3 DEF Count
    <2>3. QED
      BY <2>1, <2>2, ModRange
  <1>7. wr' = Set2(wr, p, i, w) /\ strm' = Set2(strm, p, i, s) /\ UNCHANGED writeRest
    BY <1>1 DEF WriteSent, Set2, Types, Tables, Table
  <1> HIDE DEF done
  <1>8. /\ w \in WriterType /\ w.next = a.next + a.n /\ w.chunk = a.chunk - a.n /\ w.n = 0
        /\ w.out \in {"ok", ""}
        /\ w.pc = "end" \/ (w.pc \in {"frame", "window"} /\ ~done)
    <2>1. a.next + a.n \in Nat \ {0} /\ a.chunk - a.n \in Nat
      BY <1>3
    <2> HIDE DEF a
    <2>2. QED
      BY <1>2, <2>1 DEF WriterType, Outs
  <1>9. /\ s \in StreamType /\ s.reg = strm[p][i].reg /\ s.buf = strm[p][i].buf
        /\ s.fin = strm[p][i].fin /\ s.numRead = strm[p][i].numRead
        /\ s.consumed = strm[p][i].consumed /\ s.window = strm[p][i].window
        /\ s.numWritten = (strm[p][i].numWritten + Count(p, a.n)) % CountSpace
    BY <1>2, <1>6 DEF StreamType, Deadline
  <1> HIDE DEF s, w, a, t
  <1>10. Writing(p, i) /\ strm'[p][i] = s /\ wr'[p][i] = w
    BY <1>1, <1>7, <1>8, <1>9, WriterStep
  <1>11. Quiet
    BY <1>1, CallEnds, InCallers DEF WriteSent, Quiet
  <1>12. wr'[p][i].pc \in {"frame", "window"} => wr'[p][i].next <= toWrite[p]
    BY <1>5, <1>8, <1>10 DEF a
  <1>13. QED
    BY <1>1, <1>8, <1>9, <1>10, <1>11, <1>12 DEF a, FrameSent

\* The stream of a Read.
Reading(p, i) == UserStep(p, i) /\ UNCHANGED <<wr, cl>>

LEMMA ReaderStep ==
    ASSUME Types, NEW p \in Sides, NEW i \in Sids,
           NEW s \in StreamType, NEW r \in ReaderType, NEW g \in Seq(Nat),
           strm' = Set2(strm, p, i, s), rd' = Set2(rd, p, i, r), got' = Set2(got, p, i, g),
           UNCHANGED readRest
    PROVE  Reading(p, i) /\ strm'[p][i] = s /\ rd'[p][i] = r /\ got'[p][i] = g
  <1>1. wr' = Set2(wr, p, i, wr[p][i]) /\ cl' = Set2(cl, p, i, cl[p][i])
    BY SameTables DEF readRest
  <1>2. UNCHANGED <<ver, toWrite, closed, errs, recv, wire, accepts, nextID, goAway, dial, wr, cl>>
    BY DEF readRest, conf, openVars
  <1>3. UserStep(p, i) /\ strm'[p][i] = s /\ rd'[p][i] = r /\ got'[p][i] = g
    BY <1>1, <1>2, StepFacts, SameTables
  <1>4. QED
    BY <1>2, <1>3 DEF Reading

\* The reader takes n bytes.
Taken(p, i, n) ==
    /\ rd[p][i].pc = "try" /\ n \in 1 .. Len(strm[p][i].buf)
    /\ Reading(p, i) /\ Quiet /\ bucket' = bucket
    /\ strm'[p][i].reg = strm[p][i].reg /\ strm'[p][i].fin = strm[p][i].fin
    /\ strm'[p][i].numWritten = strm[p][i].numWritten
    /\ strm'[p][i].consumed = strm[p][i].consumed /\ strm'[p][i].window = strm[p][i].window
    /\ strm'[p][i].buf = SubSeq(strm[p][i].buf, n + 1, Len(strm[p][i].buf))
    /\ strm'[p][i].numRead = IF ver[p] = 2 THEN (strm[p][i].numRead + n) % CountSpace ELSE 0
    /\ got'[p][i] = got[p][i] \o [k \in 1 .. n |-> strm[p][i].buf[k].at]
    /\ rd'[p][i].pc = "taken" /\ rd'[p][i].n = n /\ rd'[p][i].out = rd[p][i].out
    /\ rd'[p][i].notify => ver[p] = 2

LEMMA TryReadFacts ==
    ASSUME Core, NEW p \in Sides, NEW i \in Sids, TryRead(p, i)
    PROVE  \E n \in Nat : Taken(p, i, n)
  <1> DEFINE a == strm[p][i]
             S(n) == IF ver[p] = 2 THEN (a.numRead + n) % CountSpace ELSE 0
             D(n) == ver[p] = 2 /\ UpdateDue(a.incr + n, S(n), n)
             s(n) == [a EXCEPT !.buf = SubSeq(@, n + 1, Len(@)), !.numRead = S(n),
                               !.incr = IF ver[p] = 2 /\ ~D(n) THEN a.incr + n ELSE 0]
             g(n) == got[p][i] \o [k \in 1 .. n |-> a.buf[k].at]
             r(n) == [rd[p][i] EXCEPT !.pc = "taken", !.n = n, !.notify = D(n) /\ S(n) > 0]
  <1>1. Types
    BY DEF Core
  <1>2. /\ strm \in Table(StreamType) /\ rd \in Table(ReaderType) /\ got \in Table(Seq(Nat))
        /\ a \in StreamType /\ rd[p][i] \in ReaderType /\ got[p][i] \in Seq(Nat)
        /\ ver[p] \in Vers
    BY <1>1, SameTables DEF Types, Tables
  <1>3. PICK n \in FirstBuffer(a.buf) :
           /\ strm' = [strm EXCEPT ![p][i] = s(n)]
           /\ got' = [got EXCEPT ![p][i] = @ \o [k \in 1 .. n |-> a.buf[k].at]]
           /\ rd' = [rd EXCEPT ![p][i].pc = "taken", ![p][i].n = n, ![p][i].notify = D(n) /\ S(n) > 0]
    BY Zenon DEF TryRead
  <1>4. strm' = Set2(strm, p, i, s(n)) /\ got' = Set2(got, p, i, g(n))
    BY <1>2, <1>3 DEF Set2, Table
  <1>5. rd' = Set2(rd, p, i, r(n))
    <2> HIDE DEF D, S
    <2>1. QED
      BY <1>2, <1>3 DEF Set2, Table
  <1>6. n \in FirstBuffer(a.buf) /\ strm' = Set2(strm, p, i, s(n)) /\ got' = Set2(got, p, i, g(n))
        /\ rd' = Set2(rd, p, i, r(n))
    BY <1>3, <1>4, <1>5
  <1>7. n \in 1 .. Len(a.buf) /\ n \in Nat /\ a.buf \in Seq(Bytes)
    BY <1>2, <1>6 DEF FirstBuffer, StreamType
  <1>8. a.numRead \in Int /\ a.incr \in Nat
    BY <1>2, Constants DEF StreamType
  <1>9. S(n) \in 0 .. CountSpace - 1
    <2>1. (a.numRead + n) % CountSpace \in 0 .. CountSpace - 1
      <3>1. a.numRead + n \in Int
        BY <1>7, <1>8
      <3>2. QED
        BY <3>1, Constants
    <2>2. 0 \in 0 .. CountSpace - 1
      BY Constants
    <2>3. QED
      BY <2>1, <2>2
  <1>10. SubSeq(a.buf, n + 1, Len(a.buf)) \in Seq(Bytes)
    BY <1>7
  <1>11. g(n) \in Seq(Nat)
    <2>1. [k \in 1 .. n |-> a.buf[k].at] \in Seq(Nat)
      <3>1. \A k \in 1 .. n : a.buf[k] \in Bytes
        BY <1>7
      <3>2. \A k \in 1 .. n : a.buf[k].at \in Nat
        BY <3>1 DEF Bytes
      <3>3. QED
        BY <1>7, <3>2
    <2>2. QED
      BY <1>2, <2>1
  <1> HIDE DEF S, D, a
  <1>12. /\ s(n) \in StreamType
        /\ s(n).reg = a.reg /\ s(n).fin = a.fin /\ s(n).numWritten = a.numWritten
        /\ s(n).consumed = a.consumed /\ s(n).window = a.window /\ s(n).numRead = S(n)
        /\ s(n).buf = SubSeq(a.buf, n + 1, Len(a.buf))
    <2>1. a.incr + n \in Nat
      BY <1>7, <1>8
    <2>2. QED
      BY <1>2, <1>9, <1>10, <2>1 DEF StreamType
  <1>13. /\ r(n) \in ReaderType /\ r(n).pc = "taken" /\ r(n).n = n /\ r(n).out = rd[p][i].out
         /\ r(n).notify => D(n)
    BY <1>2, <1>7 DEF ReaderType
  <1> HIDE DEF s, r, g
  <1>14. UNCHANGED readRest /\ bucket' = bucket /\ heap' = heap /\ call' = call
    BY DEF TryRead, sendVars
  <1>15. Quiet
    BY <1>1, <1>14, CallSame DEF Quiet
  <1>16. /\ Reading(p, i) /\ strm'[p][i] = s(n) /\ rd'[p][i] = r(n) /\ got'[p][i] = g(n)
    BY <1>1, <1>6, <1>11, <1>12, <1>13, <1>14, ReaderStep
  <1>17. rd'[p][i].notify => ver[p] = 2
    BY <1>13, <1>16 DEF D
  <1>18. rd[p][i].pc = "try"
    BY DEF TryRead
  <1>19. strm'[p][i].numRead = IF ver[p] = 2 THEN (strm[p][i].numRead + n) % CountSpace ELSE 0
    BY <1>12, <1>16 DEF S, a
  <1>20. got'[p][i] = got[p][i] \o [k \in 1 .. n |-> strm[p][i].buf[k].at]
    BY <1>16 DEF g, a
  <1>21. Taken(p, i, n)
    BY <1>7, <1>12, <1>13, <1>14, <1>15, <1>16, <1>17, <1>18, <1>19, <1>20 DEF Taken, a
  <1>22. QED
    BY <1>7, <1>21

Returns(p, n) ==
    /\ bucket' \in [Sides -> Int]
    /\ bucket'[p] = bucket[p] + n
    /\ \A q \in Sides : q # p => bucket'[q] = bucket[q]

LEMMA ReturnTokensFacts ==
    ASSUME Types, NEW p \in Sides, NEW n \in Nat, ReturnTokens(p, n)
    PROVE  Returns(p, n)
  BY DEF Types, ReturnTokens, Returns

\* The reader has given its tokens back and reports what it has read, or not.
Returned(p, i) ==
    /\ rd[p][i].pc = "taken"
    /\ Reading(p, i) /\ strm' = strm /\ got' = got /\ Returns(p, rd[p][i].n)
    /\ rd'[p][i].pc \in {"try", "updating"} /\ rd'[p][i].out = rd[p][i].out
    /\ rd'[p][i].notify = rd[p][i].notify
    /\ \/ Quiet
       \/ /\ rd[p][i].notify
          /\ Asked(p, CTRL, Frame(p, "UPD", i, <<strm[p][i].numRead, StreamBuffer>>))

LEMMA ReadReturnsFacts ==
    ASSUME Core, NEW p \in Sides, NEW i \in Sids, ReadReturns(p, i)
    PROVE  Returned(p, i)
  <1> DEFINE r == [rd[p][i] EXCEPT !.pc = IF rd[p][i].notify THEN "updating" ELSE "try", !.n = 0]
             f == Frame(p, "UPD", i, <<strm[p][i].numRead, StreamBuffer>>)
  <1>1. Types /\ rd[p][i].pc = "taken"
    BY DEF Core, ReadReturns
  <1>2. rd[p][i] \in ReaderType /\ strm[p][i] \in StreamType /\ ver[p] \in Vers
    BY <1>1, SameTables DEF Types
  <1>3. rd' = Set2(rd, p, i, r)
    <2>1. CASE rd[p][i].notify
      <3>1. rd' = [rd EXCEPT ![p][i].pc = "updating", ![p][i].n = 0]
        BY <2>1 DEF ReadReturns
      <3>2. QED
        BY <1>1, <2>1, <3>1 DEF Set2, Types, Tables, Table
    <2>2. CASE ~rd[p][i].notify
      <3>1. rd' = [rd EXCEPT ![p][i].pc = "try", ![p][i].n = 0]
        BY <2>2 DEF ReadReturns
      <3>2. QED
        BY <1>1, <2>2, <3>1 DEF Set2, Types, Tables, Table
    <2>3. QED
      BY <2>1, <2>2
  <1>4. /\ r \in ReaderType /\ r.pc \in {"try", "updating"} /\ r.out = rd[p][i].out
        /\ r.notify = rd[p][i].notify
    BY <1>2 DEF ReaderType
  <1> HIDE DEF r
  <1>5. strm' = strm /\ got' = got /\ UNCHANGED readRest
    BY DEF ReadReturns
  <1>6. strm' = Set2(strm, p, i, strm[p][i]) /\ got' = Set2(got, p, i, got[p][i])
        /\ got[p][i] \in Seq(Nat)
    BY <1>1, <1>5, SameTables
  <1>7. Reading(p, i) /\ rd'[p][i] = r
    BY <1>1, <1>2, <1>3, <1>4, <1>5, <1>6, ReaderStep
  <1>8. Returns(p, rd[p][i].n)
    <2>1. rd[p][i].n \in Nat
      BY <1>2 DEF ReaderType
    <2>2. QED
      BY <1>1, <2>1, ReturnTokensFacts DEF ReadReturns
  <1>9. f \in Class(p, CTRL)
    <2>1. <<strm[p][i].numRead, StreamBuffer>> \in (0 .. CountSpace - 1) \X {StreamBuffer}
      BY <1>2 DEF StreamType
    <2>2. f \in Upds
      BY <1>2, <2>1 DEF Frame, Upds
    <2>3. QED
      BY <2>2 DEF Class, CtrlFrames
  <1>10. Quiet \/ (rd[p][i].notify /\ Asked(p, CTRL, f))
    <2>1. CASE UNCHANGED sendVars
      BY <1>1, <2>1, CallSame DEF Quiet, sendVars
    <2>2. CASE rd[p][i].notify /\ Submit(p, CTRL, f)
      BY <1>1, <1>9, <2>2, Submits DEF Classes
    <2>3. QED
      BY <2>1, <2>2 DEF ReadReturns
  <1>11. QED
    BY <1>1, <1>4, <1>5, <1>7, <1>8, <1>10 DEF Returned

\* The reader goes on, waits or ends.
ReaderMoves(p, i) ==
    /\ rd[p][i].pc \in {"try", "updating", "wait"}
    /\ Reading(p, i) /\ Quiet /\ got' = got /\ bucket' = bucket
    /\ Alike(strm[p][i], strm'[p][i])
    /\ rd'[p][i].pc \in {"try", "wait", "end"} /\ rd'[p][i].notify = rd[p][i].notify
    /\ \/ rd'[p][i].out = rd[p][i].out
       \/ rd'[p][i].pc = "end" /\ rd'[p][i].out # "EOF"
       \/ rd'[p][i].pc = "end" /\ strm[p][i].fin /\ strm[p][i].buf = <<>>

LEMMA ReaderMoveFacts ==
    ASSUME Core, NEW p \in Sides, NEW i \in Sids, NEW r \in ReaderType,
           rd[p][i].pc \in {"try", "updating", "wait"},
           rd' = Set2(rd, p, i, r),
           r.pc \in {"try", "wait", "end"}, r.notify = rd[p][i].notify,
           \/ r.out = rd[p][i].out
           \/ r.pc = "end" /\ r.out # "EOF"
           \/ r.pc = "end" /\ strm[p][i].fin /\ strm[p][i].buf = <<>>,
           strm' = strm \/ strm' = [strm EXCEPT ![p][i].event = FALSE],
           got' = got, bucket' = bucket, Quiet, UNCHANGED readRest
    PROVE  ReaderMoves(p, i)
  <1> DEFINE s == IF strm' = strm THEN strm[p][i] ELSE [strm[p][i] EXCEPT !.event = FALSE]
  <1>1. Types
    BY DEF Core
  <1>2. strm[p][i] \in StreamType /\ got[p][i] \in Seq(Nat) /\ got' = Set2(got, p, i, got[p][i])
    BY <1>1, SameTables
  <1>3. s \in StreamType /\ Alike(strm[p][i], s)
    BY <1>2 DEF StreamType, Alike
  <1>4. strm' = Set2(strm, p, i, s)
    BY <1>1 DEF Set2, Types, Tables, Table
  <1> HIDE DEF s
  <1>5. Reading(p, i) /\ strm'[p][i] = s /\ rd'[p][i] = r
    BY <1>1, <1>2, <1>3, <1>4, ReaderStep
  <1>6. QED
    BY <1>3, <1>5 DEF ReaderMoves

\* What a reader can turn into.
Turned(p, i, pc, out) == \E r \in ReaderType :
    rd' = Set2(rd, p, i, r) /\ r.pc = pc /\ r.out = out /\ r.notify = rd[p][i].notify

LEMMA ReaderEnds ==
    ASSUME Types, NEW p \in Sides, NEW i \in Sids,
           NEW out \in {"error", "timeout", "closed", "EOF"}, ReaderEnd(p, i, out)
    PROVE  Turned(p, i, "end", out)
  <1> DEFINE r == [rd[p][i] EXCEPT !.pc = "end", !.out = out]
  <1>1. rd \in Table(ReaderType) /\ rd[p][i] \in ReaderType
    BY SameTables DEF Types, Tables
  <1>2. rd' = Set2(rd, p, i, r)
    BY <1>1 DEF ReaderEnd, Set2, Table
  <1>3. r \in ReaderType /\ r.pc = "end" /\ r.out = out /\ r.notify = rd[p][i].notify
    BY <1>1 DEF ReaderType
  <1> HIDE DEF r
  <1>4. QED
    BY <1>2, <1>3 DEF Turned

LEMMA ReaderTries ==
    ASSUME Types, NEW p \in Sides, NEW i \in Sids, rd' = [rd EXCEPT ![p][i].pc = "try"]
    PROVE  Turned(p, i, "try", rd[p][i].out)
  <1> DEFINE r == [rd[p][i] EXCEPT !.pc = "try"]
  <1>1. rd \in Table(ReaderType) /\ rd[p][i] \in ReaderType
    BY SameTables DEF Types, Tables
  <1>2. rd' = Set2(rd, p, i, r)
    BY <1>1 DEF Set2, Table
  <1>3. r \in ReaderType /\ r.pc = "try" /\ r.out = rd[p][i].out /\ r.notify = rd[p][i].notify
    BY <1>1 DEF ReaderType
  <1> HIDE DEF r
  <1>4. QED
    BY <1>2, <1>3 DEF Turned

LEMMA ReaderWaits ==
    ASSUME Types, NEW p \in Sides, NEW i \in Sids,
           rd' = [rd EXCEPT ![p][i].pc = "wait", ![p][i].armed = strm[p][i].deadline]
    PROVE  Turned(p, i, "wait", rd[p][i].out)
  <1> DEFINE r == [rd[p][i] EXCEPT !.pc = "wait", !.armed = strm[p][i].deadline]
  <1>1. rd \in Table(ReaderType) /\ rd[p][i] \in ReaderType /\ strm[p][i] \in StreamType
    BY SameTables DEF Types, Tables
  <1>2. rd' = Set2(rd, p, i, r)
    BY <1>1 DEF Set2, Table
  <1>3. r \in ReaderType /\ r.pc = "wait" /\ r.out = rd[p][i].out /\ r.notify = rd[p][i].notify
    BY <1>1 DEF ReaderType, StreamType
  <1> HIDE DEF r
  <1>4. QED
    BY <1>2, <1>3 DEF Turned

LEMMA UpdateSentFacts ==
    ASSUME Core, NEW p \in Sides, NEW i \in Sids, UpdateSent(p, i)
    PROVE  ReaderMoves(p, i)
  <1>1. Types
    BY DEF Core
  <1>2. Quiet
    BY <1>1, CallEnds, InCallers DEF UpdateSent, Quiet
  <1>3. \/ Turned(p, i, "try", rd[p][i].out)
        \/ \E out \in {"error", "timeout"} : Turned(p, i, "end", out)
    BY <1>1, ReaderEnds, ReaderTries DEF UpdateSent
  <1>4. PICK r \in ReaderType :
           /\ rd' = Set2(rd, p, i, r) /\ r.notify = rd[p][i].notify
           /\ \/ r.pc = "try" /\ r.out = rd[p][i].out
              \/ r.pc = "end" /\ r.out # "EOF"
    BY <1>3 DEF Turned
  <1>5. rd[p][i].pc = "updating" /\ strm' = strm /\ got' = got /\ bucket' = bucket
        /\ UNCHANGED readRest
    BY DEF UpdateSent
  <1>6. QED
    BY <1>2, <1>4, <1>5, ReaderMoveFacts

LEMMA ReadEmptyFacts ==
    ASSUME Core, NEW p \in Sides, NEW i \in Sids, ReadEmpty(p, i)
    PROVE  ReaderMoves(p, i)
  <1>1. Types
    BY DEF Core
  <1>2. Quiet
    BY <1>1, CallSame DEF ReadEmpty, Quiet, sendVars
  <1>3. Turned(p, i, "wait", rd[p][i].out) \/ Turned(p, i, "end", "closed")
    BY <1>1, ReaderEnds, ReaderWaits DEF ReadEmpty
  <1>4. PICK r \in ReaderType :
           /\ rd' = Set2(rd, p, i, r) /\ r.notify = rd[p][i].notify
           /\ \/ r.pc = "wait" /\ r.out = rd[p][i].out
              \/ r.pc = "end" /\ r.out # "EOF"
    BY <1>3 DEF Turned
  <1>5. rd[p][i].pc = "try" /\ strm' = strm /\ got' = got /\ bucket' = bucket /\ UNCHANGED readRest
    BY DEF ReadEmpty
  <1>6. QED
    BY <1>2, <1>4, <1>5, ReaderMoveFacts

LEMMA WaitReadFacts ==
    ASSUME Core, NEW p \in Sides, NEW i \in Sids, WaitRead(p, i)
    PROVE  ReaderMoves(p, i)
  <1>1. Types
    BY DEF Core
  <1>2. Quiet
    BY <1>1, CallSame DEF WaitRead, Quiet, sendVars
  <1>3. \/ Turned(p, i, "try", rd[p][i].out)
        \/ \E out \in {"error", "timeout", "closed"} : Turned(p, i, "end", out)
        \/ Turned(p, i, "end", "EOF") /\ strm[p][i].fin /\ strm[p][i].buf = <<>>
    <2>1. CASE rd' = [rd EXCEPT ![p][i].pc = "try"]
      BY <1>1, <2>1, ReaderTries
    <2>2. CASE \E out \in {"error", "timeout", "closed"} : ReaderEnd(p, i, out)
      BY <1>1, <2>2, ReaderEnds
    <2>3. CASE ReaderEnd(p, i, "EOF") /\ strm[p][i].fin /\ strm[p][i].buf = <<>>
      BY <1>1, <2>3, ReaderEnds
    <2>4. QED
      BY <2>1, <2>2, <2>3 DEF WaitRead, FinRead
  <1>4. PICK r \in ReaderType :
           /\ rd' = Set2(rd, p, i, r) /\ r.notify = rd[p][i].notify
           /\ \/ r.pc = "try" /\ r.out = rd[p][i].out
              \/ r.pc = "end" /\ r.out # "EOF"
              \/ r.pc = "end" /\ strm[p][i].fin /\ strm[p][i].buf = <<>>
    BY <1>3 DEF Turned
  <1>5. /\ rd[p][i].pc = "wait" /\ got' = got /\ bucket' = bucket /\ UNCHANGED readRest
        /\ strm' = strm \/ strm' = [strm EXCEPT ![p][i].event = FALSE]
    BY DEF WaitRead
  <1>6. QED
    BY <1>2, <1>4, <1>5, ReaderMoveFacts

\* The stream of a Close.
Closing(p, i) ==
    /\ UserStep(p, i) /\ UNCHANGED <<wr, rd, got>>
    /\ strm'[p][i].fin = strm[p][i].fin
    /\ strm'[p][i].numRead = strm[p][i].numRead /\ strm'[p][i].numWritten = strm[p][i].numWritten
    /\ strm'[p][i].consumed = strm[p][i].consumed /\ strm'[p][i].window = strm[p][i].window

\* Close begins, with a FIN unless the session has died.
CloseBegins(p, i) ==
    /\ wr[p][i].pc = "end" /\ rd[p][i].pc = "end" /\ cl[p][i] = "off"
    /\ Closing(p, i) /\ bucket' = bucket
    /\ strm'[p][i].buf = strm[p][i].buf /\ strm'[p][i].reg = strm[p][i].reg
    /\ \/ cl'[p][i] = "end" /\ Quiet
       \/ cl'[p][i] = "sending" /\ Asked(p, DATA, Frame(p, "FIN", i, <<>>))

LEMMA CloseStreamFacts ==
    ASSUME Core, NEW p \in Sides, NEW i \in Sids, CloseStream(p, i)
    PROVE  CloseBegins(p, i)
  <1> DEFINE s == [strm[p][i] EXCEPT !.die = TRUE]
  <1>1. Types
    BY DEF Core
  <1>2. strm[p][i] \in StreamType /\ ver[p] \in Vers
    BY <1>1, SameTables DEF Types
  <1>3. s \in StreamType /\ Alike(strm[p][i], s)
    BY <1>2 DEF StreamType, Alike
  <1>4. strm' = Set2(strm, p, i, s)
    BY <1>1 DEF CloseStream, Set2, Types, Tables, Table
  <1> HIDE DEF s
  <1>5. UNCHANGED <<ver, toWrite, closed, errs, recv, wire, accepts, nextID, goAway, dial,
                    wr, rd, got, bucket>>
    BY DEF CloseStream, closeRest, conf, openVars
  <1>6. PICK c \in {"sending", "end"} :
           /\ cl' = Set2(cl, p, i, c)
           /\ \/ c = "end" /\ UNCHANGED sendVars
              \/ c = "sending" /\ Submit(p, DATA, Frame(p, "FIN", i, <<>>))
    BY Zenon DEF CloseStream, Set2, FinClass
  <1>7. UserStep(p, i) /\ strm'[p][i] = s /\ cl'[p][i] = c
    <2>1. wr' = Set2(wr, p, i, wr[p][i]) /\ rd' = Set2(rd, p, i, rd[p][i])
          /\ got' = Set2(got, p, i, got[p][i])
      BY <1>1, <1>5, SameTables
    <2>2. wr[p][i] \in WriterType /\ rd[p][i] \in ReaderType /\ got[p][i] \in Seq(Nat)
      BY <1>1, SameTables
    <2>3. s \in StreamType /\ c \in {"off", "sending", "end"} /\ cl' = Set2(cl, p, i, c)
      BY <1>3, <1>6
    <2>4. UNCHANGED <<ver, toWrite, closed, errs, recv, wire, accepts, nextID, goAway, dial>>
      BY <1>5
    <2>5. QED
      BY <1>1, <1>4, <2>1, <2>2, <2>3, <2>4, StepFacts
  <1>8. Closing(p, i) /\ strm'[p][i].buf = strm[p][i].buf /\ strm'[p][i].reg = strm[p][i].reg
    BY <1>3, <1>5, <1>7 DEF Closing, Alike
  <1>9. \/ cl'[p][i] = "end" /\ Quiet
        \/ cl'[p][i] = "sending" /\ Asked(p, DATA, Frame(p, "FIN", i, <<>>))
    <2>1. CASE c = "end" /\ UNCHANGED sendVars
      BY <1>1, <1>7, <2>1, CallSame DEF sendVars, Quiet
    <2>2. CASE c = "sending" /\ Submit(p, DATA, Frame(p, "FIN", i, <<>>))
      <3>1. Frame(p, "FIN", i, <<>>) \in Class(p, DATA)
        BY <1>2 DEF Frame, Class, DataFrames, Fins, CTRL, DATA
      <3>2. QED
        BY <1>1, <1>7, <2>2, <3>1, Submits DEF Classes
    <2>3. QED
      BY <1>6, <2>1, <2>2
  <1>10. QED
    BY <1>5, <1>8, <1>9 DEF CloseStream, CloseBegins

\* Close forgets the stream.
CloseDone(p, i) ==
    /\ cl[p][i] = "sending" /\ wr[p][i].pc = "end" /\ rd[p][i].pc = "end"
    /\ Closing(p, i) /\ Quiet
    /\ strm'[p][i].buf = <<>> /\ strm'[p][i].reg = FALSE /\ cl'[p][i] = "end"
    /\ Returns(p, Len(strm[p][i].buf))

LEMMA CloseEndFacts ==
    ASSUME Core, NEW p \in Sides, NEW i \in Sids, CloseEnd(p, i)
    PROVE  CloseDone(p, i)
  <1> DEFINE s == [strm[p][i] EXCEPT !.reg = FALSE, !.buf = <<>>]
  <1>1. Types /\ UsersOK(p, i)
    BY DEF Core
  <1>2. strm[p][i] \in StreamType /\ bucket \in [Sides -> Int]
    BY <1>1, SameTables DEF Types
  <1>3. /\ s \in StreamType /\ s.fin = strm[p][i].fin /\ s.numRead = strm[p][i].numRead
        /\ s.numWritten = strm[p][i].numWritten /\ s.consumed = strm[p][i].consumed
        /\ s.window = strm[p][i].window /\ s.buf = <<>> /\ s.reg = FALSE
    <2>1. <<>> \in Seq(Bytes)
      OBVIOUS
    <2>2. QED
      BY <1>2, <2>1 DEF StreamType
  <1>4. strm' = Set2(strm, p, i, s)
    <2>1. strm' = [strm EXCEPT ![p][i].reg = FALSE, ![p][i].buf = <<>>]
      BY DEF CloseEnd, StreamClosed
    <2>2. QED
      BY <1>1, <2>1 DEF Set2, Types, Tables, Table
  <1> HIDE DEF s
  <1>5. UNCHANGED <<ver, toWrite, closed, errs, recv, wire, accepts, nextID, goAway, dial,
                    wr, rd, got>>
    BY DEF CloseEnd, closeRest, conf, openVars
  <1>6. cl' = Set2(cl, p, i, "end")
    BY DEF CloseEnd, Set2
  <1>7. UserStep(p, i) /\ strm'[p][i] = s /\ cl'[p][i] = "end"
    <2>1. wr' = Set2(wr, p, i, wr[p][i]) /\ rd' = Set2(rd, p, i, rd[p][i])
          /\ got' = Set2(got, p, i, got[p][i])
      BY <1>1, <1>5, SameTables
    <2>2. wr[p][i] \in WriterType /\ rd[p][i] \in ReaderType /\ got[p][i] \in Seq(Nat)
      BY <1>1, SameTables
    <2>3. s \in StreamType
      BY <1>3
    <2>4. QED
      BY <1>1, <1>4, <1>5, <1>6, <2>1, <2>2, <2>3, StepFacts
  <1>8. Quiet
    BY <1>1, CallEnds, InCallers DEF CloseEnd, Quiet
  <1>9. Returns(p, Len(strm[p][i].buf))
    <2>1. strm[p][i].buf \in Seq(Bytes) /\ Len(strm[p][i].buf) \in Nat
      BY <1>2 DEF StreamType
    <2>2. CASE strm[p][i].reg /\ Len(strm[p][i].buf) > 0
      <3>1. ReturnTokens(p, Len(strm[p][i].buf))
        BY <2>2 DEF CloseEnd, StreamClosed, Buffered
      <3>2. QED
        BY <1>1, <2>1, <3>1, ReturnTokensFacts
    <2>3. CASE ~(strm[p][i].reg /\ Len(strm[p][i].buf) > 0)
      <3>1. bucket' = bucket
        BY <2>3 DEF CloseEnd, StreamClosed, Buffered
      <3>2. Len(strm[p][i].buf) = 0
        BY <1>1, <2>1, <2>3 DEF UsersOK
      <3>3. QED
        BY <1>2, <3>1, <3>2 DEF Returns
    <2>4. QED
      BY <2>2, <2>3
  <1>10. cl[p][i] = "sending" /\ wr[p][i].pc = "end" /\ rd[p][i].pc = "end"
    BY <1>1 DEF CloseEnd, UsersOK
  <1>11. QED
    BY <1>3, <1>5, <1>7, <1>8, <1>9, <1>10 DEF Closing, CloseDone

\* The writer ends, waits for a window or has found one.
WriterTurns(p, i) == \E pc \in {"end", "window", "frame"}, out \in Outs :
    /\ WriterMoves(p, i, pc, out)
    /\ wr[p][i].pc \in {"start", "frame", "window", "sending"}
    /\ wr[p][i].pc = "sending" => Broken(p)
    /\ pc # "end" => wr[p][i].pc # "sending" /\ wr[p][i].next <= toWrite[p] /\ out = wr[p][i].out
    /\ out = "consumed" => \/ wr[p][i].out = "consumed"
                           \/ ver[p] = 2 /\ wr[p][i].chunk = 0 /\ Inflight(p, i) < 0

LEMMA WriterTurnsFacts ==
    ASSUME Core, NEW p \in Sides, NEW i \in Sids,
           WriteClosed(p, i) \/ WriteNoWindow(p, i) \/ WriteFails(p, i) \/ WriteWait(p, i)
    PROVE  WriterTurns(p, i)
  <1>1. wr[p][i] \in WriterType /\ WriterOK(p, i)
    BY SameTables DEF Core
  <1>2. wr[p][i].out \in Outs
    BY <1>1 DEF WriterType
  <1>3. CASE WriteClosed(p, i)
    <2>1. PICK out \in {"eof", "closed", "ok"} : WriterMoves(p, i, "end", out)
      BY <1>3, WriteClosedFacts
    <2>2. QED
      BY <1>3, <2>1, WriteClosedFacts DEF WriterTurns, Outs
  <1>4. CASE WriteNoWindow(p, i)
    BY <1>2, <1>4, WriteNoWindowFacts DEF WriterTurns, Outs
  <1>5. CASE WriteFails(p, i)
    BY <1>5, WriteFailsFacts DEF WriterTurns, Outs
  <1>6. CASE WriteWait(p, i)
    <2>1. wr[p][i].pc = "window" => wr[p][i].next <= toWrite[p]
      BY <1>1 DEF WriterOK
    <2>2. CASE \E out \in {"eof", "closed"} : WriterMoves(p, i, "end", out)
      <3>1. PICK out \in {"eof", "closed"} : WriterMoves(p, i, "end", out)
        BY <2>2
      <3>2. QED
        BY <1>6, <3>1, WriteWaitFacts DEF WriterTurns, Outs
    <2>3. CASE WriterMoves(p, i, "frame", wr[p][i].out)
      BY <1>2, <1>6, <2>1, <2>3, WriteWaitFacts DEF WriterTurns
    <2>4. QED
      BY <1>6, <2>2, <2>3, WriteWaitFacts
  <1>7. QED
    BY <1>3, <1>4, <1>5, <1>6

\* All the steps of the users of stream i of side p.
UserSteps(p, i) ==
    \/ WriterTurns(p, i) \/ FrameAsked(p, i) \/ FrameSent(p, i)
    \/ (\E n \in Nat : Taken(p, i, n)) \/ Returned(p, i) \/ ReaderMoves(p, i)
    \/ CloseBegins(p, i) \/ CloseDone(p, i)

LEMMA UserStepsFacts ==
    ASSUME Core, NEW p \in Sides, NEW i \in Sids,
           Writes(p, i) \/ Reads(p, i) \/ StreamCloses(p, i)
    PROVE  UserSteps(p, i)
  <1>1. CASE Writes(p, i)
    BY <1>1, WriterTurnsFacts, WriteFrameFacts, WriteSentFacts DEF Writes, UserSteps
  <1>2. CASE Reads(p, i)
    BY <1>2, TryReadFacts, ReadReturnsFacts, UpdateSentFacts, ReadEmptyFacts, WaitReadFacts
    DEF Reads, UserSteps
  <1>3. CASE StreamCloses(p, i)
    BY <1>3, CloseStreamFacts, CloseEndFacts DEF StreamCloses, UserSteps
  <1>4. QED
    BY <1>1, <1>2, <1>3

-----------------------------------------------------------------------------
(* The steps of the session.                                               *)

\* The users of the streams do nothing.
UsersRest == wr' = wr /\ rd' = rd /\ cl' = cl /\ got' = got

\* The session sends the first frame of a class.
Sending(p, c) ==
    /\ c \in Classes /\ ~Broken(p) /\ heap[p][c] # <<>>
    /\ c = DATA => heap[p][CTRL] = <<>>
    /\ Head(heap[p][c]) \in Class(p, c) /\ Head(heap[p][c]) \in Frames(p)
    /\ HeapType(heap') /\ heap'[p][c] = Tail(heap[p][c])
    /\ \A q \in Sides, d \in Classes : q # p \/ d # c => heap'[q][d] = heap[q][d]
    /\ call' \in CallType
    /\ UsersRest
    /\ UNCHANGED <<ver, toWrite, closed, recv, bucket, accepts, strm, nextID, goAway, dial>>

Sent(p, c) ==
    /\ Sending(p, c) /\ ~closed[Peer(p)] /\ errs' = errs
    /\ WireType(wire')
    /\ wire'[Peer(p)] = Append(wire[Peer(p)], Head(heap[p][c])) /\ wire'[p] = wire[p]
    /\ \A q \in Sides, w \in Callers :
          \/ call'[q][w] = call[q][w]
          \/ q = p /\ w = Caller(Head(heap[p][c])) /\ call'[q][w] = "ok"

NotSent(p, c) ==
    /\ Sending(p, c) /\ wire' = wire
    /\ errs' \in [Sides -> SUBSET {"read", "write", "proto"}]
    /\ "write" \in errs'[p] /\ \A q \in Sides : errs[q] \subseteq errs'[q]
    /\ \A q \in Sides : q # p => errs'[q] = errs[q]
    /\ \A q \in Sides, w \in Callers :
          call'[q][w] = call[q][w] \/ (q = p /\ call'[q][w] = "failed")

LEMMA ResultFacts ==
    ASSUME Types, NEW p \in Sides, NEW who \in Callers, NEW r \in {"ok", "failed"},
           Result(p, who, r)
    PROVE  /\ call' \in CallType
           /\ \A q \in Sides, w \in Callers :
                 call'[q][w] = call[q][w] \/ (q = p /\ w = who /\ call'[q][w] = r)
  <1> DEFINE v == IF call[p][who] = "sent" THEN r ELSE call[p][who]
  <1>1. call \in CallType
    BY DEF Types
  <1>2. call' = [call EXCEPT ![p][who] = v]
    BY DEF Result
  <1>3. v \in {"none", "sent", "ok", "failed"} /\ v \in {call[p][who], r}
    BY <1>1 DEF CallType
  <1> HIDE DEF v
  <1>4. QED
    BY <1>1, <1>2, <1>3 DEF CallType

LEMMA SendLoopFacts ==
    ASSUME Core, NEW p \in Sides, SendLoop(p)
    PROVE  \E c \in Classes : Sent(p, c) \/ NotSent(p, c)
  <1> DEFINE c == Urgent(p)
             f == Head(heap[p][c])
  <1>1. Types
    BY DEF Core
  <1>2. c \in Classes /\ (c = DATA => heap[p][CTRL] = <<>>)
    BY DEF Urgent, Classes, CTRL, DATA
  <1>3. ~Broken(p) /\ heap[p][c] # <<>> /\ HeapType(heap) /\ WireType(wire)
    BY <1>1 DEF SendLoop, Types
  <1>4. /\ \/ /\ ConnOpen /\ wire' = [wire EXCEPT ![Peer(p)] = Append(@, f)]
              /\ Result(p, Caller(f), "ok") /\ errs' = errs
           \/ /\ Result(p, Caller(f), "failed")
              /\ errs' = [errs EXCEPT ![p] = @ \cup {"write"}] /\ wire' = wire
        /\ heap' = [heap EXCEPT ![p][c] = Tail(@)]
    BY DEF SendLoop
  <1>5. /\ UsersRest
        /\ UNCHANGED <<ver, toWrite, closed, recv, bucket, accepts, strm, nextID, goAway, dial>>
    BY DEF SendLoop, UsersRest, userVars, conf, openVars
  <1> HIDE DEF c
  <1>6. heap' = HeapPut(heap, p, c, Tail(heap[p][c]))
    BY <1>2, <1>3, <1>4 DEF HeapPut, HeapType
  <1>7. f \in Class(p, c) /\ f \in Frames(p)
    BY <1>2, <1>3, HeapHead
  <1>8. /\ HeapType(heap') /\ heap'[p][c] = Tail(heap[p][c])
        /\ \A q \in Sides, d \in Classes : q # p \/ d # c => heap'[q][d] = heap[q][d]
    BY <1>2, <1>3, <1>6, HeapTail
  <1>9. Caller(f) \in Callers
    BY <1>7, CallerOf
  <1>10. call' \in CallType
    BY <1>1, <1>4, <1>9, ResultFacts
  <1>11. Sending(p, c)
    BY <1>2, <1>3, <1>5, <1>7, <1>8, <1>10 DEF Sending
  <1>12. CASE ConnOpen /\ wire' = [wire EXCEPT ![Peer(p)] = Append(@, f)]
              /\ Result(p, Caller(f), "ok") /\ errs' = errs
    <2>1. wire' = WirePut(wire, Peer(p), Append(wire[Peer(p)], f))
      BY <1>3, <1>12, Peers DEF WirePut, WireType
    <2>2. /\ WireType(wire') /\ wire'[Peer(p)] = Append(wire[Peer(p)], f) /\ wire'[p] = wire[p]
      BY <1>3, <1>7, <2>1, Peers, WireAppend
    <2>3. \A q \in Sides, w \in Callers :
             call'[q][w] = call[q][w] \/ (q = p /\ w = Caller(f) /\ call'[q][w] = "ok")
      BY <1>1, <1>9, <1>12, ResultFacts
    <2>4. ~closed[Peer(p)]
      BY <1>12, Peers DEF ConnOpen
    <2>5. Sent(p, c)
      BY <1>11, <1>12, <2>2, <2>3, <2>4 DEF Sent
    <2>6. QED
      BY <1>2, <2>5
  <1>13. CASE Result(p, Caller(f), "failed") /\ errs' = [errs EXCEPT ![p] = @ \cup {"write"}]
              /\ wire' = wire
    <2>1. /\ errs' \in [Sides -> SUBSET {"read", "write", "proto"}]
          /\ "write" \in errs'[p] /\ \A q \in Sides : errs[q] \subseteq errs'[q]
          /\ \A q \in Sides : q # p => errs'[q] = errs[q]
      BY <1>1, <1>13 DEF Types
    <2>2. \A q \in Sides, w \in Callers :
             call'[q][w] = call[q][w] \/ (q = p /\ call'[q][w] = "failed")
      BY <1>1, <1>9, <1>13, ResultFacts
    <2>3. NotSent(p, c)
      BY <1>11, <1>13, <2>1, <2>2 DEF NotSent
    <2>4. QED
      BY <1>2, <2>3
  <1>14. QED
    BY <1>4, <1>12, <1>13

\* recvLoop waits no more, or ends; the frame whose version is wrong is lost.
LoopTurns(p) ==
    /\ UsersRest
    /\ UNCHANGED <<ver, toWrite, closed, bucket, heap, call, accepts, strm, nextID, goAway, dial>>
    /\ recv' \in [Sides -> {"run", "end"}] /\ recv'[p] \in {recv[p], "end"}
    /\ errs' \in [Sides -> SUBSET {"read", "write", "proto"}]
    /\ \A q \in Sides : "write" \in errs'[q] <=> "write" \in errs[q]
    /\ \A q \in Sides : q # p => recv'[q] = recv[q]
    /\ \/ wire' = wire
       \/ /\ recv'[p] = "end" /\ WireType(wire') /\ wire[p] # <<>>
          /\ wire'[p] = Tail(wire[p]) /\ wire'[Peer(p)] = wire[Peer(p)]

LEMMA LoopTurnsFacts ==
    ASSUME Core, NEW p \in Sides, BucketWait(p) \/ ReadError(p) \/ ProtoError(p)
    PROVE  LoopTurns(p)
  <1>1. /\ recv \in [Sides -> {"run", "end"}] /\ WireType(wire)
        /\ errs \in [Sides -> SUBSET {"read", "write", "proto"}]
    BY DEF Core, Types
  <1>2. CASE BucketWait(p)
    BY <1>1, <1>2 DEF BucketWait, LoopTurns, UsersRest, userVars, conf, openVars, sendVars
  <1>3. CASE ReadError(p)
    BY <1>1, <1>3 DEF ReadError, LoopTurns, UsersRest, userVars, conf, openVars, sendVars
  <1>4. CASE ProtoError(p)
    <2>1. wire' = WirePut(wire, p, Tail(wire[p])) /\ wire[p] # <<>>
      BY <1>1, <1>4 DEF ProtoError, WirePut, WireType
    <2>2. WireType(wire') /\ wire'[p] = Tail(wire[p]) /\ wire'[Peer(p)] = wire[Peer(p)]
      BY <1>1, <2>1, Peers, WireTail
    <2>3. QED
      BY <1>1, <1>4, <2>1, <2>2 DEF ProtoError, LoopTurns, UsersRest, userVars, conf, openVars, sendVars
  <1>5. QED
    BY <1>2, <1>3, <1>4

\* recvLoop takes a frame of its version.
Receiving(p) ==
    /\ recv[p] = "run" /\ ~closed[p] /\ bucket[p] > 0
    /\ wire[p] # <<>> /\ Head(wire[p]) \in Frames(Peer(p)) /\ Head(wire[p]).ver = ver[p]
    /\ WireType(wire') /\ wire'[p] = Tail(wire[p]) /\ wire'[Peer(p)] = wire[Peer(p)]
    /\ UsersRest
    /\ UNCHANGED <<ver, toWrite, closed, errs, recv, heap, call, nextID, goAway, dial>>

LEMMA ReceivesFacts ==
    ASSUME Core, NEW p \in Sides, NEW cmd, Receives(p, cmd)
    PROVE  Receiving(p) /\ Head(wire[p]).cmd = cmd
  <1>1. WireType(wire) /\ bucket[p] \in Int
    BY DEF Core, Types
  <1>2. wire' = WirePut(wire, p, Tail(wire[p])) /\ wire[p] # <<>>
    BY <1>1 DEF Receives, WirePut, WireType
  <1>3. WireType(wire') /\ wire'[p] = Tail(wire[p]) /\ wire'[Peer(p)] = wire[Peer(p)]
        /\ Head(wire[p]) \in Frames(Peer(p))
    BY <1>1, <1>2, Peers, WireTail
  <1>4. UsersRest /\ UNCHANGED <<ver, toWrite, closed, errs, recv, heap, call, nextID, goAway, dial>>
    BY DEF Receives, UsersRest, userVars, conf, sendVars, openVars
  <1>5. recv[p] = "run" /\ ~closed[p] /\ bucket[p] > 0
    BY <1>1 DEF Receives, HasTokens
  <1>6. Head(wire[p]).ver = ver[p] /\ Head(wire[p]).cmd = cmd
    BY DEF Receives
  <1>7. QED
    BY <1>2, <1>3, <1>4, <1>5, <1>6 DEF Receiving

\* The frame is for no stream, or for none that there is.
Ignored(p) ==
    /\ Receiving(p) /\ UNCHANGED <<strm, accepts, bucket>>
    /\ Head(wire[p]).cmd # "NOP" /\ Head(wire[p]).cmd # "SYN" => ~strm[p][Head(wire[p]).sid].reg
    /\ Head(wire[p]).cmd = "SYN" => strm[p][Head(wire[p]).sid].reg

Registered == [Stream EXCEPT !.reg = TRUE]

\* A stream is opened by the other side.
Opened(p, i) ==
    /\ Receiving(p) /\ Is(Head(wire[p]), "SYN", i) /\ ~strm[p][i].reg
    /\ p = "server" /\ accepts' = Append(accepts, i) /\ bucket' = bucket
    /\ strm' \in Table(StreamType) /\ Only(strm, strm', p, i)
    /\ strm'[p][i] = Registered

\* A frame for stream i.
Arrives(p, i, cmd) ==
    /\ Receiving(p) /\ Is(Head(wire[p]), cmd, i) /\ accepts' = accepts
    /\ strm[p][i].reg /\ strm'[p][i].reg
    /\ strm' \in Table(StreamType) /\ Only(strm, strm', p, i)
    /\ strm'[p][i].numRead = strm[p][i].numRead
    /\ strm'[p][i].numWritten = strm[p][i].numWritten

FinArrives(p, i) ==
    /\ Arrives(p, i, "FIN") /\ bucket' = bucket
    /\ strm'[p][i].fin = TRUE /\ strm'[p][i].buf = strm[p][i].buf
    /\ strm'[p][i].consumed = strm[p][i].consumed /\ strm'[p][i].window = strm[p][i].window

PshArrives(p, i) ==
    /\ Arrives(p, i, "PSH")
    /\ Head(wire[p]).data \in Seq(Bytes) /\ Len(Head(wire[p]).data) \in 1 .. FrameSize
    /\ Returns(p, -Len(Head(wire[p]).data))
    /\ strm'[p][i].fin = strm[p][i].fin
    /\ strm'[p][i].buf = strm[p][i].buf \o Head(wire[p]).data
    /\ strm'[p][i].consumed = strm[p][i].consumed /\ strm'[p][i].window = strm[p][i].window

UpdArrives(p, i) ==
    /\ Arrives(p, i, "UPD") /\ bucket' = bucket
    /\ strm'[p][i].fin = strm[p][i].fin /\ strm'[p][i].buf = strm[p][i].buf
    /\ strm'[p][i].consumed = Head(wire[p]).data[1]
    /\ strm'[p][i].window = Head(wire[p]).data[2]

RecvSteps(p) ==
    \/ Ignored(p)
    \/ \E i \in Sids : Opened(p, i) \/ FinArrives(p, i) \/ PshArrives(p, i) \/ UpdArrives(p, i)

\* The frames by their commands.
LEMMA ByCommand ==
    ASSUME NEW p \in Sides, NEW f \in Frames(p)
    PROVE  /\ f.cmd = "NOP" => f.sid = 0
           /\ f.cmd \in {"SYN", "FIN", "PSH", "UPD"} => f.sid \in Sids
           /\ f.cmd = "SYN" => p = "client" /\ f \in Syns
           /\ f.cmd = "PSH" => f \in Pshs /\ f.data \in Seq(Bytes) /\ Len(f.data) \in 1 .. FrameSize
           /\ f.cmd = "UPD" => /\ f \in Upds
                               /\ f.data[1] \in 0 .. CountSpace - 1 /\ f.data[2] = StreamBuffer
           /\ f.cmd = "FIN" => f \in Fins
  BY DEF Frames, CtrlFrames, DataFrames, Nops, Upds, Syns, Pshs, Fins

LEMMA FreshStream ==
    /\ Stream \in StreamType
    /\ Registered \in StreamType
    /\ Registered.reg = TRUE
    /\ Stream.reg = FALSE /\ Stream.buf = <<>> /\ Stream.fin = FALSE
    /\ Stream.numRead = 0 /\ Stream.numWritten = 0 /\ Stream.consumed = 0
    /\ Stream.window = InitialWindow
    /\ Registered.buf = <<>> /\ Registered.fin = FALSE
    /\ Registered.numRead = 0 /\ Registered.numWritten = 0
    /\ Registered.consumed = 0
    /\ Registered.window = InitialWindow
  <1>1. <<>> \in Seq(Bytes) /\ 0 \in 0 .. CountSpace - 1
    BY Constants
  <1>2. QED
    BY <1>1 DEF Stream, StreamType, Registered

LEMMA RecvStepsFacts ==
    ASSUME Core, NEW p \in Sides,
           RecvNop(p) \/ RecvSyn(p) \/ RecvFin(p) \/ RecvPsh(p) \/ RecvUpd(p)
    PROVE  RecvSteps(p)
  <1> DEFINE f == Head(wire[p])
             i == f.sid
  <1>1. /\ strm \in Table(StreamType) /\ bucket \in [Sides -> Int]
    BY DEF Core, Types, Tables
  <1>2. CASE RecvNop(p)
    <2>1. Receiving(p) /\ f.cmd = "NOP"
      BY <1>2, ReceivesFacts DEF RecvNop
    <2>2. Ignored(p)
      BY <1>2, <2>1 DEF RecvNop, Ignored
    <2>3. QED
      BY <2>2 DEF RecvSteps
  <1>3. CASE RecvSyn(p)
    <2>1. Receiving(p) /\ f.cmd = "SYN"
      BY <1>3, ReceivesFacts DEF RecvSyn
    <2>2. i \in Sids /\ p = "server"
      BY <2>1, ByCommand, Peers DEF Receiving, Peer, Sides
    <2>3. CASE strm[p][i].reg
      <3>1. Ignored(p)
        BY <1>3, <2>1, <2>3 DEF RecvSyn, Ignored
      <3>2. QED
        BY <3>1 DEF RecvSteps
    <2>4. CASE ~strm[p][i].reg
      <3>1. strm' = Set2(strm, p, i, Registered) /\ accepts' = Append(accepts, i)
            /\ bucket' = bucket
        BY <1>3, <2>4 DEF RecvSyn, NewStream, Set2, Registered
      <3>2. strm' \in Table(StreamType) /\ Only(strm, strm', p, i)
            /\ strm'[p][i] = Registered
        BY <1>1, <2>2, <3>1, FreshStream, Set2Facts DEF Only
      <3>3. Opened(p, i)
        BY <2>1, <2>2, <2>4, <3>1, <3>2 DEF Opened, Is
      <3>4. QED
        BY <2>2, <3>3 DEF RecvSteps
    <2>5. QED
      BY <2>3, <2>4
  <1>4. ASSUME NEW cmd \in {"FIN", "PSH", "UPD"}, Receives(p, cmd), Drop(p, i), accepts' = accepts
        PROVE  RecvSteps(p)
    <2>1. Receiving(p) /\ f.cmd = cmd
      BY <1>4, ReceivesFacts
    <2>2. Ignored(p)
      BY <1>4, <2>1 DEF Drop, Ignored
    <2>3. QED
      BY <2>2 DEF RecvSteps
  <1>5. ASSUME NEW cmd \in {"FIN", "PSH", "UPD"}, Receives(p, cmd), accepts' = accepts,
               strm[p][i].reg, NEW s \in StreamType, strm' = Set2(strm, p, i, s), s.reg,
               s.numRead = strm[p][i].numRead, s.numWritten = strm[p][i].numWritten
        PROVE  Arrives(p, i, cmd) /\ i \in Sids /\ strm'[p][i] = s
    <2>1. Receiving(p) /\ f.cmd = cmd
      BY <1>5, ReceivesFacts
    <2>2. i \in Sids
      BY <2>1, ByCommand, Peers DEF Receiving
    <2>3. strm' \in Table(StreamType) /\ Only(strm, strm', p, i) /\ strm'[p][i] = s
      BY <1>1, <1>5, <2>2, Set2Facts DEF Only
    <2>4. QED
      BY <1>5, <2>1, <2>2, <2>3 DEF Arrives, Is
  <1>6. ASSUME NEW cmd \in {"FIN", "PSH", "UPD"}, Receives(p, cmd)
        PROVE  i \in Sids /\ f \in Frames(Peer(p)) /\ f.cmd = cmd /\ strm[p][i] \in StreamType
    <2>1. Receiving(p) /\ f.cmd = cmd
      BY <1>6, ReceivesFacts
    <2>2. i \in Sids /\ f \in Frames(Peer(p))
      BY <2>1, ByCommand, Peers DEF Receiving
    <2>3. QED
      BY <1>1, <2>1, <2>2 DEF Table
  <1>7. CASE RecvFin(p)
    <2>1. Receives(p, "FIN") /\ accepts' = accepts
      BY <1>7 DEF RecvFin
    <2>2. CASE Drop(p, i)
      BY <1>4, <2>1, <2>2
    <2>3. CASE /\ strm[p][i].reg /\ bucket' = bucket
               /\ strm' = [strm EXCEPT ![p][i].fin = TRUE, ![p][i].event = TRUE]
      <3> DEFINE s == [strm[p][i] EXCEPT !.fin = TRUE, !.event = TRUE]
      <3>1. strm' = Set2(strm, p, i, s)
        BY <1>1, <1>6, <2>1, <2>3 DEF Set2, Table
      <3>2. /\ s \in StreamType /\ s.reg = strm[p][i].reg /\ s.fin = TRUE /\ s.buf = strm[p][i].buf
            /\ s.numRead = strm[p][i].numRead /\ s.numWritten = strm[p][i].numWritten
            /\ s.consumed = strm[p][i].consumed /\ s.window = strm[p][i].window
        BY <1>6, <2>1 DEF StreamType
      <3> HIDE DEF s
      <3>3. Arrives(p, i, "FIN") /\ i \in Sids /\ strm'[p][i] = s
        BY <1>5, <2>1, <2>3, <3>1, <3>2
      <3>4. FinArrives(p, i)
        BY <2>3, <3>2, <3>3 DEF FinArrives
      <3>5. QED
        BY <3>3, <3>4 DEF RecvSteps
    <2>4. QED
      BY <1>7, <2>2, <2>3 DEF RecvFin
  <1>8. CASE RecvPsh(p)
    <2>1. Receives(p, "PSH") /\ accepts' = accepts
      BY <1>8 DEF RecvPsh
    <2>2. CASE Drop(p, i)
      BY <1>4, <2>1, <2>2
    <2>3. CASE /\ strm[p][i].reg /\ Push(p, i, f.data)
               /\ bucket' = [bucket EXCEPT ![p] = @ - Len(f.data)]
      <3> DEFINE s == [strm[p][i] EXCEPT !.buf = strm[p][i].buf \o f.data, !.event = TRUE]
      <3>1. strm' = Set2(strm, p, i, s)
        BY <1>1, <1>6, <2>1, <2>3 DEF Set2, Table, Push
      <3>2. f.data \in Seq(Bytes) /\ Len(f.data) \in 1 .. FrameSize /\ Len(f.data) \in Nat
        BY <1>6, <2>1, ByCommand, Peers, Constants
      <3>3. strm[p][i].buf \o f.data \in Seq(Bytes)
        BY <1>6, <2>1, <3>2 DEF StreamType
      <3> HIDE DEF f
      <3>4. /\ s \in StreamType /\ s.reg = strm[p][i].reg /\ s.fin = strm[p][i].fin
            /\ s.buf = strm[p][i].buf \o f.data
            /\ s.numRead = strm[p][i].numRead /\ s.numWritten = strm[p][i].numWritten
            /\ s.consumed = strm[p][i].consumed /\ s.window = strm[p][i].window
        BY <1>6, <2>1, <3>3 DEF StreamType
      <3> HIDE DEF s
      <3>5. Arrives(p, i, "PSH") /\ i \in Sids /\ strm'[p][i] = s
        BY <1>5, <2>1, <2>3, <3>1, <3>4
      <3>6. Returns(p, -Len(f.data))
        BY <1>1, <2>3, <3>2 DEF Returns
      <3>7. PshArrives(p, i)
        BY <3>2, <3>4, <3>5, <3>6 DEF PshArrives, f
      <3>8. QED
        BY <3>5, <3>7 DEF RecvSteps
    <2>4. QED
      BY <1>8, <2>2, <2>3 DEF RecvPsh
  <1>9. CASE RecvUpd(p)
    <2>1. Receives(p, "UPD") /\ accepts' = accepts
      BY <1>9 DEF RecvUpd
    <2>2. CASE Drop(p, i)
      BY <1>4, <2>1, <2>2
    <2>3. CASE /\ strm[p][i].reg /\ bucket' = bucket
               /\ strm' = [strm EXCEPT ![p][i].consumed = f.data[1], ![p][i].window = f.data[2],
                                       ![p][i].update = TRUE]
      <3> DEFINE s == [strm[p][i] EXCEPT !.consumed = f.data[1], !.window = f.data[2],
                                         !.update = TRUE]
      <3>1. strm' = Set2(strm, p, i, s)
        BY <1>1, <1>6, <2>1, <2>3 DEF Set2, Table
      <3>2. f.data[1] \in 0 .. CountSpace - 1 /\ f.data[2] = StreamBuffer
        BY <1>6, <2>1, ByCommand, Peers
      <3> HIDE DEF f
      <3>3. /\ s \in StreamType /\ s.reg = strm[p][i].reg /\ s.fin = strm[p][i].fin
            /\ s.buf = strm[p][i].buf
            /\ s.numRead = strm[p][i].numRead /\ s.numWritten = strm[p][i].numWritten
            /\ s.consumed = f.data[1] /\ s.window = f.data[2]
        BY <1>6, <2>1, <3>2 DEF StreamType
      <3> HIDE DEF s
      <3>4. Arrives(p, i, "UPD") /\ i \in Sids /\ strm'[p][i] = s
        BY <1>5, <2>1, <2>3, <3>1, <3>3
      <3>5. UpdArrives(p, i)
        BY <2>3, <3>3, <3>4 DEF UpdArrives, f
      <3>6. QED
        BY <3>4, <3>5 DEF RecvSteps
    <2>4. QED
      BY <1>9, <2>2, <2>3 DEF RecvUpd
  <1>10. QED
    BY <1>2, <1>3, <1>7, <1>8, <1>9

\* Nothing happens that the streams would notice; a Dial may give up.
Idles ==
    /\ UsersRest /\ Quiet
    /\ UNCHANGED <<ver, toWrite, closed, errs, recv, bucket, wire, accepts, strm, nextID, goAway>>
    /\ dial' = dial \/ dial'.pc # "syn"

\* keepalive sends a NOP.
Pings(p) ==
    /\ UsersRest /\ Asked(p, CTRL, Frame(p, "NOP", 0, <<>>))
    /\ UNCHANGED <<ver, toWrite, closed, errs, recv, bucket, wire, accepts, strm, nextID, goAway, dial>>

\* The session of p is closed, perhaps at the end of a Dial.
Dies(p) ==
    /\ closed' \in [Sides -> BOOLEAN] /\ closed'[p]
    /\ \A q \in Sides : q # p => closed'[q] = closed[q]
    /\ strm' \in Table(StreamType)
    /\ \A q \in Sides, j \in Sids :
          /\ Alike(strm[q][j], strm'[q][j])
          /\ ~strm[q][j].reg => strm'[q][j] = strm[q][j]
    /\ UsersRest /\ Quiet
    /\ UNCHANGED <<ver, toWrite, errs, recv, bucket, wire, accepts>>
    /\ nextID' \in Nat /\ (goAway' \/ UNCHANGED <<nextID, goAway>>)
    /\ dial' = dial \/ dial'.pc # "syn"

LEMMA SessionCloseFacts ==
    ASSUME Core, NEW p \in Sides, SessionClose(p), UsersRest, Quiet,
           UNCHANGED <<ver, toWrite, errs, recv, bucket, wire, accepts>>,
           nextID' \in Nat, goAway' \/ UNCHANGED <<nextID, goAway>>,
           dial' = dial \/ dial'.pc # "syn"
    PROVE  Dies(p)
  <1> DEFINE s(j) == IF strm[p][j].reg THEN [strm[p][j] EXCEPT !.die = TRUE] ELSE strm[p][j]
  <1>1. strm \in Table(StreamType) /\ closed \in [Sides -> BOOLEAN]
    BY DEF Core, Types, Tables
  <1>2. strm' = [strm EXCEPT ![p] = [j \in Sids |-> s(j)]]
    BY <1>1 DEF SessionClose, Table
  <1>3. ASSUME NEW j \in Sids
        PROVE  /\ s(j) \in StreamType /\ Alike(strm[p][j], s(j))
               /\ ~strm[p][j].reg => s(j) = strm[p][j]
    <2>1. strm[p][j] \in StreamType
      BY <1>1 DEF Table
    <2>2. QED
      BY <2>1 DEF StreamType, Alike
  <1> HIDE DEF s
  <1>4. strm' \in Table(StreamType)
    BY <1>1, <1>2, <1>3 DEF Table
  <1>5. ASSUME NEW q \in Sides, NEW j \in Sids
        PROVE  /\ Alike(strm[q][j], strm'[q][j])
               /\ ~strm[q][j].reg => strm'[q][j] = strm[q][j]
    <2>1. CASE q = p
      BY <1>1, <1>2, <1>3, <2>1 DEF Table
    <2>2. CASE q # p
      BY <1>1, <1>2, <2>2 DEF Table, Alike
    <2>3. QED
      BY <2>1, <2>2
  <1>6. closed' \in [Sides -> BOOLEAN] /\ closed'[p] /\ \A q \in Sides : q # p => closed'[q] = closed[q]
    BY <1>1 DEF SessionClose
  <1>7. QED
    BY <1>4, <1>5, <1>6 DEF Dies

\* The client hands in the SYN of its next stream.
Dials ==
    /\ ~goAway /\ goAway' = goAway
    /\ nextID' \in Sids /\ nextID' = nextID + 2
    /\ dial' = [pc |-> "syn", sid |-> nextID']
    /\ UsersRest /\ Asked("client", CTRL, Frame("client", "SYN", nextID', <<>>))
    /\ UNCHANGED <<ver, toWrite, closed, errs, recv, bucket, wire, accepts, strm>>

\* The users of stream i of side p begin.
Begins(p, i) ==
    /\ Tables' /\ cl' = cl /\ got' = got
    /\ Only(wr, wr', p, i) /\ Only(rd, rd', p, i)
    /\ wr'[p][i].pc = "start" /\ wr'[p][i].next = 1 /\ wr'[p][i].chunk = 0
    /\ wr'[p][i].n = 0 /\ wr'[p][i].out = ""
    /\ rd'[p][i].pc = "try" /\ rd'[p][i].n = 0 /\ rd'[p][i].out = "" /\ ~rd'[p][i].notify
    /\ Quiet
    /\ UNCHANGED <<ver, toWrite, closed, errs, recv, bucket, wire, nextID, goAway>>

\* The client puts the stream it has opened into its map.
Opens(i) ==
    /\ dial.pc = "syn" /\ dial.sid = i /\ call["client"][<<"SYN", i>>] = "ok"
    /\ dial'.pc # "syn" /\ accepts' = accepts
    /\ Begins("client", i)
    /\ Only(strm, strm', "client", i) /\ strm'["client"][i] = Registered

\* The server takes the next stream.
Accepts(i) ==
    /\ accepts # <<>> /\ i = Head(accepts) /\ accepts' = Tail(accepts)
    /\ strm' = strm /\ dial' = dial
    /\ Begins("server", i)

LEMMA BeginsFacts ==
    ASSUME Core, NEW p \in Sides, NEW i \in Sids, StartUsers(p, i), strm' \in Table(StreamType),
           Quiet, UNCHANGED <<ver, toWrite, closed, errs, recv, bucket, wire, nextID, goAway>>
    PROVE  Begins(p, i)
  <1> DEFINE w == [Writer EXCEPT !.pc = "start"]
             r == [Reader EXCEPT !.pc = "try"]
  <1>1. Tables /\ wr \in Table(WriterType) /\ rd \in Table(ReaderType)
    BY DEF Core, Types, Tables
  <1>2. /\ w \in WriterType /\ w.pc = "start" /\ w.next = 1 /\ w.chunk = 0 /\ w.n = 0 /\ w.out = ""
    <2>1. /\ Writer \in WriterType /\ Writer.next = 1 /\ Writer.chunk = 0 /\ Writer.n = 0
          /\ Writer.out = ""
      BY DEF Writer, WriterType, Outs
    <2>2. QED
      BY <2>1 DEF WriterType
  <1>3. r \in ReaderType /\ r.pc = "try" /\ r.n = 0 /\ r.out = "" /\ ~r.notify
    <2>1. Reader \in ReaderType /\ Reader.n = 0 /\ Reader.out = "" /\ ~Reader.notify
      BY DEF Reader, ReaderType
    <2>2. QED
      BY <2>1 DEF ReaderType
  <1>4. wr' = Set2(wr, p, i, w) /\ rd' = Set2(rd, p, i, r) /\ cl' = cl /\ got' = got
    BY Zenon DEF StartUsers, Set2
  <1> HIDE DEF w, r
  <1>5. wr' \in Table(WriterType) /\ wr'[p][i] = w /\ Only(wr, wr', p, i)
    <2>1. wr \in Table(WriterType) /\ w \in WriterType
      BY <1>1, <1>2
    <2>2. QED
      BY <1>4, <2>1, Set2Facts DEF Only
  <1>6. rd' \in Table(ReaderType) /\ rd'[p][i] = r /\ Only(rd, rd', p, i)
    <2>1. rd \in Table(ReaderType) /\ r \in ReaderType
      BY <1>1, <1>3
    <2>2. QED
      BY <1>4, <2>1, Set2Facts DEF Only
  <1>7. QED
    BY <1>1, <1>2, <1>3, <1>4, <1>5, <1>6 DEF Begins, Tables

\* The ids are odd, and the one after the last of them does not wrap to another.
LEMMA NextSid ==
    ASSUME Core, ~goAway, (nextID + 2) % IdSpace # ((nextID + 2) % IdSpace) % 2
    PROVE  (nextID + 2) % IdSpace \in Sids /\ (nextID + 2) % IdSpace = nextID + 2
  <1> DEFINE s == (nextID + 2) % IdSpace
  <1>1. nextID \in Nat /\ nextID % 2 = 1 /\ (nextID = 1 \/ nextID < IdSpace) /\ IdSpace \in Nat \ {0}
    <2>1. nextID \in Nat /\ (nextID = 1 \/ nextID \in Sids)
      BY DEF Core, DialOK, Types
    <2>2. CASE nextID = 1
      BY <2>2, Constants
    <2>3. CASE nextID \in Sids
      BY <2>3, Constants DEF Sids
    <2>4. QED
      BY <2>1, <2>2, <2>3
  <1>2. s \in 0 .. IdSpace - 1
    BY <1>1
  <1>3. CASE nextID + 2 < IdSpace
    <2>1. s = nextID + 2
      BY <1>1, <1>3
    <2>2. s % 2 = 1
      BY <1>1, <2>1
    <2>3. QED
      BY <1>1, <1>3, <2>1, <2>2 DEF Sids
  <1>4. CASE ~(nextID + 2 < IdSpace)
    <2>1. s \in {0, 1}
      <3>1. CASE nextID < IdSpace
        <4>1. nextID + 2 = IdSpace \/ nextID + 2 = IdSpace + 1
          BY <1>1, <1>4, <3>1
        <4>2. IdSpace >= 2
          BY <1>1, <3>1
        <4>3. QED
          BY <1>1, <4>1, <4>2
      <3>2. CASE ~(nextID < IdSpace)
        <4>1. nextID = 1 /\ IdSpace = 1
          BY <1>1, <3>2
        <4>2. QED
          BY <1>2, <4>1
      <3>3. QED
        BY <3>1, <3>2
    <2>2. s = s % 2
      BY <2>1
    <2>3. QED
      BY <2>2
  <1>5. QED
    BY <1>3, <1>4

LEMMA PingFacts ==
    ASSUME Core, NEW p \in Sides
    PROVE  /\ Ping(p) => Pings(p)
           /\ PingEnd(p) => Idles
           /\ KeepaliveTick(p) => Idles \/ Dies(p)
           /\ UNCHANGED vars => Idles
  <1>1. Types /\ call' = call => Calm
    BY CallSame
  <1>2. Types /\ ver[p] \in Vers /\ nextID \in Nat
    BY DEF Core, Types
  <1>3. ASSUME Ping(p) PROVE Pings(p)
    <2>1. Frame(p, "NOP", 0, <<>>) \in Class(p, CTRL)
      BY <1>2 DEF Frame, Class, CtrlFrames, Nops
    <2>2. Asked(p, CTRL, Frame(p, "NOP", 0, <<>>))
      BY <1>2, <1>3, <2>1, Submits DEF Ping, Classes
    <2>3. QED
      BY <1>3, <2>2 DEF Ping, Pings, UsersRest, userVars, conf, sessVars, openVars
  <1>4. ASSUME PingEnd(p) PROVE Idles
    <2>1. Calm
      BY <1>2, <1>4, CallEnds DEF PingEnd, Callers
    <2>2. QED
      BY <1>4, <2>1 DEF PingEnd, Idles, Quiet, UsersRest, userVars, conf, openVars
  <1>5. ASSUME KeepaliveTick(p) PROVE Idles \/ Dies(p)
    <2>1. Quiet /\ UsersRest
      BY <1>1, <1>2, <1>5 DEF KeepaliveTick, Quiet, sendVars, UsersRest, userVars
    <2>2. UNCHANGED <<ver, toWrite, errs, recv, bucket, wire, accepts, nextID, goAway, dial>>
      BY <1>5 DEF KeepaliveTick, conf, openVars
    <2>3. CASE UNCHANGED <<closed, strm>>
      BY <2>1, <2>2, <2>3 DEF Idles
    <2>4. CASE SessionClose(p)
      BY <1>2, <2>1, <2>2, <2>4, SessionCloseFacts
    <2>5. QED
      BY <1>5, <2>3, <2>4 DEF KeepaliveTick
  <1>6. ASSUME UNCHANGED vars PROVE Idles
    <2>1. Quiet
      BY <1>1, <1>2, <1>6 DEF vars, sendVars, Quiet
    <2>2. QED
      BY <1>6, <2>1 DEF vars, Idles, UsersRest, userVars, conf, sessVars, openVars
  <1>7. QED
    BY <1>3, <1>4, <1>5, <1>6

LEMMA DialStartFacts ==
    ASSUME Core, DialStart
    PROVE  Dies("client") \/ Dials
  <1> DEFINE s == (nextID + 2) % IdSpace
  <1>1. Types /\ "client" \in Sides /\ ver["client"] \in Vers /\ nextID \in Nat
    BY DEF Core, Types, Sides
  <1>2. UsersRest /\ UNCHANGED <<ver, toWrite, errs, recv, bucket, wire, accepts>>
    BY DEF DialStart, UsersRest, userVars, conf
  <1>3. UNCHANGED sendVars => Quiet
    BY <1>1, CallSame DEF sendVars, Quiet
  <1>4. s \in Nat
    BY <1>1, Constants
  <1>5. CASE DialFails /\ UNCHANGED <<nextID, goAway, sendVars>>
    <2>1. Dies("client")
      BY <1>1, <1>2, <1>3, <1>5, SessionCloseFacts DEF DialFails
    <2>2. QED
      BY <2>1
  <1>6. CASE DialFails /\ nextID' = s /\ goAway' = TRUE /\ UNCHANGED sendVars
    <2>1. Dies("client")
      BY <1>1, <1>2, <1>3, <1>4, <1>6, SessionCloseFacts DEF DialFails
    <2>2. QED
      BY <2>1
  <1>7. CASE /\ ~goAway /\ s # s % 2 /\ nextID' = s /\ UNCHANGED goAway
             /\ Submit("client", CTRL, Frame("client", "SYN", s, <<>>))
             /\ dial' = [pc |-> "syn", sid |-> s] /\ UNCHANGED <<closed, strm>>
    <2>1. s \in Sids /\ s = nextID + 2
      BY <1>7, NextSid
    <2> HIDE DEF s
    <2>2. Frame("client", "SYN", s, <<>>) \in Class("client", CTRL)
      BY <1>1, <2>1 DEF Frame, Class, CtrlFrames, Syns
    <2>3. Asked("client", CTRL, Frame("client", "SYN", s, <<>>))
      BY <1>1, <1>7, <2>2, Submits DEF Classes
    <2>4. Dials
      BY <1>2, <1>7, <2>1, <2>3 DEF Dials
    <2>5. QED
      BY <2>4
  <1>8. QED
    BY <1>5, <1>6, <1>7 DEF DialStart

LEMMA OpenFacts ==
    ASSUME Core, OpenFailed \/ OpenRegister
    PROVE  Idles \/ Dies("client") \/ \E i \in Sids : Opens(i)
  <1>1. Types /\ "client" \in Sides /\ nextID \in Nat /\ strm \in Table(StreamType)
    BY DEF Core, Types, Sides, Tables
  <1>2. dial.pc = "syn" /\ dial.sid \in Sids
    BY DEF Core, DialOK, OpenFailed, OpenRegister
  <1>3. <<"SYN", dial.sid>> \in Callers
    BY <1>2, InCallers
  <1>4. Quiet
    BY <1>1, <1>3, CallEnds DEF OpenFailed, OpenRegister, Quiet
  <1>5. UNCHANGED <<ver, toWrite, errs, recv, bucket, wire, accepts, nextID, goAway>>
    BY DEF OpenFailed, OpenRegister, conf
  <1>6. CASE OpenFails /\ UsersRest
    BY <1>1, <1>4, <1>5, <1>6, SessionCloseFacts DEF OpenFails, FirstDialFails, DialFails, Idles
  <1>7. CASE /\ CallOk("client", <<"SYN", dial.sid>>)
             /\ strm' = NewStream("client", dial.sid) /\ StartUsers("client", dial.sid)
             /\ dial' = [pc |-> "idle", sid |-> 0] /\ closed' = closed
    <2>1. strm' = Set2(strm, "client", dial.sid, Registered)
      BY <1>7 DEF NewStream, Set2, Registered
    <2>2. /\ strm' \in Table(StreamType) /\ Only(strm, strm', "client", dial.sid)
          /\ strm'["client"][dial.sid] = Registered
      BY <1>1, <1>2, <2>1, FreshStream, Set2Facts DEF Only
    <2>3. Begins("client", dial.sid)
      BY <1>1, <1>2, <1>4, <1>5, <1>7, <2>2, BeginsFacts
    <2>4. dial'.pc # "syn"
      BY <1>7
    <2>5. Opens(dial.sid)
      BY <1>2, <1>5, <1>7, <2>2, <2>3, <2>4 DEF Opens, CallOk
    <2>6. QED
      BY <1>2, <2>5
  <1>8. QED
    BY <1>6, <1>7 DEF OpenFailed, OpenRegister, UsersRest, userVars

LEMMA AcceptStreamFacts ==
    ASSUME Core, AcceptStream
    PROVE  Dies("server") \/ \E i \in Sids : Accepts(i)
  <1>1. Types /\ "server" \in Sides /\ nextID \in Nat /\ strm \in Table(StreamType)
        /\ accepts \in Seq(Sids)
    BY DEF Core, Types, Sides, Tables
  <1>2. Quiet /\ UNCHANGED <<ver, toWrite, errs, recv, bucket, wire, nextID, goAway, dial>>
    BY <1>1, CallSame DEF AcceptStream, Quiet, sendVars, conf
  <1>3. CASE SessionClose("server") /\ UNCHANGED <<accepts, userVars>>
    <2>1. UsersRest
      BY <1>3 DEF UsersRest, userVars
    <2>2. QED
      BY <1>1, <1>2, <1>3, <2>1, SessionCloseFacts
  <1>4. CASE /\ accepts # <<>> /\ accepts' = Tail(accepts) /\ StartUsers("server", Head(accepts))
             /\ UNCHANGED <<closed, strm, accepting>>
    <2> DEFINE i == Head(accepts)
    <2>1. i \in Sids
      BY <1>1, <1>4
    <2> HIDE DEF i
    <2>2. StartUsers("server", i) /\ strm' \in Table(StreamType)
      BY <1>1, <1>4 DEF i
    <2>3. Begins("server", i)
      BY <1>1, <1>2, <1>4, <2>1, <2>2, BeginsFacts
    <2>4. Accepts(i)
      BY <1>2, <1>4, <2>3 DEF Accepts, i
    <2>5. QED
      BY <2>1, <2>4
  <1>5. QED
    BY <1>3, <1>4 DEF AcceptStream

\* Every step is one of these.
SessionSteps ==
    \/ Idles \/ Dials
    \/ \E p \in Sides : Pings(p) \/ Dies(p) \/ LoopTurns(p) \/ RecvSteps(p)
    \/ \E p \in Sides, c \in Classes : Sent(p, c) \/ NotSent(p, c)
    \/ \E i \in Sids : Opens(i) \/ Accepts(i)

LEMMA Steps ==
    ASSUME Core, [Next]_vars
    PROVE  SessionSteps \/ \E p \in Sides, i \in Sids : UserSteps(p, i)
  <1>1. "client" \in Sides /\ "server" \in Sides
    BY DEF Sides
  <1>2. CASE UNCHANGED vars
    BY <1>1, <1>2, PingFacts DEF SessionSteps
  <1>3. CASE DialStart \/ OpenFailed \/ OpenRegister \/ AcceptStream
    BY <1>1, <1>3, DialStartFacts, OpenFacts, AcceptStreamFacts DEF SessionSteps
  <1>4. ASSUME NEW p \in Sides, Ping(p) \/ KeepaliveTick(p) \/ PingEnd(p)
        PROVE  SessionSteps
    BY <1>4, PingFacts DEF SessionSteps
  <1>5. ASSUME NEW p \in Sides, SendLoop(p)
        PROVE  SessionSteps
    BY <1>5, SendLoopFacts DEF SessionSteps
  <1>6. ASSUME NEW p \in Sides, RecvLoop(p)
        PROVE  SessionSteps
    BY <1>6, LoopTurnsFacts, RecvStepsFacts DEF SessionSteps, RecvLoop
  <1>7. ASSUME NEW p \in Sides, NEW i \in Sids, Writes(p, i) \/ Reads(p, i) \/ StreamCloses(p, i)
        PROVE  UserSteps(p, i)
    BY <1>7, UserStepsFacts
  <1>8. QED
    BY <1>2, <1>3, <1>4, <1>5, <1>6, <1>7 DEF Next, Goroutines

-----------------------------------------------------------------------------
(* The users and their calls.                                              *)

LEMMA CalmCalls ==
    ASSUME CallsOK, Calm, \A q \in Sides : "write" \in errs[q] => "write" \in errs'[q]
    PROVE  CallsOK'
  BY DEF CallsOK, Calm

LEMMA HeapKept ==
    ASSUME Types, Quiet
    PROVE  HeapType(heap') /\ Calm
  BY DEF Types, Quiet

\* The other streams do not notice what the users of one do.
LEMMA UserCore ==
    ASSUME Core, NEW p \in Sides, NEW i \in Sids, UserStep(p, i), bucket' \in [Sides -> Int],
           HeapType(heap'), Calm, WriterOK(p, i)', UsersOK(p, i)'
    PROVE  Core'
  <1>1. Types'
    BY DEF Core, Types, UserStep, Calm
  <1>2. CallsOK'
    BY CalmCalls DEF Core, UserStep
  <1>3. DialOK'
    BY DEF Core, DialOK, UserStep
  <1>4. ASSUME NEW q \in Sides, NEW j \in Sids PROVE WriterOK(q, j)' /\ UsersOK(q, j)'
    <2>1. CASE q = p /\ j = i
      BY <2>1
    <2>2. CASE q # p \/ j # i
      <3>1. WriterOK(q, j) /\ UsersOK(q, j)
        BY DEF Core
      <3>2. wr'[q][j] = wr[q][j] /\ rd'[q][j] = rd[q][j] /\ cl'[q][j] = cl[q][j]
            /\ strm'[q][j] = strm[q][j]
        BY <2>2 DEF UserStep, Only
      <3>3. ver' = ver /\ toWrite' = toWrite /\ closed' = closed /\ errs' = errs
        BY DEF UserStep
      <3>4. QED
        BY <3>1, <3>2, <3>3 DEF WriterOK, UsersOK, Broken
    <2>3. QED
      BY <2>1, <2>2
  <1>5. QED
    BY <1>1, <1>2, <1>3, <1>4 DEF Core

LEMMA WriterTurnsCore ==
    ASSUME Core, NEW p \in Sides, NEW i \in Sids, WriterTurns(p, i)
    PROVE  Core'
  <1>1. PICK pc \in {"end", "window", "frame"}, out \in Outs :
           /\ WriterMoves(p, i, pc, out)
           /\ wr[p][i].pc \in {"start", "frame", "window", "sending"}
           /\ wr[p][i].pc = "sending" => Broken(p)
           /\ pc # "end" => wr[p][i].pc # "sending" /\ wr[p][i].next <= toWrite[p]
    BY DEF WriterTurns
  <1>2. WriterOK(p, i) /\ UsersOK(p, i) /\ Types
    BY DEF Core
  <1>3. UserStep(p, i) /\ UNCHANGED <<rd, cl, bucket>> /\ Quiet
    BY <1>1 DEF WriterMoves, Writing
  <1>4. ver' = ver /\ toWrite' = toWrite /\ (Broken(p)' <=> Broken(p))
    BY <1>3 DEF UserStep, Broken
  <1>5. /\ wr'[p][i].pc = pc /\ wr'[p][i].next = wr[p][i].next /\ wr'[p][i].chunk = wr[p][i].chunk
        /\ wr'[p][i].n = wr[p][i].n
    BY <1>1 DEF WriterMoves
  <1>6. WriterOK(p, i)'
    BY <1>1, <1>2, <1>4, <1>5 DEF WriterOK
  <1>7. UsersOK(p, i)'
    <2>1. strm'[p][i].reg = strm[p][i].reg /\ strm'[p][i].buf = strm[p][i].buf
      BY <1>1 DEF WriterMoves, Alike
    <2>2. cl[p][i] = "off"
      BY <1>1, <1>2 DEF UsersOK
    <2>3. QED
      BY <1>2, <1>3, <1>4, <2>1, <2>2 DEF UsersOK
  <1>8. bucket' \in [Sides -> Int] /\ HeapType(heap') /\ Calm
    BY <1>2, <1>3, HeapKept DEF Types
  <1>9. QED
    BY <1>3, <1>6, <1>7, <1>8, UserCore

LEMMA FrameAskedCore ==
    ASSUME Core, NEW p \in Sides, NEW i \in Sids, FrameAsked(p, i)
    PROVE  Core'
  <1>1. WriterOK(p, i) /\ UsersOK(p, i) /\ Types
    BY DEF Core
  <1>2. UserStep(p, i) /\ UNCHANGED <<rd, cl, bucket>> /\ strm'[p][i] = strm[p][i]
    BY DEF FrameAsked, Writing
  <1>3. ver' = ver /\ toWrite' = toWrite
    BY <1>2 DEF UserStep
  <1>4. /\ wr'[p][i].pc = "sending" /\ wr'[p][i].n \in 1 .. wr'[p][i].chunk /\ wr'[p][i].n <= FrameSize
        /\ wr'[p][i].next - 1 + wr'[p][i].chunk <= toWrite[p]
    BY DEF FrameAsked
  <1>5. WriterOK(p, i)'
    BY <1>3, <1>4 DEF WriterOK
  <1>6. UsersOK(p, i)'
    <2>1. cl[p][i] = "off"
      BY <1>1 DEF UsersOK, FrameAsked
    <2>2. QED
      BY <1>1, <1>2, <1>3, <2>1 DEF UsersOK
  <1>7. bucket' \in [Sides -> Int] /\ HeapType(heap') /\ Calm
    BY <1>1, <1>2 DEF Types, FrameAsked, Asked
  <1>8. QED
    BY <1>2, <1>5, <1>6, <1>7, UserCore

\* What a writer has sent of a chunk moves from the chunk to its position.
LEMMA MovedAlong ==
    ASSUME NEW x \in Int, NEW y \in Int, NEW z \in Int
    PROVE  (x + z) - 1 + (y - z) = x - 1 + y
  OBVIOUS

LEMMA FrameSentCore ==
    ASSUME Core, NEW p \in Sides, NEW i \in Sids, FrameSent(p, i)
    PROVE  Core'
  <1>1. WriterOK(p, i) /\ UsersOK(p, i) /\ Types /\ wr[p][i] \in WriterType
    BY SameTables DEF Core
  <1>2. UserStep(p, i) /\ UNCHANGED <<rd, cl, bucket>> /\ Quiet
    BY DEF FrameSent, Writing
  <1>3. ver' = ver /\ toWrite' = toWrite
    BY <1>2 DEF UserStep
  <1>4. wr[p][i].n \in 1 .. wr[p][i].chunk /\ wr[p][i].chunk \in Nat /\ wr[p][i].next \in Nat
        /\ wr[p][i].next - 1 + wr[p][i].chunk <= toWrite[p]
    BY <1>1 DEF WriterOK, FrameSent, WriterType
  <1>5. WriterOK(p, i)'
    <2>1. /\ wr'[p][i].next = wr[p][i].next + wr[p][i].n
          /\ wr'[p][i].chunk = wr[p][i].chunk - wr[p][i].n
          /\ wr'[p][i].n = 0
          /\ \/ wr'[p][i].pc = "end"
             \/ wr'[p][i].pc \in {"frame", "window"} /\ wr'[p][i].next <= toWrite[p]
      BY DEF FrameSent
    <2>2. wr'[p][i].next - 1 + wr'[p][i].chunk <= toWrite[p]
      <3>1. wr'[p][i].next - 1 + wr'[p][i].chunk
              = (wr[p][i].next + wr[p][i].n) - 1 + (wr[p][i].chunk - wr[p][i].n)
        BY <2>1
      <3>2. wr[p][i].next \in Int /\ wr[p][i].chunk \in Int /\ wr[p][i].n \in Int
        BY <1>4
      <3>3. QED
        BY <1>4, <3>1, <3>2, MovedAlong
    <2>3. QED
      BY <1>3, <2>1, <2>2 DEF WriterOK
  <1>6. UsersOK(p, i)'
    <2>1. cl[p][i] = "off"
      BY <1>1 DEF UsersOK, FrameSent
    <2>2. strm'[p][i].reg = strm[p][i].reg /\ strm'[p][i].buf = strm[p][i].buf
      BY DEF FrameSent
    <2>3. QED
      BY <1>1, <1>2, <1>3, <2>1, <2>2 DEF UsersOK
  <1>7. bucket' \in [Sides -> Int] /\ HeapType(heap') /\ Calm
    BY <1>1, <1>2, HeapKept DEF Types
  <1>8. QED
    BY <1>2, <1>5, <1>6, <1>7, UserCore

LEMMA ReaderCore ==
    ASSUME Core, NEW p \in Sides, NEW i \in Sids,
           (\E n \in Nat : Taken(p, i, n)) \/ Returned(p, i) \/ ReaderMoves(p, i)
    PROVE  Core'
  <1>1. WriterOK(p, i) /\ UsersOK(p, i) /\ Types /\ strm[p][i] \in StreamType
    BY SameTables DEF Core
  <1>2. Reading(p, i) /\ UserStep(p, i) /\ wr' = wr /\ cl' = cl
    BY DEF Taken, Returned, ReaderMoves, Reading
  <1>3. ver' = ver /\ toWrite' = toWrite /\ (Broken(p)' <=> Broken(p))
    BY <1>2 DEF UserStep, Broken
  <1>4. WriterOK(p, i)'
    BY <1>1, <1>2, <1>3 DEF WriterOK
  <1>5. rd[p][i].pc # "end" /\ cl[p][i] = "off" /\ rd[p][i].out # "EOF"
    BY <1>1 DEF UsersOK, Taken, Returned, ReaderMoves
  <1>6. bucket' \in [Sides -> Int] /\ HeapType(heap') /\ Calm
    BY <1>1 DEF Types, Taken, Returned, ReaderMoves, Returns, Quiet, Asked
  <1>7. UsersOK(p, i)'
    <2>1. CASE \E n \in Nat : Taken(p, i, n)
      <3>1. PICK n \in Nat : Taken(p, i, n)
        BY <2>1
      <3>2. strm[p][i].reg /\ strm'[p][i].reg
        <4>1. strm[p][i].buf # <<>>
          <5>1. n \in 1 .. Len(strm[p][i].buf)
            BY <3>1 DEF Taken
          <5>2. QED
            BY <5>1
        <4>2. QED
          BY <1>1, <3>1, <4>1 DEF Taken, UsersOK
      <3>3. rd'[p][i].out # "EOF" /\ (rd'[p][i].notify => ver[p] = 2)
        BY <1>5, <3>1 DEF Taken
      <3>4. QED
        BY <1>2, <1>3, <1>5, <3>2, <3>3 DEF UsersOK
    <2>2. CASE Returned(p, i)
      <3>1. strm' = strm /\ rd'[p][i].out # "EOF" /\ rd'[p][i].notify = rd[p][i].notify
        BY <1>5, <2>2 DEF Returned
      <3>2. QED
        BY <1>1, <1>2, <1>3, <1>5, <3>1 DEF UsersOK
    <2>3. CASE ReaderMoves(p, i)
      <3>1. strm'[p][i].reg = strm[p][i].reg /\ strm'[p][i].buf = strm[p][i].buf
        BY <2>3 DEF ReaderMoves, Alike
      <3>2. rd'[p][i].notify = rd[p][i].notify /\ (rd'[p][i].out = "EOF" => rd'[p][i].pc = "end")
        BY <1>5, <2>3 DEF ReaderMoves
      <3>3. QED
        BY <1>1, <1>2, <1>3, <1>5, <3>1, <3>2 DEF UsersOK
    <2>4. QED
      BY <2>1, <2>2, <2>3
  <1>8. QED
    BY <1>2, <1>4, <1>6, <1>7, UserCore

LEMMA CloseCore ==
    ASSUME Core, NEW p \in Sides, NEW i \in Sids, CloseBegins(p, i) \/ CloseDone(p, i)
    PROVE  Core'
  <1>1. WriterOK(p, i) /\ UsersOK(p, i) /\ Types
    BY DEF Core
  <1>2. UserStep(p, i) /\ wr' = wr /\ rd' = rd
    BY DEF CloseBegins, CloseDone, Closing
  <1>3. ver' = ver /\ toWrite' = toWrite /\ (Broken(p)' <=> Broken(p))
    BY <1>2 DEF UserStep, Broken
  <1>4. WriterOK(p, i)'
    BY <1>1, <1>2, <1>3 DEF WriterOK
  <1>5. wr[p][i].pc = "end" /\ rd[p][i].pc = "end"
    BY DEF CloseBegins, CloseDone
  <1>6. bucket' \in [Sides -> Int] /\ HeapType(heap') /\ Calm
    BY <1>1 DEF Types, CloseBegins, CloseDone, Returns, Quiet, Asked
  <1>7. UsersOK(p, i)'
    <2>1. ~strm'[p][i].reg => strm'[p][i].buf = <<>>
      BY <1>1 DEF CloseBegins, CloseDone, UsersOK
    <2>2. QED
      BY <1>1, <1>2, <1>3, <1>5, <2>1 DEF UsersOK
  <1>8. QED
    BY <1>2, <1>4, <1>6, <1>7, UserCore

\* A step of the session that leaves the users alone.
LEMMA RestCore ==
    ASSUME Core, UsersRest, UNCHANGED <<ver, toWrite>>,
           closed' \in [Sides -> BOOLEAN], errs' \in [Sides -> SUBSET {"read", "write", "proto"}],
           recv' \in [Sides -> {"run", "end"}], bucket' \in [Sides -> Int], nextID' \in Nat,
           HeapType(heap'), call' \in CallType, WireType(wire'), accepts' \in Seq(Sids),
           strm' \in Table(StreamType), CallsOK', DialOK',
           \A q \in Sides : Broken(q) => Broken(q)',
           \A q \in Sides, j \in Sids : ~strm'[q][j].reg => strm'[q][j].buf = <<>>
    PROVE  Core'
  <1>1. Types'
    BY DEF Core, Types, Tables, UsersRest
  <1>2. ASSUME NEW q \in Sides, NEW j \in Sids PROVE WriterOK(q, j)' /\ UsersOK(q, j)'
    <2>1. WriterOK(q, j) /\ UsersOK(q, j)
      BY DEF Core
    <2>2. wr' = wr /\ rd' = rd /\ cl' = cl
      BY DEF UsersRest
    <2>3. WriterOK(q, j)'
      BY <2>1, <2>2 DEF WriterOK
    <2>4. UsersOK(q, j)'
      BY <2>1, <2>2 DEF UsersOK
    <2>5. QED
      BY <2>3, <2>4
  <1>3. QED
    BY <1>1, <1>2 DEF Core

LEMMA EmptyBuffers ==
    ASSUME Core, NEW q \in Sides, NEW j \in Sids, ~strm[q][j].reg
    PROVE  strm[q][j].buf = <<>>
  BY DEF Core, UsersOK

LEMMA IdlesCore ==
    ASSUME Core, Idles \/ (\E p \in Sides : Pings(p)) \/ Dials
    PROVE  Core'
  <1>1. /\ UsersRest /\ UNCHANGED <<ver, toWrite, closed, errs, recv, bucket, wire, accepts, strm>>
    BY DEF Idles, Pings, Dials
  <1>2. Types
    BY DEF Core
  <1>3. HeapType(heap') /\ Calm
    BY <1>2 DEF Types, Idles, Pings, Dials, Quiet, Asked
  <1>4. CallsOK'
    BY <1>1, <1>3, CalmCalls DEF Core
  <1>5. DialOK' /\ nextID' \in Nat
    <2>1. CASE UNCHANGED <<nextID, goAway>> /\ (dial' = dial \/ dial'.pc # "syn")
      BY <2>1 DEF Core, DialOK, Types
    <2>2. CASE Dials
      BY <2>2, Constants DEF Dials, DialOK
    <2>3. QED
      BY <2>1, <2>2 DEF Idles, Pings
  <1>6. \A q \in Sides : Broken(q) => Broken(q)'
    BY <1>1 DEF Broken
  <1>7. \A q \in Sides, j \in Sids : ~strm'[q][j].reg => strm'[q][j].buf = <<>>
    BY <1>1, EmptyBuffers
  <1>8. call' \in CallType
    BY <1>3 DEF Calm
  <1>9. QED
    BY <1>1, <1>2, <1>3, <1>4, <1>5, <1>6, <1>7, <1>8, RestCore DEF Types, Tables

LEMMA DiesCore ==
    ASSUME Core, NEW p \in Sides, Dies(p)
    PROVE  Core'
  <1>1. Types
    BY DEF Core
  <1>2. HeapType(heap') /\ Calm
    BY <1>1, HeapKept DEF Dies
  <1>3. CallsOK' /\ call' \in CallType
    BY <1>2, CalmCalls DEF Core, Dies, Calm
  <1>4. DialOK'
    BY DEF Core, DialOK, Dies
  <1>5. \A q \in Sides : Broken(q) => Broken(q)'
    BY DEF Broken, Dies
  <1>6. \A q \in Sides, j \in Sids : ~strm'[q][j].reg => strm'[q][j].buf = <<>>
    BY EmptyBuffers DEF Dies, Alike
  <1>7. UsersRest /\ UNCHANGED <<ver, toWrite, errs, recv, bucket, wire, accepts>>
        /\ closed' \in [Sides -> BOOLEAN] /\ strm' \in Table(StreamType) /\ nextID' \in Nat
    BY DEF Dies
  <1>8. QED
    BY <1>1, <1>2, <1>3, <1>4, <1>5, <1>6, <1>7, RestCore DEF Types

LEMMA LoopTurnsCore ==
    ASSUME Core, NEW p \in Sides, LoopTurns(p)
    PROVE  Core'
  <1>1. Types
    BY DEF Core
  <1>2. UsersRest
        /\ UNCHANGED <<ver, toWrite, closed, bucket, heap, call, accepts, strm, nextID, goAway, dial>>
    BY DEF LoopTurns
  <1>3. CallsOK' /\ DialOK'
    BY <1>2 DEF Core, CallsOK, DialOK, LoopTurns
  <1>4. \A q \in Sides : Broken(q) => Broken(q)'
    BY DEF Broken, LoopTurns
  <1>5. \A q \in Sides, j \in Sids : ~strm'[q][j].reg => strm'[q][j].buf = <<>>
    BY <1>2, EmptyBuffers
  <1>6. WireType(wire')
    BY <1>1 DEF LoopTurns, Types
  <1>7. errs' \in [Sides -> SUBSET {"read", "write", "proto"}] /\ recv' \in [Sides -> {"run", "end"}]
    BY DEF LoopTurns
  <1>8. QED
    BY <1>1, <1>2, <1>3, <1>4, <1>5, <1>6, <1>7, RestCore DEF Types, Tables

LEMMA SendCore ==
    ASSUME Core, NEW p \in Sides, NEW c \in Classes, Sent(p, c) \/ NotSent(p, c)
    PROVE  Core'
  <1>1. Types
    BY DEF Core
  <1>2. /\ UsersRest
        /\ UNCHANGED <<ver, toWrite, closed, recv, bucket, accepts, strm, nextID, goAway, dial>>
        /\ HeapType(heap') /\ call' \in CallType
    BY DEF Sent, NotSent, Sending
  <1>3. /\ errs' \in [Sides -> SUBSET {"read", "write", "proto"}]
        /\ \A q \in Sides : errs[q] \subseteq errs'[q]
    BY <1>1 DEF Types, Sent, NotSent
  <1>4. CallsOK'
    <2>1. ASSUME NEW q \in Sides, NEW w \in Callers, call'[q][w] = "failed"
          PROVE  "write" \in errs'[q]
      <3>1. CASE call[q][w] = "failed"
        BY <1>3, <3>1 DEF Core, CallsOK
      <3>2. CASE call[q][w] # "failed"
        BY <2>1, <3>2 DEF Sent, NotSent
      <3>3. QED
        BY <3>1, <3>2
    <2>2. QED
      BY <2>1 DEF CallsOK
  <1>5. DialOK'
    BY <1>2 DEF Core, DialOK
  <1>6. \A q \in Sides : Broken(q) => Broken(q)'
    BY <1>2, <1>3 DEF Broken
  <1>7. \A q \in Sides, j \in Sids : ~strm'[q][j].reg => strm'[q][j].buf = <<>>
    BY <1>2, EmptyBuffers
  <1>8. WireType(wire')
    BY <1>1 DEF Types, Sent, NotSent
  <1>9. QED
    BY <1>1, <1>2, <1>3, <1>4, <1>5, <1>6, <1>7, <1>8, RestCore DEF Types, Tables

LEMMA RecvCore ==
    ASSUME Core, NEW p \in Sides, RecvSteps(p)
    PROVE  Core'
  <1>1. Types
    BY DEF Core
  <1>2. Receiving(p)
    BY DEF RecvSteps, Ignored, Opened, FinArrives, PshArrives, UpdArrives, Arrives
  <1>3. /\ UsersRest /\ WireType(wire')
        /\ UNCHANGED <<ver, toWrite, closed, errs, recv, heap, call, nextID, goAway, dial>>
    BY <1>2 DEF Receiving
  <1>4. CallsOK' /\ DialOK'
    BY <1>3 DEF Core, CallsOK, DialOK
  <1>5. \A q \in Sides : Broken(q) => Broken(q)'
    BY <1>3 DEF Broken
  <1> DEFINE Fine ==
        /\ accepts' \in Seq(Sids) /\ strm' \in Table(StreamType) /\ bucket' \in [Sides -> Int]
        /\ \A q \in Sides, j \in Sids : ~strm'[q][j].reg => strm'[q][j].buf = <<>>
  <1>6. Fine
    <2>1. /\ accepts \in Seq(Sids) /\ strm \in Table(StreamType) /\ bucket \in [Sides -> Int]
      BY <1>1 DEF Types, Tables
    <2>2. CASE Ignored(p)
      BY <2>1, <2>2, EmptyBuffers DEF Ignored
    <2>3. ASSUME NEW i \in Sids, Opened(p, i)
          PROVE  Fine
      <3>1. accepts' \in Seq(Sids) /\ strm' \in Table(StreamType) /\ bucket' \in [Sides -> Int]
        BY <2>1, <2>3 DEF Opened
      <3>2. Only(strm, strm', p, i) /\ strm'[p][i].reg
        BY <2>3, FreshStream DEF Opened
      <3>3. \A q \in Sides, j \in Sids : ~strm'[q][j].reg => strm'[q][j].buf = <<>>
        BY <3>2, EmptyBuffers DEF Only
      <3>4. QED
        BY <3>1, <3>3
    <2>4. ASSUME NEW i \in Sids, NEW cmd, Arrives(p, i, cmd)
          PROVE  /\ accepts' \in Seq(Sids) /\ strm' \in Table(StreamType)
                 /\ \A q \in Sides, j \in Sids : ~strm'[q][j].reg => strm'[q][j].buf = <<>>
      BY <2>1, <2>4, EmptyBuffers DEF Arrives, Only
    <2>5. ASSUME NEW i \in Sids, FinArrives(p, i) \/ PshArrives(p, i) \/ UpdArrives(p, i)
          PROVE  Fine
      <3>1. bucket' \in [Sides -> Int]
        BY <2>1, <2>5 DEF FinArrives, PshArrives, UpdArrives, Returns
      <3>2. \E cmd \in {"FIN", "PSH", "UPD"} : Arrives(p, i, cmd)
        BY <2>5 DEF FinArrives, PshArrives, UpdArrives
      <3>3. QED
        BY <2>4, <3>1, <3>2
    <2>6. QED
      BY <2>2, <2>3, <2>5 DEF RecvSteps
  <1>7. QED
    BY <1>1, <1>3, <1>4, <1>5, <1>6, RestCore DEF Types

LEMMA BeginsCore ==
    ASSUME Core, NEW p \in Sides, NEW i \in Sids, Begins(p, i), accepts' \in Seq(Sids), DialOK',
           cl[p][i] = "off", strm' = strm \/ (Only(strm, strm', p, i) /\ strm'[p][i] = Registered)
    PROVE  Core'
  <1>1. Types
    BY DEF Core
  <1>2. HeapType(heap') /\ Calm
    BY <1>1, HeapKept DEF Begins
  <1>3. UNCHANGED <<ver, toWrite, closed, errs, recv, bucket, wire, nextID, goAway, cl, got>> /\ Tables'
    BY DEF Begins
  <1>4. Types'
    BY <1>1, <1>2, <1>3 DEF Types, Calm
  <1>5. CallsOK'
    BY <1>2, <1>3, CalmCalls DEF Core
  <1>6. ASSUME NEW q \in Sides, NEW j \in Sids PROVE WriterOK(q, j)' /\ UsersOK(q, j)'
    <2>1. WriterOK(q, j) /\ UsersOK(q, j)
      BY DEF Core
    <2>2. ~strm'[q][j].reg => strm'[q][j].buf = <<>>
      BY EmptyBuffers, FreshStream DEF Only
    <2>3. CASE q = p /\ j = i
      <3>1. WriterOK(q, j)'
        <4>1. toWrite[p] \in Nat /\ toWrite' = toWrite
          BY <1>1, <1>3 DEF Types
        <4>2. wr'[p][i].pc = "start" /\ wr'[p][i].next = 1 /\ wr'[p][i].chunk = 0 /\ wr'[p][i].n = 0
          BY DEF Begins
        <4>3. QED
          BY <2>3, <4>1, <4>2 DEF WriterOK
      <3>2. UsersOK(q, j)'
        BY <1>3, <2>2, <2>3 DEF UsersOK, Begins
      <3>3. QED
        BY <3>1, <3>2
    <2>4. CASE q # p \/ j # i
      <3>1. wr'[q][j] = wr[q][j] /\ rd'[q][j] = rd[q][j]
        BY <2>4 DEF Begins, Only
      <3>2. WriterOK(q, j)'
        BY <1>3, <2>1, <3>1 DEF WriterOK, Broken
      <3>3. UsersOK(q, j)'
        BY <1>3, <2>1, <2>2, <3>1 DEF UsersOK
      <3>4. QED
        BY <3>2, <3>3
    <2>5. QED
      BY <2>3, <2>4
  <1>7. QED
    BY <1>4, <1>5, <1>6 DEF Core

-----------------------------------------------------------------------------
(* The ids of streams are used once.                                       *)

LEMMA HasTail ==
    ASSUME NEW T, NEW s \in Seq(T), s # <<>>, NEW cmd, NEW i
    PROVE  /\ Has(Tail(s), cmd, i) => Has(s, cmd, i)
           /\ Has(s, cmd, i) <=> Is(Head(s), cmd, i) \/ Has(Tail(s), cmd, i)
  <1>1. Len(Tail(s)) = Len(s) - 1 /\ Len(s) \in Nat \ {0} /\ Head(s) = s[1]
    BY DEF Has
  <1>2. \A a \in 1 .. Len(Tail(s)) : Tail(s)[a] = s[a + 1]
    OBVIOUS
  <1>3. ASSUME Has(Tail(s), cmd, i) PROVE Has(s, cmd, i)
    <2>1. PICK a \in 1 .. Len(Tail(s)) : Is(Tail(s)[a], cmd, i)
      BY <1>3 DEF Has
    <2>2. a + 1 \in 1 .. Len(s) /\ Is(s[a + 1], cmd, i)
      BY <1>1, <1>2, <2>1
    <2>3. QED
      BY <2>2 DEF Has
  <1>4. ASSUME Has(s, cmd, i) PROVE Is(Head(s), cmd, i) \/ Has(Tail(s), cmd, i)
    <2>1. PICK a \in 1 .. Len(s) : Is(s[a], cmd, i)
      BY <1>4 DEF Has
    <2>2. CASE a = 1
      BY <1>1, <2>1, <2>2
    <2>3. CASE a # 1
      <3>1. a - 1 \in 1 .. Len(Tail(s)) /\ Tail(s)[a - 1] = s[a]
        BY <1>1, <1>2, <2>1, <2>3
      <3>2. QED
        BY <2>1, <3>1 DEF Has
    <2>4. QED
      BY <2>2, <2>3
  <1>5. ASSUME Is(Head(s), cmd, i) PROVE Has(s, cmd, i)
    BY <1>1, <1>5 DEF Has
  <1>6. QED
    BY <1>3, <1>4, <1>5

LEMMA HasAppend ==
    ASSUME NEW T, NEW s \in Seq(T), NEW f \in T, NEW cmd, NEW i
    PROVE  Has(Append(s, f), cmd, i) <=> Has(s, cmd, i) \/ Is(f, cmd, i)
  <1>1. /\ Len(Append(s, f)) = Len(s) + 1 /\ Len(s) \in Nat
        /\ \A a \in 1 .. Len(s) : Append(s, f)[a] = s[a]
        /\ Append(s, f)[Len(s) + 1] = f
    OBVIOUS
  <1>2. ASSUME Has(Append(s, f), cmd, i) PROVE Has(s, cmd, i) \/ Is(f, cmd, i)
    <2>1. PICK a \in 1 .. Len(s) + 1 : Is(Append(s, f)[a], cmd, i)
      BY <1>1, <1>2 DEF Has
    <2>2. CASE a = Len(s) + 1
      BY <1>1, <2>1, <2>2
    <2>3. CASE a # Len(s) + 1
      <3>1. a \in 1 .. Len(s)
        BY <1>1, <2>3
      <3>2. QED
        BY <1>1, <2>1, <3>1 DEF Has
    <2>4. QED
      BY <2>2, <2>3
  <1>3. ASSUME Has(s, cmd, i) PROVE Has(Append(s, f), cmd, i)
    <2>1. PICK a \in 1 .. Len(s) : Is(s[a], cmd, i)
      BY <1>3 DEF Has
    <2>2. a \in 1 .. Len(Append(s, f)) /\ Is(Append(s, f)[a], cmd, i)
      BY <1>1, <2>1
    <2>3. QED
      BY <2>2 DEF Has
  <1>4. ASSUME Is(f, cmd, i) PROVE Has(Append(s, f), cmd, i)
    <2>1. Len(s) + 1 \in 1 .. Len(Append(s, f)) /\ Is(Append(s, f)[Len(s) + 1], cmd, i)
      BY <1>1, <1>4
    <2>2. QED
      BY <2>1 DEF Has
  <1>5. QED
    BY <1>2, <1>3, <1>4

LEMMA OnceTail ==
    ASSUME NEW T, NEW s \in Seq(T), s # <<>>, Once(s)
    PROVE  /\ Once(Tail(s))
           /\ \A i : Is(Head(s), "SYN", i) => ~Has(Tail(s), "SYN", i)
  <1>1. /\ Len(Tail(s)) = Len(s) - 1 /\ Len(s) \in Nat \ {0} /\ Head(s) = s[1]
        /\ \A a \in 1 .. Len(Tail(s)) : Tail(s)[a] = s[a + 1] /\ a + 1 \in 1 .. Len(s)
    OBVIOUS
  <1>2. ASSUME NEW a \in 1 .. Len(Tail(s)), NEW b \in 1 .. Len(Tail(s)),
               Tail(s)[a].cmd = "SYN", Tail(s)[b].cmd = "SYN", Tail(s)[a].sid = Tail(s)[b].sid
        PROVE  a = b
    <2>1. a + 1 = b + 1
      BY <1>1, <1>2 DEF Once
    <2>2. QED
      BY <2>1
  <1>3. Once(Tail(s))
    BY <1>2 DEF Once
  <1>4. ASSUME NEW i, Is(Head(s), "SYN", i), Has(Tail(s), "SYN", i) PROVE FALSE
    <2>1. PICK a \in 1 .. Len(Tail(s)) : Is(Tail(s)[a], "SYN", i)
      BY <1>4 DEF Has
    <2>2. 1 \in 1 .. Len(s) /\ a + 1 \in 1 .. Len(s) /\ Is(s[1], "SYN", i) /\ Is(s[a + 1], "SYN", i)
      BY <1>1, <1>4, <2>1
    <2>3. a + 1 = 1
      BY <2>2 DEF Once, Is
    <2>4. QED
      BY <2>3
  <1>5. QED
    BY <1>3, <1>4

LEMMA OnceAppend ==
    ASSUME NEW T, NEW s \in Seq(T), NEW f \in T, Once(s), f.cmd = "SYN" => ~Has(s, "SYN", f.sid)
    PROVE  Once(Append(s, f))
  <1>1. /\ Len(Append(s, f)) = Len(s) + 1 /\ Len(s) \in Nat
        /\ \A a \in 1 .. Len(s) : Append(s, f)[a] = s[a]
        /\ Append(s, f)[Len(s) + 1] = f
    OBVIOUS
  <1>2. ASSUME NEW a \in 1 .. Len(s) + 1, NEW b \in 1 .. Len(s) + 1,
               Append(s, f)[a].cmd = "SYN", Append(s, f)[b].cmd = "SYN",
               Append(s, f)[a].sid = Append(s, f)[b].sid, a # b
        PROVE  FALSE
    <2>1. CASE a = Len(s) + 1
      <3>1. b \in 1 .. Len(s) /\ Is(s[b], "SYN", f.sid) /\ f.cmd = "SYN"
        BY <1>1, <1>2, <2>1 DEF Is
      <3>2. QED
        BY <3>1 DEF Has
    <2>2. CASE b = Len(s) + 1
      <3>1. a \in 1 .. Len(s) /\ Is(s[a], "SYN", f.sid) /\ f.cmd = "SYN"
        BY <1>1, <1>2, <2>2 DEF Is
      <3>2. QED
        BY <3>1 DEF Has
    <2>3. CASE a # Len(s) + 1 /\ b # Len(s) + 1
      <3>1. a \in 1 .. Len(s) /\ b \in 1 .. Len(s)
        BY <1>1, <2>3
      <3>2. QED
        BY <1>1, <1>2, <3>1 DEF Once
    <2>4. QED
      BY <2>1, <2>2, <2>3
  <1>3. QED
    BY <1>1, <1>2 DEF Once

\* A stream that has no users yet gets none, and is not touched.
UsersKept(q, j) ==
    /\ wr'[q][j] = wr[q][j] /\ rd'[q][j] = rd[q][j]
    /\ cl'[q][j] = cl[q][j] /\ got'[q][j] = got[q][j]

\* The SYNs on their way, on the wire W and in the queue H.
SynsOnce(W, H) ==
    /\ Once(W) /\ Once(H)
    /\ \A i \in Sids : ~(Has(W, "SYN", i) /\ Has(H, "SYN", i))

Underway(W, H, i) == Has(W, "SYN", i) \/ Has(H, "SYN", i)

LEMMA IdsKept ==
    ASSUME Ids, DialOK, accepts' = accepts, accepts \in Seq(Sids),
           SynsOnce(wire'["server"], heap'["client"][CTRL]),
           \A i \in Sids : Underway(wire'["server"], heap'["client"][CTRL], i)
                              => Underway(wire["server"], heap["client"][CTRL], i),
           \A i \in Sids : Future(i)' => Future(i),
           dial'.pc = "syn" => dial' = dial,
           \A q \in Sides, j \in Sids : Unused(q, j) => UsersKept(q, j),
           \A q \in Sides, j \in Sids :
              Unused(q, j) /\ strm[q][j] = Stream => strm'[q][j] = strm[q][j]
    PROVE  Ids'
  <1>1. "client" \in Sides /\ "server" \in Sides
    BY DEF Sides
  <1>2. \A q \in Sides, j \in Sids : Unused(q, j) => Unused(q, j)'
    BY DEF UsersKept, Unused
  <1>3. \A j \in Sids : Unseen(j) => Unseen(j)'
    BY <1>1, <1>2 DEF Unseen
  <1>4. \A i \in Sids : Underway(wire'["server"], heap'["client"][CTRL], i)
                           => ~Future(i)' /\ Unseen(i)'
    BY <1>3 DEF Ids, Underway
  <1>5. \A i \in Sids : Future(i)' => Unused("client", i)' /\ strm'["client"][i] = Stream /\ Unseen(i)'
    BY <1>1, <1>2, <1>3 DEF Ids
  <1>6. dial'.pc = "syn" => /\ ~Future(dial.sid)' /\ dial'.sid = dial.sid
                            /\ Unused("client", dial.sid)' /\ strm'["client"][dial.sid] = Stream
    BY <1>1, <1>2 DEF Ids, DialOK
  <1>7. \A a \in 1 .. Len(accepts) : Unused("server", accepts[a])'
    <2>1. \A a \in 1 .. Len(accepts) : accepts[a] \in Sids /\ Unused("server", accepts[a])
      BY DEF Ids
    <2>2. QED
      BY <1>1, <1>2, <2>1
  <1>8. \A a, b \in 1 .. Len(accepts) : accepts[a] = accepts[b] => a = b
    BY DEF Ids
  <1>9. QED
    BY <1>4, <1>5, <1>6, <1>7, <1>8 DEF Ids, Underway, SynsOnce, Unused, Future

\* Only Dial hands in a SYN.
SynsKept ==
    /\ Once(heap'["client"][CTRL])
    /\ \A i \in Sids : Has(heap'["client"][CTRL], "SYN", i) <=> Has(heap["client"][CTRL], "SYN", i)

LEMMA QuietSyns ==
    ASSUME Ids, Quiet
    PROVE  SynsKept
  BY DEF Ids, Quiet, SynsKept

LEMMA AskedSyns ==
    ASSUME Core, Ids, NEW p \in Sides, NEW c \in Classes, NEW f, Asked(p, c, f), f.cmd # "SYN"
    PROVE  SynsKept
  <1> DEFINE H == heap["client"][CTRL]
  <1>1. HeapType(heap) /\ H \in Seq(CtrlFrames("client")) /\ Once(H)
    BY DEF Core, Types, HeapType, Ids, Sides
  <1>2. CASE p = "client" /\ c = CTRL
    <2>1. f \in CtrlFrames("client") /\ heap'["client"][CTRL] = Append(H, f)
      BY <1>2 DEF Asked, Class
    <2> HIDE DEF H
    <2>2. Once(Append(H, f))
      BY <1>1, <2>1, OnceAppend
    <2>3. \A i \in Sids : Has(Append(H, f), "SYN", i) <=> Has(H, "SYN", i)
      BY <1>1, <2>1, HasAppend DEF Is
    <2>4. QED
      BY <2>1, <2>2, <2>3 DEF SynsKept, H
  <1>3. CASE p # "client" \/ c # CTRL
    <2>1. heap'["client"][CTRL] = H
      BY <1>3 DEF Asked, Sides, Classes
    <2>2. QED
      BY <1>1, <2>1 DEF SynsKept
  <1>4. QED
    BY <1>2, <1>3

LEMMA UserIds ==
    ASSUME Core, Ids, NEW p \in Sides, NEW i \in Sids, UserStep(p, i), ~Unused(p, i), SynsKept
    PROVE  Ids'
  <1>1. /\ UNCHANGED <<accepts, wire, nextID, goAway, dial>>
        /\ Only(strm, strm', p, i) /\ Only(wr, wr', p, i) /\ Only(rd, rd', p, i)
        /\ Only(cl, cl', p, i) /\ Only(got, got', p, i)
    BY DEF UserStep
  <1>2. \A j \in Sids : Future(j)' => Future(j)
    BY <1>1 DEF Future
  <1>3. ASSUME NEW q \in Sides, NEW j \in Sids, Unused(q, j)
        PROVE  UsersKept(q, j) /\ strm'[q][j] = strm[q][j]
    <2>1. q # p \/ j # i
      BY <1>3
    <2>2. QED
      BY <1>1, <2>1 DEF UsersKept, Only
  <1>4. SynsOnce(wire'["server"], heap'["client"][CTRL])
    BY <1>1 DEF Ids, SynsKept, SynsOnce
  <1>5. \A j \in Sids : Underway(wire'["server"], heap'["client"][CTRL], j)
                           => Underway(wire["server"], heap["client"][CTRL], j)
    BY <1>1 DEF SynsKept, Underway
  <1>6. accepts \in Seq(Sids) /\ DialOK
    BY DEF Core, Types
  <1>7. QED
    BY <1>1, <1>2, <1>3, <1>4, <1>5, <1>6, IdsKept

\* The users of a stream have begun before they do anything.
LEMMA InUse ==
    ASSUME Core, NEW p \in Sides, NEW i \in Sids, wr[p][i].pc # "off" \/ rd[p][i].pc # "off"
    PROVE  ~Unused(p, i)
  <1>1. Writer.pc = "off" /\ Reader.pc = "off"
    BY DEF Writer, Reader
  <1>2. QED
    BY <1>1 DEF Unused

LEMMA UserStepsIds ==
    ASSUME Core, Ids, NEW p \in Sides, NEW i \in Sids, UserSteps(p, i)
    PROVE  Ids'
  <1>1. CTRL \in Classes /\ DATA \in Classes
    BY DEF Classes
  <1>2. UserStep(p, i)
    BY DEF UserSteps, WriterTurns, WriterMoves, Writing, FrameAsked, FrameSent, Taken, Returned,
           ReaderMoves, Reading, CloseBegins, CloseDone, Closing
  <1>3. wr[p][i].pc # "off" \/ rd[p][i].pc # "off"
    BY DEF UserSteps, WriterTurns, FrameAsked, FrameSent, Taken, Returned, ReaderMoves,
           CloseBegins, CloseDone
  <1>4. SynsKept
    <2>1. CASE Quiet
      BY <2>1, QuietSyns
    <2>2. CASE FrameAsked(p, i)
      <3> DEFINE f == Frame(p, "PSH", i, Piece(wr[p][i].next, wr'[p][i].n))
      <3>1. Asked(p, DATA, f)
        BY <2>2 DEF FrameAsked
      <3>2. f.cmd # "SYN"
        BY DEF Frame
      <3> HIDE DEF f
      <3>3. QED
        BY <1>1, <3>1, <3>2, AskedSyns
    <2>3. CASE Asked(p, CTRL, Frame(p, "UPD", i, <<strm[p][i].numRead, StreamBuffer>>))
      <3> DEFINE f == Frame(p, "UPD", i, <<strm[p][i].numRead, StreamBuffer>>)
      <3>1. f.cmd # "SYN"
        BY DEF Frame
      <3>2. Asked(p, CTRL, f)
        BY <2>3
      <3> HIDE DEF f
      <3>3. QED
        BY <1>1, <3>1, <3>2, AskedSyns
    <2>4. CASE Asked(p, DATA, Frame(p, "FIN", i, <<>>))
      <3> DEFINE f == Frame(p, "FIN", i, <<>>)
      <3>1. f.cmd # "SYN"
        BY DEF Frame
      <3>2. Asked(p, DATA, f)
        BY <2>4
      <3> HIDE DEF f
      <3>3. QED
        BY <1>1, <3>1, <3>2, AskedSyns
    <2>5. QED
      BY <2>1, <2>2, <2>3, <2>4 DEF UserSteps, WriterTurns, WriterMoves, FrameSent, Taken, Returned,
           ReaderMoves, CloseBegins, CloseDone
  <1>5. QED
    BY <1>2, <1>3, <1>4, InUse, UserIds

\* The queues of SYNs.
LEMMA SynQueues ==
    ASSUME Core, Ids
    PROVE  /\ "client" \in Sides /\ "server" \in Sides /\ CTRL \in Classes /\ DATA \in Classes
           /\ CTRL # DATA /\ Peer("server") = "client" /\ Peer("client") = "server"
           /\ wire["server"] \in Seq(Frames("client"))
           /\ heap["client"][CTRL] \in Seq(CtrlFrames("client"))
           /\ heap["client"][DATA] \in Seq(DataFrames)
           /\ accepts \in Seq(Sids) /\ DialOK
           /\ SynsOnce(wire["server"], heap["client"][CTRL])
  <1>1. /\ "client" \in Sides /\ "server" \in Sides /\ CTRL \in Classes /\ DATA \in Classes
        /\ CTRL # DATA /\ Peer("server") = "client" /\ Peer("client") = "server"
    BY DEF Sides, Classes, CTRL, DATA, Peer
  <1>2. HeapType(heap) /\ WireType(wire) /\ accepts \in Seq(Sids) /\ DialOK
    BY DEF Core, Types
  <1>3. QED
    BY <1>1, <1>2 DEF HeapType, WireType, Ids, SynsOnce

\* A step that leaves the users alone and takes no SYN from the wire but the first.
LEMMA RestIds ==
    ASSUME Core, Ids, UsersRest, accepts' = accepts,
           \A i \in Sids : Future(i)' => Future(i), dial'.pc = "syn" => dial' = dial,
           \/ wire'["server"] = wire["server"]
           \/ wire["server"] # <<>> /\ wire'["server"] = Tail(wire["server"]),
           SynsKept,
           \A q \in Sides, j \in Sids : strm[q][j] = Stream => strm'[q][j] = strm[q][j]
    PROVE  Ids'
  <1> DEFINE W == wire["server"]
             V == wire'["server"]
             H == heap["client"][CTRL]
             G == heap'["client"][CTRL]
  <1>1. W \in Seq(Frames("client")) /\ SynsOnce(W, H) /\ accepts \in Seq(Sids) /\ DialOK
    BY SynQueues
  <1>2. \A q \in Sides, j \in Sids : UsersKept(q, j)
    BY DEF UsersRest, UsersKept
  <1>3. V = W \/ (W # <<>> /\ V = Tail(W))
    OBVIOUS
  <1>4. Once(G) /\ \A i \in Sids : Has(G, "SYN", i) <=> Has(H, "SYN", i)
    BY DEF SynsKept
  <1> HIDE DEF W, V, H, G
  <1>5. Once(V) /\ \A i \in Sids : Has(V, "SYN", i) => Has(W, "SYN", i)
    <2>1. CASE V = W
      BY <1>1, <2>1 DEF SynsOnce
    <2>2. CASE W # <<>> /\ V = Tail(W)
      BY <1>1, <2>2, OnceTail, HasTail DEF SynsOnce
    <2>3. QED
      BY <1>3, <2>1, <2>2
  <1>6. SynsOnce(V, G) /\ \A i \in Sids : Underway(V, G, i) => Underway(W, H, i)
    BY <1>1, <1>4, <1>5 DEF SynsOnce, Underway
  <1>7. QED
    BY <1>1, <1>2, <1>6, IdsKept DEF W, V, H, G

LEMMA SessionIds ==
    ASSUME Core, Ids, Idles \/ \E p \in Sides : Pings(p) \/ Dies(p) \/ LoopTurns(p)
    PROVE  Ids'
  <1>1. UsersRest /\ accepts' = accepts
    BY DEF Idles, Pings, Dies, LoopTurns
  <1>2. \A i \in Sids : Future(i)' => Future(i)
    BY DEF Future, Idles, Pings, Dies, LoopTurns
  <1>3. dial'.pc = "syn" => dial' = dial
    BY DEF Idles, Pings, Dies, LoopTurns
  <1>4. \/ wire'["server"] = wire["server"]
        \/ wire["server"] # <<>> /\ wire'["server"] = Tail(wire["server"])
    BY SynQueues DEF Idles, Pings, Dies, LoopTurns, Sides, Peer
  <1>5. SynsKept
    <2>1. CASE Quiet
      BY <2>1, QuietSyns
    <2>2. ASSUME NEW p \in Sides, Pings(p) PROVE SynsKept
      <3> DEFINE f == Frame(p, "NOP", 0, <<>>)
      <3>1. f.cmd # "SYN"
        BY DEF Frame
      <3>2. Asked(p, CTRL, f)
        BY <2>2 DEF Pings
      <3> HIDE DEF f
      <3>3. QED
        BY <3>1, <3>2, AskedSyns DEF Classes
    <2>3. CASE heap' = heap
      BY <2>3 DEF Ids, SynsKept
    <2>4. QED
      BY <2>1, <2>2, <2>3 DEF Idles, Dies, LoopTurns
  <1>6. \A q \in Sides, j \in Sids : strm[q][j] = Stream => strm'[q][j] = strm[q][j]
    BY FreshStream DEF Idles, Pings, Dies, LoopTurns
  <1>7. QED
    BY <1>1, <1>2, <1>3, <1>4, <1>5, <1>6, RestIds

LEMMA SendIds ==
    ASSUME Core, Ids, NEW p \in Sides, NEW c \in Classes, Sent(p, c) \/ NotSent(p, c)
    PROVE  Ids'
  <1> DEFINE W == wire["server"]
             V == wire'["server"]
             H == heap["client"][CTRL]
             G == heap'["client"][CTRL]
  <1>1. W \in Seq(Frames("client")) /\ SynsOnce(W, H) /\ accepts \in Seq(Sids) /\ DialOK
        /\ H \in Seq(CtrlFrames("client"))
    BY SynQueues
  <1>2. Sending(p, c)
    BY DEF Sent, NotSent
  <1>3. \A q \in Sides, j \in Sids : UsersKept(q, j)
    BY <1>2 DEF UsersRest, UsersKept, Sending
  <1>4. UNCHANGED <<accepts, strm, nextID, goAway, dial>>
    BY <1>2 DEF Sending
  <1>5. \A i \in Sids : Future(i)' => Future(i)
    BY <1>4 DEF Future
  <1>6. SynsOnce(V, G) /\ \A i \in Sids : Underway(V, G, i) => Underway(W, H, i)
    <2>1. CASE p = "client" /\ c = CTRL
      <3> DEFINE f == Head(H)
      <3>1. H # <<>> /\ G = Tail(H) /\ f \in Frames("client")
        BY <1>2, <2>1 DEF Sending
      <3>2. V = W \/ V = Append(W, f)
        BY <2>1, SynQueues DEF Sent, NotSent
      <3> HIDE DEF W, V, H, G, f
      <3>3. Once(G) /\ (\A i \in Sids : Has(G, "SYN", i) => Has(H, "SYN", i))
            /\ \A i \in Sids : Is(f, "SYN", i) => ~Has(G, "SYN", i) /\ Has(H, "SYN", i)
        BY <1>1, <3>1, OnceTail, HasTail DEF SynsOnce, f
      <3>4. CASE V = W
        BY <1>1, <3>3, <3>4 DEF SynsOnce, Underway
      <3>5. CASE V = Append(W, f)
        <4>1. \A i \in Sids : Has(V, "SYN", i) <=> Has(W, "SYN", i) \/ Is(f, "SYN", i)
          BY <1>1, <3>1, <3>5, HasAppend
        <4>2. f.cmd = "SYN" => f.sid \in Sids /\ Is(f, "SYN", f.sid)
          BY <3>1, ByCommand, SynQueues DEF Is
        <4>3. Once(V)
          BY <1>1, <3>1, <3>3, <3>5, <4>2, OnceAppend DEF SynsOnce
        <4>4. QED
          BY <1>1, <3>3, <4>1, <4>3 DEF SynsOnce, Underway
      <3>6. QED
        BY <3>2, <3>4, <3>5
    <2>2. CASE p = "client" /\ c # CTRL
      <3> DEFINE f == Head(heap["client"][DATA])
      <3>1. c = DATA
        BY <2>2 DEF Classes
      <3>2. G = H /\ f \in DataFrames /\ f \in Frames("client")
        BY <1>2, <2>2, <3>1, SynQueues DEF Sending, Class
      <3>3. V = W \/ V = Append(W, f)
        BY <2>2, <3>1, SynQueues DEF Sent, NotSent
      <3>4. f.cmd # "SYN"
        BY <3>2 DEF DataFrames, Pshs, Fins
      <3> HIDE DEF W, V, H, G, f
      <3>5. CASE V = W
        BY <1>1, <3>2, <3>5
      <3>6. CASE V = Append(W, f)
        <4>1. \A i \in Sids : Has(V, "SYN", i) <=> Has(W, "SYN", i)
          BY <1>1, <3>2, <3>4, <3>6, HasAppend DEF Is
        <4>2. Once(V)
          BY <1>1, <3>2, <3>4, <3>6, OnceAppend DEF SynsOnce
        <4>3. QED
          BY <1>1, <3>2, <4>1, <4>2 DEF SynsOnce, Underway
      <3>7. QED
        BY <3>3, <3>5, <3>6
    <2>3. CASE p # "client"
      <3>1. p = "server"
        BY <2>3 DEF Sides
      <3>2. G = H
        BY <1>2, <2>3, SynQueues DEF Sending
      <3>3. V = W
        BY <3>1 DEF Sent, NotSent
      <3>4. QED
        BY <1>1, <3>2, <3>3
    <2>4. QED
      BY <2>1, <2>2, <2>3
  <1>7. QED
    BY <1>1, <1>3, <1>4, <1>5, <1>6, IdsKept

\* A stream that is in the map is one that has been met.
LEMMA RecvIds ==
    ASSUME Core, Ids, NEW p \in Sides, RecvSteps(p)
    PROVE  Ids'
  <1>1. Receiving(p)
    BY DEF RecvSteps, Ignored, Opened, FinArrives, PshArrives, UpdArrives, Arrives
  <1>2. UsersRest /\ UNCHANGED <<heap, nextID, goAway, dial>> /\ SynsKept
    BY <1>1 DEF Receiving, Ids, SynsKept
  <1>3. \A i \in Sids : Future(i)' <=> Future(i)
    BY <1>2 DEF Future
  <1>4. \/ wire'["server"] = wire["server"]
        \/ wire["server"] # <<>> /\ wire'["server"] = Tail(wire["server"])
    BY <1>1, SynQueues DEF Receiving, Sides, Peer
  <1>5. CASE accepts' = accepts
    <2>1. \A q \in Sides, j \in Sids : strm[q][j] = Stream => strm'[q][j] = strm[q][j]
      <3>1. CASE Ignored(p)
        BY <3>1 DEF Ignored
      <3>2. ASSUME NEW i \in Sids, Opened(p, i) PROVE FALSE
        <4>1. accepts' = Append(accepts, i) /\ accepts \in Seq(Sids)
          BY <3>2, SynQueues DEF Opened
        <4>2. Len(accepts') = Len(accepts) + 1 /\ Len(accepts) \in Nat
          BY <4>1
        <4>3. QED
          BY <1>5, <4>2
      <3>3. ASSUME NEW i \in Sids, FinArrives(p, i) \/ PshArrives(p, i) \/ UpdArrives(p, i)
            PROVE  \A q \in Sides, j \in Sids : strm[q][j] = Stream => strm'[q][j] = strm[q][j]
        <4>1. strm[p][i].reg /\ Only(strm, strm', p, i)
          BY <3>3 DEF FinArrives, PshArrives, UpdArrives, Arrives
        <4>2. strm[p][i] # Stream
          BY <4>1, FreshStream
        <4>3. QED
          BY <4>1, <4>2 DEF Only
      <3>4. QED
        BY <3>1, <3>2, <3>3 DEF RecvSteps
    <2>2. QED
      BY <1>2, <1>3, <1>4, <1>5, <2>1, RestIds
  <1>6. ASSUME NEW i \in Sids, Opened(p, i) PROVE Ids'
    <2> DEFINE W == wire["server"]
               V == wire'["server"]
               H == heap["client"][CTRL]
    <2>1. p = "server" /\ accepts' = Append(accepts, i) /\ Only(strm, strm', "server", i)
          /\ Is(Head(W), "SYN", i)
      BY <1>6 DEF Opened
    <2>2. W # <<>> /\ V = Tail(W) /\ heap'["client"][CTRL] = H
      BY <1>1, <1>2, <2>1 DEF Receiving
    <2>3. W \in Seq(Frames("client")) /\ SynsOnce(W, H) /\ accepts \in Seq(Sids) /\ DialOK
          /\ "client" \in Sides /\ "server" \in Sides /\ "client" # "server"
      BY SynQueues
    <2>4. \A j \in Sids : (Has(W, "SYN", j) \/ Has(H, "SYN", j) => ~Future(j) /\ Unseen(j))
                          /\ (Future(j) => Unused("client", j) /\ strm["client"][j] = Stream /\ Unseen(j))
      BY DEF Ids
    <2> HIDE DEF W, V, H
    <2>5. /\ SynsOnce(V, H) /\ ~Has(V, "SYN", i) /\ Has(W, "SYN", i) /\ ~Has(H, "SYN", i)
          /\ \A j \in Sids : Has(V, "SYN", j) => Has(W, "SYN", j)
      BY <2>1, <2>2, <2>3, OnceTail, HasTail DEF SynsOnce
    <2>6. ~Future(i) /\ Unseen(i)
      BY <2>4, <2>5
    <2>7. \A q \in Sides, j \in Sids : Unused(q, j) => Unused(q, j)'
      BY <1>2 DEF Unused, UsersRest
    <2>8. ASSUME NEW j \in Sids, j # i, Unseen(j) PROVE Unseen(j)'
      <3>1. strm'["server"][j] = Stream
        BY <2>1, <2>3, <2>8 DEF Only, Unseen
      <3>2. \A a \in 1 .. Len(accepts') : accepts'[a] # j
        BY <2>1, <2>3, <2>8 DEF Unseen
      <3>3. Unused("server", j)'
        BY <2>3, <2>7, <2>8 DEF Unseen
      <3>4. QED
        BY <3>1, <3>2, <3>3 DEF Unseen
    <2>9. \A j \in Sids : Has(V, "SYN", j) \/ Has(H, "SYN", j) => ~Future(j)' /\ Unseen(j)'
      BY <1>3, <2>4, <2>5, <2>8
    <2>10. \A j \in Sids : Future(j)' => Unused("client", j)' /\ strm'["client"][j] = Stream /\ Unseen(j)'
      <3>1. \A j \in Sids : strm'["client"][j] = strm["client"][j]
        BY <2>1, <2>3 DEF Only
      <3>2. QED
        BY <1>3, <2>3, <2>4, <2>6, <2>7, <2>8, <3>1
    <2>11. (dial.pc = "syn" => /\ ~Future(dial.sid)
                               /\ Unused("client", dial.sid) /\ strm["client"][dial.sid] = Stream)'
      <3>1. \A j \in Sids : strm'["client"][j] = strm["client"][j]
        BY <2>1, <2>3 DEF Only
      <3>2. dial.pc = "syn" => /\ dial.sid \in Sids /\ ~Future(dial.sid)
                               /\ Unused("client", dial.sid) /\ strm["client"][dial.sid] = Stream
        BY <2>3 DEF Ids, DialOK
      <3>3. QED
        BY <1>2, <2>3, <3>1, <3>2 DEF Future, Unused, UsersRest
    <2>12. /\ (\A a \in 1 .. Len(accepts) : Unused("server", accepts[a]))'
           /\ \A a, b \in 1 .. Len(accepts') : accepts'[a] = accepts'[b] => a = b
      <3>1. Unused("server", i) /\ \A a \in 1 .. Len(accepts) : accepts[a] # i
        BY <2>6 DEF Unseen
      <3>2. /\ \A a \in 1 .. Len(accepts) : Unused("server", accepts[a]) /\ accepts[a] \in Sids
            /\ \A a, b \in 1 .. Len(accepts) : accepts[a] = accepts[b] => a = b
        BY <2>3 DEF Ids
      <3>3. /\ Len(accepts') = Len(accepts) + 1 /\ Len(accepts) \in Nat
            /\ accepts'[Len(accepts) + 1] = i
            /\ \A a \in 1 .. Len(accepts) : accepts'[a] = accepts[a]
        BY <2>1, <2>3
      <3>4. \A a \in 1 .. Len(accepts') : a = Len(accepts) + 1 \/ a \in 1 .. Len(accepts)
        BY <3>3
      <3>5. \A a \in 1 .. Len(accepts') : accepts'[a] \in Sids /\ Unused("server", accepts'[a])
        BY <3>1, <3>2, <3>3, <3>4
      <3>6. (\A a \in 1 .. Len(accepts) : Unused("server", accepts[a]))'
        BY <1>2, <3>5 DEF Unused, UsersRest
      <3>7. QED
        BY <3>1, <3>2, <3>3, <3>4, <3>6
    <2>13. QED
      BY <2>2, <2>5, <2>9, <2>10, <2>11, <2>12 DEF Ids, SynsOnce, V
  <1>7. QED
    BY <1>5, <1>6 DEF RecvSteps, Ignored, FinArrives, PshArrives, UpdArrives, Arrives

LEMMA DialsIds ==
    ASSUME Core, Ids, Dials
    PROVE  Ids'
  <1> DEFINE W == wire["server"]
             H == heap["client"][CTRL]
             G == heap'["client"][CTRL]
             n == nextID'
             f == Frame("client", "SYN", n, <<>>)
  <1>1. W \in Seq(Frames("client")) /\ SynsOnce(W, H) /\ accepts \in Seq(Sids) /\ DialOK
        /\ H \in Seq(CtrlFrames("client")) /\ "client" \in Sides /\ "server" \in Sides
        /\ CTRL \in Classes
    BY SynQueues
  <1>2. /\ ~goAway /\ goAway' = goAway /\ n \in Sids /\ n = nextID + 2 /\ nextID \in Nat
        /\ dial' = [pc |-> "syn", sid |-> n] /\ UsersRest
        /\ UNCHANGED <<wire, accepts, strm>>
    BY DEF Dials, Core, Types
  <1>3. f \in CtrlFrames("client") /\ G = Append(H, f)
    BY DEF Dials, Asked, Class
  <1>4. f.cmd = "SYN" /\ f.sid = n
    BY DEF Frame
  <1>5. n \in Nat /\ Future(n) /\ ~Future(nextID)' /\ \A j \in Sids : Future(j)' => Future(j) /\ j # n
    <2>1. n \in Nat /\ n > nextID /\ ~(n > n) /\ nextID' = n
      BY <1>2
    <2>2. \A j \in Sids : j \in Nat /\ (j > n => j > nextID /\ j # n)
      BY <1>2, <2>1, Constants
    <2> HIDE DEF n
    <2>3. QED
      BY <1>2, <2>1, <2>2 DEF Future
  <1>6. \A j \in Sids : (Has(W, "SYN", j) \/ Has(H, "SYN", j) => ~Future(j) /\ Unseen(j))
                        /\ (Future(j) => Unused("client", j) /\ strm["client"][j] = Stream /\ Unseen(j))
    BY DEF Ids
  <1>7. \A q \in Sides, j \in Sids : Unused(q, j) => Unused(q, j)'
    BY <1>2 DEF Unused, UsersRest
  <1>8. \A j \in Sids : Unseen(j) => Unseen(j)'
    BY <1>1, <1>2, <1>7 DEF Unseen
  <1>9. dial'.pc = "syn" /\ dial'.sid = n
    BY <1>2
  <1>10. (dial.pc = "syn" => /\ ~Future(dial.sid)
                             /\ Unused("client", dial.sid) /\ strm["client"][dial.sid] = Stream)'
    <2>1. Unused("client", n) /\ strm["client"][n] = Stream
      BY <1>2, <1>5, <1>6
    <2>2. QED
      BY <1>2, <1>5, <1>9, <2>1 DEF Unused, UsersRest, Future
  <1>11. (\A a \in 1 .. Len(accepts) : Unused("server", accepts[a]))'
         /\ \A a, b \in 1 .. Len(accepts') : accepts'[a] = accepts'[b] => a = b
    BY <1>2 DEF Ids, Unused, UsersRest
  <1> HIDE DEF W, H, G, f, n
  <1>12. ~Has(W, "SYN", n) /\ ~Has(H, "SYN", n)
    BY <1>2, <1>5, <1>6 DEF n
  <1>13. \A j \in Sids : Has(G, "SYN", j) <=> Has(H, "SYN", j) \/ j = n
    BY <1>1, <1>2, <1>3, <1>4, HasAppend DEF Is
  <1>14. Once(G)
    BY <1>1, <1>3, <1>4, <1>12, OnceAppend DEF SynsOnce
  <1>15. SynsOnce(W, G)
    BY <1>1, <1>12, <1>13, <1>14 DEF SynsOnce
  <1>16. \A j \in Sids : Has(W, "SYN", j) \/ Has(G, "SYN", j) => ~Future(j)' /\ Unseen(j)'
    BY <1>5, <1>6, <1>8, <1>13
  <1>17. \A j \in Sids : Future(j)' => Unused("client", j)' /\ strm'["client"][j] = Stream /\ Unseen(j)'
    BY <1>1, <1>2, <1>5, <1>6, <1>7, <1>8
  <1>18. QED
    BY <1>2, <1>10, <1>11, <1>15, <1>16, <1>17 DEF Ids, SynsOnce, W, G

LEMMA OpensIds ==
    ASSUME Core, Ids, NEW i \in Sids, Opens(i)
    PROVE  Ids' /\ cl["client"][i] = "off"
  <1>1. /\ dial.pc = "syn" /\ dial.sid = i /\ dial'.pc # "syn" /\ accepts' = accepts
        /\ Begins("client", i) /\ Only(strm, strm', "client", i)
    BY DEF Opens
  <1>2. UNCHANGED <<wire, nextID, goAway, cl, got>> /\ Quiet
        /\ Only(wr, wr', "client", i) /\ Only(rd, rd', "client", i)
    BY <1>1 DEF Begins
  <1>3. heap' = heap
    BY <1>2 DEF Quiet
  <1>4. ~Future(i) /\ Unused("client", i)
    BY <1>1 DEF Ids
  <1>5. "client" \in Sides /\ "server" \in Sides /\ "client" # "server"
    BY DEF Sides
  <1>6. ASSUME NEW q \in Sides, NEW j \in Sids, q # "client" \/ j # i
        PROVE  /\ Unused(q, j) => Unused(q, j)'
               /\ strm'[q][j] = strm[q][j]
    BY <1>1, <1>2, <1>6 DEF Unused, Only
  <1>7. \A j \in Sids : Unseen(j) => Unseen(j)'
    BY <1>1, <1>5, <1>6 DEF Unseen
  <1>8. \A j \in Sids : Future(j)' <=> Future(j)
    BY <1>2 DEF Future
  <1>9. \A j \in Sids : Future(j)' => Unused("client", j)' /\ strm'["client"][j] = Stream /\ Unseen(j)'
    BY <1>4, <1>5, <1>6, <1>7, <1>8 DEF Ids
  <1>10. \A j \in Sids : Has(wire'["server"], "SYN", j) \/ Has(heap'["client"][CTRL], "SYN", j)
                            => ~Future(j)' /\ Unseen(j)'
    BY <1>2, <1>3, <1>7, <1>8 DEF Ids
  <1>11. (\A a \in 1 .. Len(accepts) : Unused("server", accepts[a]))'
    <2>1. \A a \in 1 .. Len(accepts) : accepts[a] \in Sids /\ Unused("server", accepts[a])
      BY SynQueues DEF Ids
    <2>2. QED
      BY <1>1, <1>2, <1>5, <2>1 DEF Unused, Only
  <1>12. Ids'
    BY <1>1, <1>2, <1>3, <1>9, <1>10, <1>11 DEF Ids
  <1>13. QED
    BY <1>4, <1>12 DEF Unused

LEMMA AcceptsIds ==
    ASSUME Core, Ids, NEW i \in Sids, Accepts(i)
    PROVE  Ids' /\ cl["server"][i] = "off"
  <1>1. /\ accepts # <<>> /\ i = Head(accepts) /\ accepts' = Tail(accepts)
        /\ strm' = strm /\ dial' = dial /\ Begins("server", i)
    BY DEF Accepts
  <1>2. UNCHANGED <<wire, nextID, goAway, cl, got>> /\ Quiet
        /\ Only(wr, wr', "server", i) /\ Only(rd, rd', "server", i)
    BY <1>1 DEF Begins
  <1>3. heap' = heap /\ accepts \in Seq(Sids) /\ DialOK
    BY <1>2, SynQueues DEF Quiet
  <1>4. /\ accepts[1] = i /\ 1 \in 1 .. Len(accepts)
        /\ Len(accepts') = Len(accepts) - 1 /\ Len(accepts) \in Nat
        /\ \A a \in 1 .. Len(accepts') : accepts'[a] = accepts[a + 1] /\ a + 1 \in 1 .. Len(accepts)
    BY <1>1, <1>3
  <1>5. "client" \in Sides /\ "server" \in Sides /\ "client" # "server"
    BY DEF Sides
  <1>6. ~Unseen(i) /\ Unused("server", i)
    BY <1>4 DEF Unseen, Ids
  <1>7. ASSUME NEW q \in Sides, NEW j \in Sids, q # "server" \/ j # i
        PROVE  Unused(q, j) => Unused(q, j)'
    BY <1>2, <1>7 DEF Unused, Only
  <1>8. ASSUME NEW j \in Sids, Unseen(j) PROVE Unseen(j)'
    <2>1. j # i
      BY <1>6, <1>8
    <2>2. \A a \in 1 .. Len(accepts') : accepts'[a] # j
      BY <1>4, <1>8 DEF Unseen
    <2>3. QED
      BY <1>1, <1>5, <1>7, <1>8, <2>1, <2>2 DEF Unseen
  <1>9. \A j \in Sids : Future(j)' <=> Future(j)
    BY <1>2 DEF Future
  <1>10. \A j \in Sids : Future(j)' => Unused("client", j)' /\ strm'["client"][j] = Stream /\ Unseen(j)'
    BY <1>1, <1>5, <1>7, <1>8, <1>9 DEF Ids
  <1>11. \A j \in Sids : Has(wire'["server"], "SYN", j) \/ Has(heap'["client"][CTRL], "SYN", j)
                            => ~Future(j)' /\ Unseen(j)'
    BY <1>2, <1>3, <1>8, <1>9 DEF Ids
  <1>12. (\A a \in 1 .. Len(accepts) : Unused("server", accepts[a]))'
         /\ \A a, b \in 1 .. Len(accepts') : accepts'[a] = accepts'[b] => a = b
    <2>1. /\ \A a \in 1 .. Len(accepts) : accepts[a] \in Sids /\ Unused("server", accepts[a])
          /\ \A a, b \in 1 .. Len(accepts) : accepts[a] = accepts[b] => a = b
      BY <1>3 DEF Ids
    <2>2. \A a \in 1 .. Len(accepts') : accepts'[a] # i /\ accepts'[a] \in Sids
                                        /\ Unused("server", accepts'[a])
      <3>1. ASSUME NEW a \in 1 .. Len(accepts') PROVE accepts'[a] # i
        <4>1. accepts'[a] = accepts[a + 1] /\ a + 1 \in 1 .. Len(accepts) /\ a + 1 # 1
          BY <1>4
        <4>2. QED
          BY <1>4, <2>1, <4>1
      <3>2. QED
        BY <1>4, <2>1, <3>1
    <2>3. (\A a \in 1 .. Len(accepts) : Unused("server", accepts[a]))'
      BY <1>2, <1>5, <2>2 DEF Unused, Only
    <2>4. ASSUME NEW a \in 1 .. Len(accepts'), NEW b \in 1 .. Len(accepts'), accepts'[a] = accepts'[b]
          PROVE  a = b
      <3>1. a + 1 = b + 1
        BY <1>4, <2>1, <2>4
      <3>2. QED
        BY <3>1
    <2>5. QED
      BY <2>3, <2>4
  <1>13. (dial.pc = "syn" => /\ ~Future(dial.sid)
                             /\ Unused("client", dial.sid) /\ strm["client"][dial.sid] = Stream)'
    BY <1>1, <1>2, <1>3, <1>5 DEF Ids, DialOK, Unused, Only, Future
  <1>14. Ids'
    BY <1>2, <1>3, <1>10, <1>11, <1>12, <1>13 DEF Ids
  <1>15. QED
    BY <1>6, <1>14 DEF Unused

LEMMA CoreIdsInit ==
    ASSUME Init
    PROVE  Core /\ Ids
  <1>1. PICK s \in Scenarios : /\ ver = [p \in Sides |-> s[p].ver]
                               /\ toWrite = [p \in Sides |-> s[p].write]
    BY DEF Init
  <1>2. ver \in [Sides -> Vers] /\ toWrite \in [Sides -> Nat]
    BY <1>1, SmuxAssumption DEF Vers
  <1>3. Tables
    <2>1. Writer \in WriterType
      BY DEF Writer, WriterType, Outs
    <2>2. Reader \in ReaderType
      BY DEF Reader, ReaderType
    <2>3. Stream \in StreamType
      BY FreshStream
    <2>4. strm \in Table(StreamType)
      <3>1. strm = [p \in Sides |-> [i \in Sids |-> Stream]]
        BY DEF Init
      <3>2. QED
        BY <2>3, <3>1 DEF Table
    <2>5. wr \in Table(WriterType)
      <3>1. wr = [p \in Sides |-> [i \in Sids |-> Writer]]
        BY DEF Init
      <3>2. QED
        BY <2>1, <3>1 DEF Table
    <2>6. rd \in Table(ReaderType)
      <3>1. rd = [p \in Sides |-> [i \in Sids |-> Reader]]
        BY DEF Init
      <3>2. QED
        BY <2>2, <3>1 DEF Table
    <2>7. cl \in Table({"off", "sending", "end"})
      BY DEF Init, Table
    <2>8. got \in Table(Seq(Nat))
      BY DEF Init, Table
    <2>9. QED
      BY <2>4, <2>5, <2>6, <2>7, <2>8 DEF Tables
  <1>4. HeapType(heap) /\ WireType(wire) /\ accepts \in Seq(Sids) /\ call \in CallType
    BY DEF Init, HeapType, WireType, CallType, Classes, CTRL, DATA
  <1>5. Types
    BY <1>2, <1>3, <1>4, Constants DEF Init, Types
  <1>6. CallsOK /\ DialOK
    BY DEF Init, CallsOK, DialOK
  <1>7. ASSUME NEW p \in Sides, NEW i \in Sids PROVE WriterOK(p, i) /\ UsersOK(p, i)
    <2>1. wr[p][i] = Writer /\ rd[p][i] = Reader /\ cl[p][i] = "off" /\ strm[p][i] = Stream
      BY DEF Init
    <2>2. toWrite[p] \in Nat
      BY <1>2
    <2>3. Writer.pc = "off" /\ Writer.next = 1 /\ Writer.chunk = 0 /\ Writer.n = 0
      BY DEF Writer
    <2>4. Reader.pc = "off" /\ Reader.notify = FALSE /\ Reader.out = ""
      BY DEF Reader
    <2>5. WriterOK(p, i)
      BY <2>1, <2>2, <2>3 DEF WriterOK
    <2>6. UsersOK(p, i)
      BY <2>1, <2>4, FreshStream DEF UsersOK
    <2>7. QED
      BY <2>5, <2>6
  <1>8. Core
    BY <1>5, <1>6, <1>7 DEF Core
  <1>9. \A p \in Sides, i \in Sids : Unused(p, i) /\ strm[p][i] = Stream
    BY DEF Init, Unused
  <1>10. wire["server"] = <<>> /\ heap["client"][CTRL] = <<>> /\ accepts = <<>> /\ dial.pc = "idle"
    BY DEF Init, Sides, Classes
  <1>11. /\ Once(<<>>) /\ \A i \in Sids : ~Has(<<>>, "SYN", i)
    BY DEF Once, Has
  <1>12. \A i \in Sids : Unseen(i)
    BY <1>9, <1>10 DEF Unseen, Sides
  <1>13. "client" \in Sides /\ "server" \in Sides
    BY DEF Sides
  <1>14. Ids
    BY <1>9, <1>10, <1>11, <1>12, <1>13 DEF Ids
  <1>15. QED
    BY <1>8, <1>14

LEMMA CoreIdsStep ==
    ASSUME Core, Ids, [Next]_vars
    PROVE  Core' /\ Ids'
  <1>1. ASSUME NEW p \in Sides, NEW i \in Sids, UserSteps(p, i) PROVE Core' /\ Ids'
    BY <1>1, UserStepsIds, WriterTurnsCore, FrameAskedCore, FrameSentCore, ReaderCore, CloseCore
    DEF UserSteps
  <1>2. CASE Idles
    BY <1>2, IdlesCore, SessionIds
  <1>3. CASE Dials
    BY <1>3, IdlesCore, DialsIds
  <1>4. ASSUME NEW p \in Sides, Pings(p) \/ Dies(p) \/ LoopTurns(p) \/ RecvSteps(p)
        PROVE  Core' /\ Ids'
    BY <1>4, IdlesCore, DiesCore, LoopTurnsCore, RecvCore, SessionIds, RecvIds
  <1>5. ASSUME NEW p \in Sides, NEW c \in Classes, Sent(p, c) \/ NotSent(p, c)
        PROVE  Core' /\ Ids'
    BY <1>5, SendCore, SendIds
  <1>6. ASSUME NEW i \in Sids, Opens(i) PROVE Core' /\ Ids'
    <2>1. Ids' /\ cl["client"][i] = "off"
      BY <1>6, OpensIds
    <2>2. Begins("client", i) /\ accepts' \in Seq(Sids) /\ "client" \in Sides
          /\ Only(strm, strm', "client", i) /\ strm'["client"][i] = Registered
      BY <1>6, SynQueues DEF Opens
    <2>3. DialOK'
      BY <1>6 DEF Opens, Begins, DialOK, Core
    <2>4. QED
      BY <2>1, <2>2, <2>3, BeginsCore
  <1>7. ASSUME NEW i \in Sids, Accepts(i) PROVE Core' /\ Ids'
    <2>1. Ids' /\ cl["server"][i] = "off"
      BY <1>7, AcceptsIds
    <2>2. Begins("server", i) /\ accepts' \in Seq(Sids) /\ "server" \in Sides /\ strm' = strm
      BY <1>7, SynQueues DEF Accepts
    <2>3. DialOK'
      BY <1>7 DEF Accepts, Begins, DialOK, Core
    <2>4. QED
      BY <2>1, <2>2, <2>3, BeginsCore
  <1>8. QED
    BY <1>1, <1>2, <1>3, <1>4, <1>5, <1>6, <1>7, Steps DEF SessionSteps

-----------------------------------------------------------------------------
(* The token bucket.                                                       *)

\* As many cells as H says for each stream; Held(p) is those of a session.
Cells(H) == UNION {{i} \X (1 .. H[i]) : i \in Sids}

LEMMA CellsFinite ==
    ASSUME NEW H \in [Sids -> Nat]
    PROVE  IsFiniteSet(Cells(H)) /\ Cardinality(Cells(H)) \in Nat
  <1> DEFINE f == [i \in Sids |-> {i} \X (1 .. H[i])]
             S == {{i} \X (1 .. H[i]) : i \in Sids}
  <1>1. IsFiniteSet(Sids)
    <2>1. IsFiniteSet(2 .. IdSpace - 1)
      BY Constants, FS_Interval
    <2>2. Sids \in SUBSET (2 .. IdSpace - 1)
      BY DEF Sids
    <2>3. QED
      BY <2>1, <2>2, FS_Subset
  <1>2. f \in Surjection(Sids, S)
    BY DEF Surjection
  <1>3. IsFiniteSet(S)
    BY <1>1, <1>2, FS_Surjection
  <1>4. ASSUME NEW i \in Sids PROVE IsFiniteSet({i} \X (1 .. H[i]))
    <2>1. 1 \in Int /\ H[i] \in Int
      OBVIOUS
    <2>2. IsFiniteSet(1 .. H[i]) /\ IsFiniteSet({i})
      BY <2>1, FS_Interval, FS_Singleton
    <2>3. QED
      BY <2>2, FS_Product
  <1>5. \A T \in S : IsFiniteSet(T)
    BY <1>4
  <1> HIDE DEF S
  <1>6. IsFiniteSet(UNION S)
    BY <1>3, <1>5, FS_UNION
  <1>7. IsFiniteSet(Cells(H))
    BY <1>6 DEF S, Cells
  <1>8. QED
    BY <1>7, FS_CardinalityType

LEMMA CellsGrow ==
    ASSUME NEW H \in [Sids -> Nat], NEW K \in [Sids -> Nat], NEW i \in Sids,
           \A j \in Sids : j # i => K[j] = H[j], H[i] <= K[i]
    PROVE  Cardinality(Cells(K)) = Cardinality(Cells(H)) + K[i] - H[i]
  <1> DEFINE D == {i} \X (H[i] + 1 .. K[i])
  <1>1. H[i] \in Nat /\ K[i] \in Nat
    OBVIOUS
  <1>2. IsFiniteSet(H[i] + 1 .. K[i]) /\ Cardinality(H[i] + 1 .. K[i]) = K[i] - H[i]
    <2>1. H[i] + 1 \in Int /\ K[i] \in Int
      BY <1>1
    <2>2. /\ IsFiniteSet(H[i] + 1 .. K[i])
          /\ Cardinality(H[i] + 1 .. K[i]) = IF H[i] + 1 > K[i] THEN 0 ELSE K[i] - (H[i] + 1) + 1
      BY <2>1, FS_Interval
    <2>3. QED
      BY <1>1, <2>2
  <1>3. IsFiniteSet({i}) /\ Cardinality({i}) = 1
    BY FS_Singleton
  <1>4. IsFiniteSet(D) /\ Cardinality(D) = 1 * (K[i] - H[i])
    <2> DEFINE E == H[i] + 1 .. K[i]
    <2>1. IsFiniteSet(E) /\ Cardinality(E) = K[i] - H[i] /\ D = {i} \X E
      BY <1>2
    <2> HIDE DEF E, D
    <2>2. IsFiniteSet({i} \X E) /\ Cardinality({i} \X E) = Cardinality({i}) * Cardinality(E)
      BY <1>3, <2>1, FS_Product
    <2>3. QED
      BY <1>3, <2>1, <2>2
  <1>5. IsFiniteSet(Cells(H)) /\ Cardinality(Cells(H)) \in Nat
    BY CellsFinite
  <1>6. ASSUME NEW x PROVE x \in Cells(K) <=> x \in Cells(H) \/ x \in D
    <2>1. x \in Cells(K) <=> \E j \in Sids : x \in {j} \X (1 .. K[j])
      BY DEF Cells
    <2>2. x \in Cells(H) <=> \E j \in Sids : x \in {j} \X (1 .. H[j])
      BY DEF Cells
    <2>3. \A j \in Sids : j # i => {j} \X (1 .. K[j]) = {j} \X (1 .. H[j])
      OBVIOUS
    <2>4. x \in {i} \X (1 .. K[i]) <=> x \in {i} \X (1 .. H[i]) \/ x \in D
      BY <1>1
    <2>5. QED
      BY <2>1, <2>2, <2>3, <2>4
  <1>7. ASSUME NEW x \in D PROVE x \notin Cells(H)
    <2>1. SUFFICES ASSUME NEW j \in Sids, x \in {j} \X (1 .. H[j]) PROVE FALSE
      BY DEF Cells
    <2>2. j = i /\ x[2] \in H[i] + 1 .. K[i] /\ x[2] \in 1 .. H[j]
      BY <1>7, <2>1
    <2>3. QED
      BY <1>1, <2>2
  <1> HIDE DEF D
  <1>8. Cells(K) = Cells(H) \cup D /\ Cells(H) \cap D = {}
    BY <1>6, <1>7
  <1>9. Cardinality(Cells(K)) = Cardinality(Cells(H)) + Cardinality(D) - Cardinality({})
    BY <1>4, <1>5, <1>8, FS_Union
  <1>10. Cardinality({}) = 0
    BY FS_EmptySet
  <1>11. QED
    BY <1>1, <1>4, <1>5, <1>9, <1>10

\* One stream holds more or less.
LEMMA CellsMove ==
    ASSUME NEW H \in [Sids -> Nat], NEW K \in [Sids -> Nat], NEW i \in Sids,
           \A j \in Sids : j # i => K[j] = H[j]
    PROVE  Cardinality(Cells(K)) = Cardinality(Cells(H)) + K[i] - H[i]
  <1>1. H[i] \in Nat /\ K[i] \in Nat /\ Cardinality(Cells(K)) \in Nat /\ Cardinality(Cells(H)) \in Nat
    BY CellsFinite
  <1>2. CASE H[i] <= K[i]
    BY <1>2, CellsGrow
  <1>3. CASE K[i] <= H[i]
    <2>1. Cardinality(Cells(H)) = Cardinality(Cells(K)) + H[i] - K[i]
      BY <1>3, CellsGrow
    <2>2. QED
      BY <1>1, <2>1
  <1>4. QED
    BY <1>1, <1>2, <1>3

Holding(p) == [i \in Sids |-> Holds(p, i)]

LEMMA HoldsNat ==
    ASSUME NEW s \in StreamType, NEW r \in ReaderType
    PROVE  Len(s.buf) + (IF r.pc = "taken" THEN r.n ELSE 0) \in Nat
  <1>1. s.buf \in Seq(Bytes)
    BY DEF StreamType
  <1>2. r.n \in Nat
    BY DEF ReaderType
  <1>3. Len(s.buf) \in Nat
    BY <1>1
  <1>4. QED
    BY <1>2, <1>3

LEMMA HeldCells ==
    ASSUME Types, Types', NEW p \in Sides
    PROVE  /\ Holding(p) \in [Sids -> Nat] /\ Held(p) = Cells(Holding(p))
           /\ Holding(p)' \in [Sids -> Nat] /\ Held(p)' = Cells(Holding(p)')
  <1>1. ASSUME NEW i \in Sids PROVE Holds(p, i) \in Nat /\ Holds(p, i)' \in Nat
    <2>1. /\ strm[p][i] \in StreamType /\ rd[p][i] \in ReaderType
          /\ strm'[p][i] \in StreamType /\ rd'[p][i] \in ReaderType
      BY DEF Types, Tables, Table
    <2>2. QED
      BY <2>1, HoldsNat DEF Holds, Buffered
  <1>2. QED
    BY <1>1 DEF Holding, Held, Cells

\* A session and stream i of it change what they hold together.
LEMMA TokensMove ==
    ASSUME Types, Types', TokensConserved, NEW p \in Sides, NEW i \in Sids,
           \A q \in Sides, j \in Sids : q # p \/ j # i => Holds(q, j)' = Holds(q, j),
           bucket'[p] = bucket[p] + Holds(p, i) - Holds(p, i)',
           \A q \in Sides : q # p => bucket'[q] = bucket[q],
           \A q \in Sides : closed[q] => closed'[q],
           bucket'[p] >= bucket[p] \/ bucket'[p] > -FrameSize
    PROVE  TokensConserved'
  <1>1. ASSUME NEW q \in Sides
        PROVE  /\ Holding(q) \in [Sids -> Nat] /\ Held(q) = Cells(Holding(q))
               /\ Holding(q)' \in [Sids -> Nat] /\ Held(q)' = Cells(Holding(q)')
               /\ bucket[q] \in Int /\ bucket'[q] \in Int
               /\ bucket[q] + Cardinality(Held(q)) = ReceiveBuffer
               /\ ~closed[q] => bucket[q] > -FrameSize
    BY HeldCells DEF Types, TokensConserved
  <1>2. ASSUME NEW q \in Sides, q # p
        PROVE  Cardinality(Held(q)') = Cardinality(Held(q))
    <2>1. Holding(q)' = Holding(q)
      BY <1>2 DEF Holding
    <2>2. QED
      BY <1>1, <1>2, <2>1
  <1>3. Cardinality(Held(p)') = Cardinality(Held(p)) + Holds(p, i)' - Holds(p, i)
    <2>1. \A j \in Sids : Holding(p)'[j] = Holds(p, j)' /\ Holding(p)[j] = Holds(p, j)
      BY DEF Holding
    <2>2. \A j \in Sids : j # i => Holding(p)'[j] = Holding(p)[j]
      BY <2>1
    <2>3. Cardinality(Cells(Holding(p)')) =
             Cardinality(Cells(Holding(p))) + Holding(p)'[i] - Holding(p)[i]
      BY <1>1, <2>2, CellsMove
    <2>4. QED
      BY <1>1, <2>1, <2>3
  <1>4. Holds(p, i) \in Nat /\ Holds(p, i)' \in Nat
        /\ Cardinality(Held(p)) \in Nat
    BY <1>1, CellsFinite DEF Holding
  <1>5. FrameSize \in Nat /\ ReceiveBuffer \in Nat
    BY Constants
  <1>6. ASSUME NEW q \in Sides
        PROVE  /\ bucket'[q] + Cardinality(Held(q)') = ReceiveBuffer
               /\ ~closed'[q] => bucket'[q] > -FrameSize
    <2>1. CASE q # p
      BY <1>1, <1>2, <2>1
    <2>2. CASE q = p
      BY <1>1, <1>3, <1>4, <1>5, <2>2
    <2>3. QED
      BY <2>1, <2>2
  <1>7. QED
    BY <1>6 DEF TokensConserved

LEMMA FreshUsers ==
    /\ Writer.pc = "off" /\ Writer.next = 1 /\ Writer.chunk = 0 /\ Writer.n = 0 /\ Writer.out = ""
    /\ Reader.pc = "off" /\ Reader.n = 0 /\ Reader.notify = FALSE /\ Reader.out = ""
  BY DEF Writer, Reader

\* What is left of a sequence.
LEMMA Rest ==
    ASSUME NEW T, NEW s \in Seq(T), NEW n \in 1 .. Len(s)
    PROVE  /\ n \in Nat /\ n <= Len(s) /\ Len(s) \in Nat
           /\ Len(SubSeq(s, n + 1, Len(s))) = Len(s) - n
           /\ \A k \in 1 .. Len(s) - n : SubSeq(s, n + 1, Len(s))[k] = s[n + k]
  <1>1. n \in Nat /\ n <= Len(s) /\ Len(s) \in Nat /\ n + 1 \in 1 .. Len(s) + 1
    OBVIOUS
  <1>2. SubSeq(s, n + 1, Len(s)) = [k \in 1 .. Len(s) - (n + 1) + 1 |-> s[(n + 1) + k - 1]]
    BY <1>1
  <1>3. Len(s) - (n + 1) + 1 = Len(s) - n /\ Len(s) - n \in Nat
    BY <1>1
  <1>4. SubSeq(s, n + 1, Len(s)) = [k \in 1 .. Len(s) - n |-> s[(n + 1) + k - 1]]
    BY <1>2, <1>3
  <1>5. \A k \in 1 .. Len(s) - n : (n + 1) + k - 1 = n + k
    BY <1>1
  <1>6. QED
    BY <1>1, <1>3, <1>4, <1>5

LEMMA BufferNat ==
    ASSUME Types, NEW p \in Sides, NEW i \in Sids
    PROVE  strm[p][i].buf \in Seq(Bytes) /\ Len(strm[p][i].buf) \in Nat
  <1>1. strm[p][i] \in StreamType
    BY SameTables
  <1>2. strm[p][i].buf \in Seq(Bytes)
    BY <1>1 DEF StreamType
  <1>3. QED
    BY <1>2

\* Nothing is taken or given.
StillHolds(q, j) ==
    /\ strm'[q][j].buf = strm[q][j].buf
    /\ rd'[q][j] = rd[q][j] \/ (rd[q][j].pc # "taken" /\ rd'[q][j].pc # "taken")

LEMMA HoldsKept ==
    ASSUME NEW q \in Sides, NEW j \in Sids, StillHolds(q, j)
    PROVE  Holds(q, j)' = Holds(q, j)
  <1>1. CASE rd'[q][j] = rd[q][j]
    BY <1>1 DEF StillHolds, Holds, Buffered
  <1>2. CASE rd[q][j].pc # "taken" /\ rd'[q][j].pc # "taken"
    BY <1>2 DEF StillHolds, Holds, Buffered
  <1>3. QED
    BY <1>1, <1>2 DEF StillHolds

LEMMA TokensKept ==
    ASSUME TokensConserved, bucket' = bucket, \A q \in Sides : closed[q] => closed'[q],
           \A q \in Sides, j \in Sids : StillHolds(q, j)
    PROVE  TokensConserved'
  <1>1. \A q \in Sides, j \in Sids : Holds(q, j)' = Holds(q, j)
    BY HoldsKept
  <1>2. \A q \in Sides : Held(q)' = Held(q)
    BY <1>1 DEF Held
  <1>3. QED
    BY <1>2 DEF TokensConserved

\* The other streams hold what they held.
LEMMA OthersHold ==
    ASSUME NEW p \in Sides, NEW i \in Sids, Only(strm, strm', p, i), Only(rd, rd', p, i)
    PROVE  \A q \in Sides, j \in Sids :
              q # p \/ j # i => StillHolds(q, j) /\ Holds(q, j)' = Holds(q, j)
  <1>1. \A q \in Sides, j \in Sids : q # p \/ j # i => StillHolds(q, j)
    BY DEF Only, StillHolds
  <1>2. QED
    BY <1>1, HoldsKept

\* A step about one stream that leaves its bytes where they are.
LEMMA TokensStay ==
    ASSUME TokensConserved, bucket' = bucket, closed' = closed,
           NEW p \in Sides, NEW i \in Sids, Only(strm, strm', p, i), Only(rd, rd', p, i),
           StillHolds(p, i)
    PROVE  TokensConserved'
  <1>1. \A q \in Sides, j \in Sids : StillHolds(q, j)
    BY OthersHold
  <1>2. QED
    BY <1>1, TokensKept

LEMMA UserTokens ==
    ASSUME Core, Core', TokensConserved, NEW p \in Sides, NEW i \in Sids, UserSteps(p, i)
    PROVE  TokensConserved'
  <1>1. Types /\ Types'
    BY DEF Core
  <1>2. /\ UserStep(p, i) /\ closed' = closed /\ Only(strm, strm', p, i) /\ Only(rd, rd', p, i)
    <2>1. UserStep(p, i)
      BY DEF UserSteps, WriterTurns, WriterMoves, FrameAsked, FrameSent, Writing, Taken, Returned,
             ReaderMoves, Reading, CloseBegins, CloseDone, Closing
    <2>2. QED
      BY <2>1 DEF UserStep
  <1>3. /\ strm[p][i].buf \in Seq(Bytes) /\ Len(strm[p][i].buf) \in Nat
        /\ bucket[p] \in Int /\ bucket'[p] \in Int /\ FrameSize \in Nat
    BY <1>1, BufferNat, Constants DEF Types
  <1>4. CASE WriterTurns(p, i) \/ FrameAsked(p, i) \/ FrameSent(p, i)
    <2>1. bucket' = bucket /\ rd' = rd /\ strm'[p][i].buf = strm[p][i].buf
      BY <1>4 DEF WriterTurns, WriterMoves, FrameAsked, FrameSent, Writing, Alike
    <2>2. QED
      BY <1>2, <2>1, TokensStay DEF StillHolds
  <1>5. ASSUME NEW n \in Nat, Taken(p, i, n)
        PROVE  TokensConserved'
    <2>1. /\ n \in 1 .. Len(strm[p][i].buf) /\ bucket' = bucket
          /\ strm'[p][i].buf = SubSeq(strm[p][i].buf, n + 1, Len(strm[p][i].buf))
          /\ rd[p][i].pc = "try" /\ rd'[p][i].pc = "taken" /\ rd'[p][i].n = n
      BY <1>5 DEF Taken
    <2>2. Len(strm'[p][i].buf) = Len(strm[p][i].buf) - n /\ n <= Len(strm[p][i].buf)
      BY <1>3, <2>1, Rest
    <2>3. Holds(p, i)' = Len(strm'[p][i].buf) + n /\ Holds(p, i) = Len(strm[p][i].buf) + 0
      BY <2>1 DEF Holds, Buffered
    <2>4. Holds(p, i)' = Holds(p, i) /\ Holds(p, i) \in Nat
      BY <1>3, <2>2, <2>3
    <2>5. bucket'[p] = bucket[p] + Holds(p, i) - Holds(p, i)' /\ bucket'[p] >= bucket[p]
      <3>1. \A x, y \in Int : x = x + y - y /\ x >= x
        OBVIOUS
      <3>2. bucket'[p] = bucket[p] /\ bucket[p] \in Int /\ Holds(p, i) \in Int
        BY <1>3, <2>1, <2>4
      <3>3. QED
        BY <2>4, <3>1, <3>2
    <2>6. \A q \in Sides, j \in Sids : q # p \/ j # i => Holds(q, j)' = Holds(q, j)
      BY <1>2, OthersHold
    <2>7. /\ \A q \in Sides : q # p => bucket'[q] = bucket[q]
          /\ \A q \in Sides : closed[q] => closed'[q]
      BY <1>2, <2>1
    <2>8. QED
      BY <1>1, <2>5, <2>6, <2>7, TokensMove
  <1>6. CASE Returned(p, i)
    <2>1. /\ rd[p][i].pc = "taken" /\ rd'[p][i].pc # "taken" /\ strm' = strm
          /\ Returns(p, rd[p][i].n) /\ rd[p][i] \in ReaderType
      BY <1>1, <1>6, SameTables DEF Returned
    <2>2. rd[p][i].n \in Nat
      BY <2>1 DEF ReaderType
    <2>3. Holds(p, i)' = Len(strm[p][i].buf) + 0 /\ Holds(p, i) = Len(strm[p][i].buf) + rd[p][i].n
      BY <2>1 DEF Holds, Buffered
    <2>4. bucket'[p] = bucket[p] + rd[p][i].n /\ \A q \in Sides : q # p => bucket'[q] = bucket[q]
      BY <2>1 DEF Returns
    <2>5. bucket'[p] = bucket[p] + Holds(p, i) - Holds(p, i)' /\ bucket'[p] >= bucket[p]
      BY <1>3, <2>2, <2>3, <2>4
    <2>6. QED
      BY <1>1, <1>2, <2>4, <2>5, OthersHold, TokensMove
  <1>7. CASE ReaderMoves(p, i)
    <2>1. bucket' = bucket /\ strm'[p][i].buf = strm[p][i].buf
          /\ rd[p][i].pc # "taken" /\ rd'[p][i].pc # "taken"
      BY <1>7 DEF ReaderMoves, Alike
    <2>2. QED
      BY <1>2, <2>1, TokensStay DEF StillHolds
  <1>8. CASE CloseBegins(p, i)
    <2>1. bucket' = bucket /\ rd' = rd /\ strm'[p][i].buf = strm[p][i].buf
      BY <1>8 DEF CloseBegins, Closing
    <2>2. QED
      BY <1>2, <2>1, TokensStay DEF StillHolds
  <1>9. CASE CloseDone(p, i)
    <2>1. /\ rd[p][i].pc = "end" /\ rd' = rd /\ strm'[p][i].buf = <<>>
          /\ Returns(p, Len(strm[p][i].buf))
      BY <1>9 DEF CloseDone, Closing
    <2>2. Holds(p, i)' = 0 + 0 /\ Holds(p, i) = Len(strm[p][i].buf) + 0
      BY <2>1 DEF Holds, Buffered
    <2>3. bucket'[p] = bucket[p] + Len(strm[p][i].buf)
          /\ \A q \in Sides : q # p => bucket'[q] = bucket[q]
      BY <2>1 DEF Returns
    <2>4. bucket'[p] = bucket[p] + Holds(p, i) - Holds(p, i)' /\ bucket'[p] >= bucket[p]
      BY <1>3, <2>2, <2>3
    <2>5. QED
      BY <1>1, <1>2, <2>3, <2>4, OthersHold, TokensMove
  <1>10. QED
    BY <1>4, <1>5, <1>6, <1>7, <1>8, <1>9 DEF UserSteps

LEMMA RecvTokens ==
    ASSUME Core, Core', TokensConserved, NEW p \in Sides, RecvSteps(p)
    PROVE  TokensConserved'
  <1>1. Types /\ Types'
    BY DEF Core
  <1>2. CASE Ignored(p)
    <2>1. bucket' = bucket /\ closed' = closed /\ rd' = rd /\ strm' = strm
      BY <1>2 DEF Ignored, Receiving, UsersRest
    <2>2. QED
      BY <2>1, TokensKept DEF StillHolds
  <1>3. ASSUME NEW i \in Sids, Opened(p, i) PROVE TokensConserved'
    <2>1. /\ bucket' = bucket /\ closed' = closed /\ rd' = rd /\ Only(strm, strm', p, i)
          /\ ~strm[p][i].reg /\ strm'[p][i] = Registered
      BY <1>3 DEF Opened, Receiving, UsersRest
    <2>2. strm'[p][i].buf = strm[p][i].buf
      BY <2>1, EmptyBuffers, FreshStream
    <2>3. QED
      BY <2>1, <2>2, TokensStay DEF StillHolds, Only
  <1>4. ASSUME NEW i \in Sids, FinArrives(p, i) \/ UpdArrives(p, i) PROVE TokensConserved'
    <2>1. /\ bucket' = bucket /\ closed' = closed /\ rd' = rd /\ Only(strm, strm', p, i)
          /\ strm'[p][i].buf = strm[p][i].buf
      BY <1>4 DEF FinArrives, UpdArrives, Arrives, Receiving, UsersRest
    <2>2. QED
      BY <2>1, TokensStay DEF StillHolds, Only
  <1>5. ASSUME NEW i \in Sids, PshArrives(p, i) PROVE TokensConserved'
    <2> DEFINE d == Head(wire[p]).data
    <2>1. /\ closed' = closed /\ rd' = rd /\ Only(strm, strm', p, i) /\ bucket[p] > 0
          /\ d \in Seq(Bytes) /\ Len(d) \in 1 .. FrameSize /\ Returns(p, -Len(d))
          /\ strm'[p][i].buf = strm[p][i].buf \o d
      BY <1>5 DEF PshArrives, Arrives, Receiving, UsersRest
    <2>2. /\ strm[p][i].buf \in Seq(Bytes) /\ Len(strm[p][i].buf) \in Nat
          /\ bucket[p] \in Int /\ bucket'[p] \in Int /\ FrameSize \in Nat
      BY <1>1, BufferNat, Constants DEF Types
    <2> HIDE DEF d
    <2>3. Len(strm'[p][i].buf) = Len(strm[p][i].buf) + Len(d)
      BY <2>1, <2>2
    <2>4. \E t \in Nat : Holds(p, i) = Len(strm[p][i].buf) + t /\ Holds(p, i)' = Len(strm'[p][i].buf) + t
      <3> DEFINE t == IF rd[p][i].pc = "taken" THEN rd[p][i].n ELSE 0
      <3>1. rd[p][i] \in ReaderType
        BY <1>1, SameTables
      <3>2. t \in Nat
        BY <3>1 DEF ReaderType
      <3>3. Holds(p, i) = Len(strm[p][i].buf) + t /\ Holds(p, i)' = Len(strm'[p][i].buf) + t
        BY <2>1 DEF Holds, Buffered
      <3> HIDE DEF t
      <3>4. QED
        BY <3>2, <3>3
    <2>5. bucket'[p] = bucket[p] + -Len(d) /\ \A q \in Sides : q # p => bucket'[q] = bucket[q]
      BY <2>1 DEF Returns
    <2>6. Len(d) \in Nat /\ Len(d) <= FrameSize
      BY <2>1, <2>2
    <2>7. bucket'[p] = bucket[p] + Holds(p, i) - Holds(p, i)' /\ bucket'[p] > -FrameSize
      BY <2>1, <2>2, <2>3, <2>4, <2>5, <2>6
    <2>8. Only(rd, rd', p, i)
      BY <2>1 DEF Only
    <2>9. QED
      BY <1>1, <2>1, <2>5, <2>7, <2>8, OthersHold, TokensMove
  <1>6. QED
    BY <1>2, <1>3, <1>4, <1>5 DEF RecvSteps

LEMMA SessionTokens ==
    ASSUME Core, Core', Ids, TokensConserved, SessionSteps
    PROVE  TokensConserved'
  <1>1. CASE Idles \/ Dials \/ (\E p \in Sides : Pings(p) \/ LoopTurns(p))
             \/ \E p \in Sides, c \in Classes : Sent(p, c) \/ NotSent(p, c)
    <2>1. strm' = strm /\ rd' = rd /\ bucket' = bucket /\ closed' = closed
      BY <1>1 DEF Idles, Dials, Pings, LoopTurns, Sent, NotSent, Sending, UsersRest
    <2>2. QED
      BY <2>1, TokensKept DEF StillHolds
  <1>2. ASSUME NEW p \in Sides, Dies(p) PROVE TokensConserved'
    <2>1. bucket' = bucket /\ rd' = rd /\ \A q \in Sides : closed[q] => closed'[q]
      BY <1>2 DEF Dies, UsersRest
    <2>2. \A q \in Sides, j \in Sids : strm'[q][j].buf = strm[q][j].buf
      BY <1>2 DEF Dies, Alike
    <2>3. QED
      BY <2>1, <2>2, TokensKept DEF StillHolds
  <1>3. ASSUME NEW i \in Sids, NEW p \in Sides, Begins(p, i), Only(strm, strm', p, i),
               rd[p][i] = Reader, strm'[p][i].buf = strm[p][i].buf
        PROVE  TokensConserved'
    <2>1. bucket' = bucket /\ closed' = closed /\ Only(rd, rd', p, i) /\ rd'[p][i].pc = "try"
      BY <1>3 DEF Begins
    <2>2. rd[p][i].pc = "off"
      BY <1>3, FreshUsers
    <2>3. QED
      BY <1>3, <2>1, <2>2, TokensStay DEF StillHolds
  <1>4. ASSUME NEW i \in Sids, Opens(i) PROVE TokensConserved'
    <2>1. /\ Begins("client", i) /\ Only(strm, strm', "client", i) /\ "client" \in Sides
          /\ strm'["client"][i] = Registered /\ dial.pc = "syn" /\ dial.sid = i
      BY <1>4 DEF Opens, Sides
    <2>2. rd["client"][i] = Reader /\ strm["client"][i] = Stream
      BY <2>1 DEF Ids, Unused
    <2>3. strm'["client"][i].buf = strm["client"][i].buf
      BY <2>1, <2>2, FreshStream
    <2>4. QED
      BY <1>3, <2>1, <2>2, <2>3
  <1>5. ASSUME NEW i \in Sids, Accepts(i) PROVE TokensConserved'
    <2>1. /\ Begins("server", i) /\ "server" \in Sides /\ strm' = strm /\ accepts # <<>>
          /\ i = Head(accepts) /\ accepts \in Seq(Sids)
      BY <1>5, SynQueues DEF Accepts, Sides
    <2>2. 1 \in 1 .. Len(accepts) /\ i = accepts[1]
      BY <2>1
    <2>3. rd["server"][i] = Reader
      BY <2>2 DEF Ids, Unused
    <2>4. Only(strm, strm', "server", i)
      BY <2>1 DEF Only
    <2>5. QED
      BY <1>3, <2>1, <2>3, <2>4
  <1>6. QED
    BY <1>1, <1>2, <1>4, <1>5, RecvTokens DEF SessionSteps

LEMMA TokensInit ==
    ASSUME Init
    PROVE  TokensConserved
  <1>1. ASSUME NEW p \in Sides PROVE bucket[p] = ReceiveBuffer /\ ~closed[p] /\ Held(p) = {}
    <2>1. ASSUME NEW i \in Sids PROVE Holds(p, i) = 0
      <3>1. strm[p][i] = Stream /\ rd[p][i] = Reader
        BY DEF Init
      <3>2. strm[p][i].buf = <<>> /\ rd[p][i].pc = "off"
        BY <3>1, FreshStream, FreshUsers
      <3>3. Len(strm[p][i].buf) = 0
        BY <3>2
      <3>4. QED
        BY <3>2, <3>3 DEF Holds, Buffered
    <2>2. \A i \in Sids : {i} \X (1 .. Holds(p, i)) = {}
      <3>1. 1 .. 0 = {}
        OBVIOUS
      <3>2. QED
        BY <2>1, <3>1
    <2>3. Held(p) = {}
      BY <2>2 DEF Held
    <2>4. QED
      BY <2>3 DEF Init
  <1>2. ReceiveBuffer \in Nat \ {0} /\ FrameSize \in Nat \ {0} /\ Cardinality({}) = 0
    BY Constants, FS_EmptySet
  <1>3. QED
    BY <1>1, <1>2 DEF TokensConserved

LEMMA TokensStep ==
    ASSUME Core, Ids, TokensConserved, [Next]_vars
    PROVE  Core' /\ Ids' /\ TokensConserved'
  <1>1. Core' /\ Ids'
    BY CoreIdsStep
  <1>2. QED
    BY <1>1, Steps, UserTokens, SessionTokens

(***************************************************************************)
(* The types of the session and what its users rely on: a reader, a writer *)
(* and a Close of a stream are where the calls they wait for say, a stream *)
(* that is not in the map has no buffers, and no id is given to two        *)
(* streams.                                                                *)
(***************************************************************************)
THEOREM CoreHolds == Spec => [](Core /\ Ids)
  <1>1. Init => Core /\ Ids
    BY CoreIdsInit
  <1>2. (Core /\ Ids) /\ [Next]_vars => (Core /\ Ids)'
    BY CoreIdsStep
  <1>3. QED
    BY <1>1, <1>2, PTL DEF Spec

(***************************************************************************)
(* TokensConserved holds in every state: recvLoop takes a token for each   *)
(* byte it buffers, a reader gives back what it takes out after it has let *)
(* go of the lock, streamClosed gives back what was never read, and none   *)
(* of them is given back twice or forgotten, however these interleave.     *)
(***************************************************************************)
THEOREM TokensConservedHolds == Spec => []TokensConserved
  <1> DEFINE I == Core /\ Ids /\ TokensConserved
  <1>1. Init => I
    BY CoreIdsInit, TokensInit
  <1>2. I /\ [Next]_vars => I'
    BY TokensStep
  <1>3. I => TokensConserved
    OBVIOUS
  <1> HIDE DEF I
  <1>4. QED
    BY <1>1, <1>2, <1>3, PTL DEF Spec

-----------------------------------------------------------------------------
(* What the frames of a queue say of a stream, one after the other.        *)

\* A frame takes what is said from m to n.  Of the data, Data(i, top): it carries
\* bytes m + 1 to n of stream i, and a FIN comes after byte top.  Of the updates,
\* Read(i): it reports n bytes read.
Data(i, top) == <<"data", i, top>>
Read(i)      == <<"read", i, 0>>

Moves(w, f, m, n) ==
    /\ m <= n
    /\ IF w[1] = "data"
       THEN /\ IF Is(f, "PSH", w[2])
               THEN n = m + Len(f.data) /\ \A k \in 1 .. Len(f.data) : f.data[k].at = m + k
               ELSE n = m
            /\ Is(f, "FIN", w[2]) => m = w[3]
       ELSE Is(f, "UPD", w[2]) => f.data[1] = n % CountSpace

\* The frames s take it from "from" to "to".
Carries(s, w, from, to) == \E F \in [0 .. Len(s) -> Nat] :
    /\ F[0] = from /\ F[Len(s)] = to
    /\ \A a \in 0 .. Len(s) : F[a] <= to
    /\ \A a \in 1 .. Len(s) : Moves(w, s[a], F[a - 1], F[a])

LEMMA CarriesNone ==
    ASSUME NEW w, NEW n \in Nat
    PROVE  Carries(<<>>, w, n, n)
  <1> DEFINE F == [a \in 0 .. 0 |-> n]
  <1>1. F \in [0 .. Len(<<>>) -> Nat] /\ F[0] = n /\ F[Len(<<>>)] = n /\ Len(<<>>) = 0
    OBVIOUS
  <1>2. \A a \in 0 .. Len(<<>>) : F[a] <= n
    BY <1>1
  <1>3. \A a \in 1 .. Len(<<>>) : Moves(w, <<>>[a], F[a - 1], F[a])
    BY <1>1
  <1> HIDE DEF F
  <1>4. QED
    BY <1>1, <1>2, <1>3 DEF Carries

LEMMA CarriesBounds ==
    ASSUME NEW T, NEW s \in Seq(T), NEW w, NEW from, NEW to, Carries(s, w, from, to)
    PROVE  from \in Nat /\ to \in Nat /\ from <= to
  <1>1. PICK F \in [0 .. Len(s) -> Nat] :
            /\ F[0] = from /\ F[Len(s)] = to
            /\ \A a \in 0 .. Len(s) : F[a] <= to
    BY DEF Carries
  <1>2. 0 \in 0 .. Len(s) /\ Len(s) \in 0 .. Len(s)
    OBVIOUS
  <1>3. QED
    BY <1>1, <1>2

LEMMA CarriesTail ==
    ASSUME NEW T, NEW s \in Seq(T), s # <<>>, NEW w, NEW from, NEW to, Carries(s, w, from, to)
    PROVE  \E m \in Nat : from <= m /\ m <= to /\ Moves(w, Head(s), from, m) /\ Carries(Tail(s), w, m, to)
  <1>1. PICK F \in [0 .. Len(s) -> Nat] :
            /\ F[0] = from /\ F[Len(s)] = to
            /\ \A a \in 0 .. Len(s) : F[a] <= to
            /\ \A a \in 1 .. Len(s) : Moves(w, s[a], F[a - 1], F[a])
    BY DEF Carries
  <1>2. Len(s) \in Nat \ {0} /\ Len(Tail(s)) = Len(s) - 1 /\ Head(s) = s[1]
        /\ \A a \in 1 .. Len(Tail(s)) : Tail(s)[a] = s[a + 1]
    OBVIOUS
  <1> DEFINE G == [a \in 0 .. Len(s) - 1 |-> F[a + 1]]
  <1>3. G \in [0 .. Len(Tail(s)) -> Nat] /\ G[0] = F[1] /\ G[Len(Tail(s))] = to
    BY <1>1, <1>2
  <1>4. \A a \in 0 .. Len(Tail(s)) : G[a] <= to
    BY <1>1, <1>2
  <1>5. ASSUME NEW a \in 1 .. Len(Tail(s)) PROVE Moves(w, Tail(s)[a], G[a - 1], G[a])
    <2>1. /\ a + 1 \in 1 .. Len(s) /\ a - 1 \in 0 .. Len(s) - 1 /\ a \in 0 .. Len(s) - 1
          /\ (a + 1) - 1 = a /\ (a - 1) + 1 = a
      BY <1>2
    <2>2. G[a - 1] = F[a] /\ G[a] = F[a + 1] /\ Tail(s)[a] = s[a + 1]
      BY <1>2, <2>1
    <2>3. Moves(w, s[a + 1], F[(a + 1) - 1], F[a + 1])
      BY <1>1, <2>1
    <2> HIDE DEF G
    <2>4. QED
      BY <2>1, <2>2, <2>3
  <1> HIDE DEF G
  <1>6. Carries(Tail(s), w, F[1], to)
    BY <1>3, <1>4, <1>5 DEF Carries
  <1>7. 1 \in 1 .. Len(s) /\ 1 \in 0 .. Len(s) /\ 1 - 1 = 0
    BY <1>2
  <1>8. F[1] \in Nat /\ F[1] <= to /\ Moves(w, Head(s), from, F[1])
    BY <1>1, <1>2, <1>7
  <1>9. from <= F[1]
    BY <1>8 DEF Moves
  <1>10. QED
    BY <1>6, <1>8, <1>9

LEMMA CarriesAppend ==
    ASSUME NEW T, NEW s \in Seq(T), NEW f \in T, NEW w, NEW from, NEW to, NEW n \in Nat,
           Carries(s, w, from, to), Moves(w, f, to, n)
    PROVE  Carries(Append(s, f), w, from, n)
  <1>1. PICK F \in [0 .. Len(s) -> Nat] :
            /\ F[0] = from /\ F[Len(s)] = to
            /\ \A a \in 0 .. Len(s) : F[a] <= to
            /\ \A a \in 1 .. Len(s) : Moves(w, s[a], F[a - 1], F[a])
    BY DEF Carries
  <1>2. Len(s) \in Nat /\ Len(Append(s, f)) = Len(s) + 1 /\ Append(s, f)[Len(s) + 1] = f
        /\ \A a \in 1 .. Len(s) : Append(s, f)[a] = s[a]
    OBVIOUS
  <1> DEFINE G == [a \in 0 .. Len(s) + 1 |-> IF a = Len(s) + 1 THEN n ELSE F[a]]
  <1>3. /\ G \in [0 .. Len(Append(s, f)) -> Nat] /\ G[Len(Append(s, f))] = n
        /\ \A a \in 0 .. Len(s) : G[a] = F[a]
    BY <1>1, <1>2
  <1>4. to \in Nat /\ 0 \in 0 .. Len(s) /\ Len(s) \in 0 .. Len(s) /\ to <= n
    BY <1>1, <1>2 DEF Moves
  <1> HIDE DEF G
  <1>5. \A a \in 0 .. Len(Append(s, f)) : G[a] <= n
    <2>1. ASSUME NEW a \in 0 .. Len(Append(s, f)) PROVE G[a] <= n
      <3>1. CASE a = Len(s) + 1
        BY <1>2, <1>3, <3>1
      <3>2. CASE a # Len(s) + 1
        <4>1. a \in 0 .. Len(s)
          BY <1>2, <3>2
        <4>2. F[a] \in Nat /\ F[a] <= to
          BY <1>1, <4>1
        <4>3. QED
          BY <1>3, <1>4, <4>1, <4>2
      <3>3. QED
        BY <3>1, <3>2
    <2>2. QED
      BY <2>1
  <1>6. ASSUME NEW a \in 1 .. Len(Append(s, f)) PROVE Moves(w, Append(s, f)[a], G[a - 1], G[a])
    <2>1. CASE a = Len(s) + 1
      <3>1. a - 1 = Len(s) /\ G[a - 1] = to /\ G[a] = n /\ Append(s, f)[a] = f
        BY <1>1, <1>2, <1>3, <1>4, <2>1
      <3>2. QED
        BY <3>1
    <2>2. CASE a # Len(s) + 1
      <3>1. a \in 1 .. Len(s) /\ a \in 0 .. Len(s) /\ a - 1 \in 0 .. Len(s)
        BY <1>2, <2>2
      <3>2. QED
        BY <1>1, <1>2, <1>3, <3>1
    <2>3. QED
      BY <2>1, <2>2
  <1>7. G[0] = from
    BY <1>1, <1>3, <1>4
  <1>8. QED
    BY <1>3, <1>5, <1>6, <1>7 DEF Carries

\* Another reading of the same frames.
LEMMA CarriesAs ==
    ASSUME NEW T, NEW s \in Seq(T), NEW w, NEW v, NEW from, NEW to, Carries(s, w, from, to),
           \A a \in 1 .. Len(s), m, n \in Nat : Moves(w, s[a], m, n) => Moves(v, s[a], m, n)
    PROVE  Carries(s, v, from, to)
  <1>1. PICK F \in [0 .. Len(s) -> Nat] :
            /\ F[0] = from /\ F[Len(s)] = to
            /\ \A a \in 0 .. Len(s) : F[a] <= to
            /\ \A a \in 1 .. Len(s) : Moves(w, s[a], F[a - 1], F[a])
    BY DEF Carries
  <1>2. ASSUME NEW a \in 1 .. Len(s) PROVE Moves(v, s[a], F[a - 1], F[a])
    <2>1. a - 1 \in 0 .. Len(s) /\ a \in 0 .. Len(s)
      OBVIOUS
    <2>2. QED
      BY <1>1, <2>1
  <1>3. QED
    BY <1>1, <1>2 DEF Carries

LEMMA MovesData ==
    ASSUME NEW f, NEW i, NEW top, NEW m, NEW n
    PROVE  Moves(Data(i, top), f, m, n) <=>
              /\ m <= n
              /\ Is(f, "PSH", i) => /\ n = m + Len(f.data)
                                    /\ \A k \in 1 .. Len(f.data) : f.data[k].at = m + k
              /\ ~Is(f, "PSH", i) => n = m
              /\ Is(f, "FIN", i) => m = top
  BY DEF Moves, Data

LEMMA MovesRead ==
    ASSUME NEW f, NEW i, NEW m, NEW n
    PROVE  Moves(Read(i), f, m, n) <=>
              m <= n /\ (Is(f, "UPD", i) => f.data[1] = n % CountSpace)
  BY DEF Moves, Read

\* A FIN that is not there.
LEMMA CarriesTop ==
    ASSUME NEW T, NEW s \in Seq(T), NEW i, NEW t, NEW u, NEW from, NEW to,
           Carries(s, Data(i, t), from, to), ~Has(s, "FIN", i)
    PROVE  Carries(s, Data(i, u), from, to)
  <1>1. ASSUME NEW a \in 1 .. Len(s), NEW m \in Nat, NEW n \in Nat, Moves(Data(i, t), s[a], m, n)
        PROVE  Moves(Data(i, u), s[a], m, n)
    <2>1. ~Is(s[a], "FIN", i)
      BY DEF Has
    <2>2. QED
      BY <1>1, <2>1, MovesData
  <1>2. QED
    BY <1>1, CarriesAs

(***************************************************************************)
(* The data of stream i on its way: R bytes have come, T are handed in,    *)
(* the frames of W are on the wire and those of D wait, unless the session *)
(* is broken.  When nothing is missed (live) all that has left the wire    *)
(* has come; the FIN comes after all of it, when the writer is done.       *)
(***************************************************************************)
Pipe(i, R, T, done, W, D, broken, fin, live) ==
    /\ \E x, y \in Nat :
          /\ R <= x /\ (live => R = x)
          /\ fin => x = T
          /\ y <= T
          /\ Carries(W, Data(i, T), x, y)
          /\ ~broken => Carries(D, Data(i, T), y, T)
    /\ Has(W, "FIN", i) \/ fin \/ (~broken /\ Has(D, "FIN", i)) => done

LEMMA PipeEmpty ==
    ASSUME NEW i, NEW done, NEW broken, NEW live
    PROVE  Pipe(i, 0, 0, done, <<>>, <<>>, broken, FALSE, live)
  <1> DEFINE P(x, y) == /\ 0 <= x /\ (live => 0 = x)
                        /\ FALSE => x = 0
                        /\ y <= 0
                        /\ Carries(<<>>, Data(i, 0), x, y)
                        /\ ~broken => Carries(<<>>, Data(i, 0), y, 0)
  <1>1. 0 \in Nat /\ 0 <= 0 /\ Carries(<<>>, Data(i, 0), 0, 0)
    BY CarriesNone
  <1>2. P(0, 0)
    BY <1>1
  <1> HIDE DEF P
  <1>3. \E x, y \in Nat : P(x, y)
    BY <1>1, <1>2
  <1>4. ~Has(<<>>, "FIN", i)
    BY DEF Has
  <1>5. QED
    BY <1>3, <1>4 DEF Pipe, P

LEMMA PipeKept ==
    ASSUME NEW i, NEW R \in Nat, NEW T \in Nat, NEW done, NEW W, NEW D, NEW broken, NEW fin, NEW live,
           Pipe(i, R, T, done, W, D, broken, fin, live),
           NEW Q \in Nat, NEW doing, NEW E, NEW breaks, NEW lives,
           Q <= R, lives => live /\ Q = R, broken => breaks, ~breaks => E = D, done => doing
    PROVE  Pipe(i, Q, T, doing, W, E, breaks, fin, lives)
  <1>1. PICK x \in Nat, y \in Nat :
          /\ R <= x /\ (live => R = x)
          /\ fin => x = T
          /\ y <= T
          /\ Carries(W, Data(i, T), x, y)
          /\ ~broken => Carries(D, Data(i, T), y, T)
    BY DEF Pipe
  <1>2. Q <= x /\ (lives => Q = x)
    BY <1>1
  <1>3. Has(W, "FIN", i) \/ fin \/ (~breaks /\ Has(E, "FIN", i)) => doing
    BY DEF Pipe
  <1>4. ~breaks => Carries(E, Data(i, T), y, T)
    BY <1>1
  <1>5. QED
    BY <1>1, <1>2, <1>3, <1>4 DEF Pipe

\* A queue gets a frame that is not about the data of the stream.
LEMMA PipeOther ==
    ASSUME NEW i, NEW R \in Nat, NEW T \in Nat, NEW done, NEW S, NEW W \in Seq(S), NEW D \in Seq(S),
           NEW broken, NEW fin, NEW live, Pipe(i, R, T, done, W, D, broken, fin, live),
           NEW f \in S, ~Is(f, "PSH", i), ~Is(f, "FIN", i)
    PROVE  /\ Pipe(i, R, T, done, W, Append(D, f), broken, fin, live)
           /\ Pipe(i, R, T, done, Append(W, f), D, broken, fin, live)
  <1>1. PICK x \in Nat, y \in Nat :
          /\ R <= x /\ (live => R = x)
          /\ fin => x = T
          /\ y <= T
          /\ Carries(W, Data(i, T), x, y)
          /\ ~broken => Carries(D, Data(i, T), y, T)
    BY DEF Pipe
  <1>2. \A m \in Nat : Moves(Data(i, T), f, m, m) /\ m <= m
    BY MovesData
  <1>3. ~broken => Carries(Append(D, f), Data(i, T), y, T)
    BY <1>1, <1>2, CarriesAppend
  <1>4. Carries(Append(W, f), Data(i, T), x, y)
    BY <1>1, <1>2, CarriesAppend
  <1>5. /\ Has(Append(D, f), "FIN", i) <=> Has(D, "FIN", i)
        /\ Has(Append(W, f), "FIN", i) <=> Has(W, "FIN", i)
    BY HasAppend
  <1>6. Has(W, "FIN", i) \/ fin \/ (~broken /\ Has(D, "FIN", i)) => done
    BY DEF Pipe
  <1>7. Pipe(i, R, T, done, W, Append(D, f), broken, fin, live)
    BY <1>1, <1>3, <1>5, <1>6 DEF Pipe
  <1>8. Pipe(i, R, T, done, Append(W, f), D, broken, fin, live)
    BY <1>1, <1>4, <1>5, <1>6 DEF Pipe
  <1>9. QED
    BY <1>7, <1>8

\* The writer hands in a frame of data.
LEMMA PipeAsked ==
    ASSUME NEW i, NEW R \in Nat, NEW T \in Nat, NEW S, NEW W \in Seq(S), NEW D \in Seq(S),
           NEW done, NEW broken, NEW fin, NEW live, Pipe(i, R, T, done, W, D, broken, fin, live), ~done,
           NEW f \in S, Is(f, "PSH", i), NEW n \in Nat, Len(f.data) = n,
           \A k \in 1 .. n : f.data[k].at = T + k
    PROVE  Pipe(i, R, T + n, done, W, Append(D, f), broken, fin, live)
  <1>1. PICK x \in Nat, y \in Nat :
          /\ R <= x /\ (live => R = x)
          /\ fin => x = T
          /\ y <= T
          /\ Carries(W, Data(i, T), x, y)
          /\ ~broken => Carries(D, Data(i, T), y, T)
    BY DEF Pipe
  <1>2. ~Has(W, "FIN", i) /\ ~fin /\ (~broken => ~Has(D, "FIN", i))
    BY DEF Pipe
  <1>3. ~Is(f, "FIN", i)
    BY DEF Is
  <1>4. Carries(W, Data(i, T + n), x, y)
    BY <1>1, <1>2, CarriesTop
  <1>5. ASSUME ~broken PROVE Carries(Append(D, f), Data(i, T + n), y, T + n) /\ ~Has(Append(D, f), "FIN", i)
    <2>1. Carries(D, Data(i, T + n), y, T)
      BY <1>1, <1>2, <1>5, CarriesTop
    <2>2. Moves(Data(i, T + n), f, T, T + n)
      BY <1>3, MovesData
    <2>3. T + n \in Nat /\ T <= T + n
      OBVIOUS
    <2>4. QED
      BY <1>2, <1>3, <1>5, <2>1, <2>2, <2>3, CarriesAppend, HasAppend
  <1>6. y <= T + n
    BY <1>1
  <1>7. QED
    BY <1>1, <1>2, <1>4, <1>5, <1>6 DEF Pipe

\* Close hands in the FIN.
LEMMA PipeFin ==
    ASSUME NEW i, NEW R \in Nat, NEW T \in Nat, NEW done, NEW S, NEW W \in Seq(S), NEW D \in Seq(S),
           NEW broken, NEW fin, NEW live, Pipe(i, R, T, done, W, D, broken, fin, live),
           NEW f \in S, Is(f, "FIN", i), ~broken => done
    PROVE  Pipe(i, R, T, done, W, Append(D, f), broken, fin, live)
  <1>1. PICK x \in Nat, y \in Nat :
          /\ R <= x /\ (live => R = x)
          /\ fin => x = T
          /\ y <= T
          /\ Carries(W, Data(i, T), x, y)
          /\ ~broken => Carries(D, Data(i, T), y, T)
    BY DEF Pipe
  <1>2. ~Is(f, "PSH", i)
    BY DEF Is
  <1>3. Moves(Data(i, T), f, T, T) /\ T <= T
    BY <1>2, MovesData
  <1>4. ~broken => Carries(Append(D, f), Data(i, T), y, T)
    BY <1>1, <1>3, CarriesAppend
  <1>5. QED
    BY <1>1, <1>4 DEF Pipe

\* The session sends a frame.
LEMMA PipeSent ==
    ASSUME NEW i, NEW R \in Nat, NEW T \in Nat, NEW done, NEW S, NEW W \in Seq(S), NEW D \in Seq(S),
           NEW fin, NEW live, D # <<>>, Pipe(i, R, T, done, W, D, FALSE, fin, live)
    PROVE  Pipe(i, R, T, done, Append(W, Head(D)), Tail(D), FALSE, fin, live)
  <1>1. PICK x \in Nat, y \in Nat :
          /\ R <= x /\ (live => R = x)
          /\ fin => x = T
          /\ y <= T
          /\ Carries(W, Data(i, T), x, y)
          /\ Carries(D, Data(i, T), y, T)
    BY DEF Pipe
  <1>2. PICK m \in Nat : m <= T /\ Moves(Data(i, T), Head(D), y, m) /\ Carries(Tail(D), Data(i, T), m, T)
    BY <1>1, CarriesTail
  <1>3. Head(D) \in S
    OBVIOUS
  <1>5. Carries(Append(W, Head(D)), Data(i, T), x, m)
    BY <1>1, <1>2, <1>3, CarriesAppend
  <1>6. /\ Has(Append(W, Head(D)), "FIN", i) <=> Has(W, "FIN", i) \/ Is(Head(D), "FIN", i)
        /\ Has(D, "FIN", i) <=> Is(Head(D), "FIN", i) \/ Has(Tail(D), "FIN", i)
    BY <1>3, HasAppend, HasTail
  <1>7. Has(W, "FIN", i) \/ fin \/ Has(D, "FIN", i) => done
    BY DEF Pipe
  <1>8. QED
    BY <1>1, <1>2, <1>5, <1>6, <1>7 DEF Pipe

LEMMA PipeWhole ==
    ASSUME NEW i, NEW R, NEW T, NEW done, NEW W, NEW D, NEW fin, NEW live, NEW broken, ~broken
    PROVE  Pipe(i, R, T, done, W, D, broken, fin, live) <=> Pipe(i, R, T, done, W, D, FALSE, fin, live)
  BY DEF Pipe

\* The session takes a frame off the wire.
LEMMA PipeTaken ==
    ASSUME NEW i, NEW R \in Nat, NEW T \in Nat, NEW done, NEW S, NEW W \in Seq(S), NEW D \in Seq(S),
           NEW broken, NEW fin, NEW live, W # <<>>, Pipe(i, R, T, done, W, D, broken, fin, live),
           NEW lives, lives => live
    PROVE  /\ ~Is(Head(W), "PSH", i) \/ ~lives \/ fin => Pipe(i, R, T, done, Tail(W), D, broken, fin, lives)
           /\ Is(Head(W), "FIN", i) => Pipe(i, R, T, done, Tail(W), D, broken, TRUE, lives)
           /\ Is(Head(W), "PSH", i) /\ Len(Head(W).data) \in Nat
                => Pipe(i, R + Len(Head(W).data), T, done, Tail(W), D, broken, fin, lives)
  <1>1. PICK x \in Nat, y \in Nat :
          /\ R <= x /\ (live => R = x)
          /\ fin => x = T
          /\ y <= T
          /\ Carries(W, Data(i, T), x, y)
          /\ ~broken => Carries(D, Data(i, T), y, T)
    BY DEF Pipe
  <1>2. PICK m \in Nat : x <= m /\ m <= y /\ Moves(Data(i, T), Head(W), x, m)
                         /\ Carries(Tail(W), Data(i, T), m, y)
    BY <1>1, CarriesTail
  <1>3. /\ Is(Head(W), "PSH", i) => /\ m = x + Len(Head(W).data)
                                    /\ \A k \in 1 .. Len(Head(W).data) : Head(W).data[k].at = x + k
        /\ ~Is(Head(W), "PSH", i) => m = x
        /\ Is(Head(W), "FIN", i) => x = T
    BY <1>2, MovesData
  <1>4. R <= m /\ (fin => m = T)
    BY <1>1, <1>2
  <1>5. Has(W, "FIN", i) <=> Is(Head(W), "FIN", i) \/ Has(Tail(W), "FIN", i)
    BY HasTail
  <1>6. Has(W, "FIN", i) \/ fin \/ (~broken /\ Has(D, "FIN", i)) => done
    BY DEF Pipe
  <1>7. ASSUME ~Is(Head(W), "PSH", i) \/ ~lives \/ fin
        PROVE  Pipe(i, R, T, done, Tail(W), D, broken, fin, lives)
    <2>1. lives => R = m
      BY <1>1, <1>2, <1>3, <1>4, <1>7
    <2>2. QED
      BY <1>1, <1>2, <1>4, <1>5, <1>6, <2>1 DEF Pipe
  <1>8. ASSUME Is(Head(W), "FIN", i)
        PROVE  Pipe(i, R, T, done, Tail(W), D, broken, TRUE, lives)
    <2>1. ~Is(Head(W), "PSH", i)
      BY <1>8 DEF Is
    <2>2. m = T /\ (lives => R = m)
      BY <1>1, <1>3, <1>8, <2>1
    <2>3. done
      BY <1>5, <1>6, <1>8
    <2>4. QED
      BY <1>1, <1>2, <1>4, <2>2, <2>3 DEF Pipe
  <1>9. ASSUME Is(Head(W), "PSH", i), Len(Head(W).data) \in Nat
        PROVE  Pipe(i, R + Len(Head(W).data), T, done, Tail(W), D, broken, fin, lives)
    <2>1. m = x + Len(Head(W).data)
      BY <1>3, <1>9
    <2>2. R + Len(Head(W).data) <= m /\ (lives => R + Len(Head(W).data) = m)
      BY <1>1, <1>9, <2>1
    <2>3. QED
      BY <1>1, <1>2, <1>4, <1>5, <1>6, <2>2 DEF Pipe
  <1>10. QED
    BY <1>7, <1>8, <1>9

\* The bytes that come are those after the first m.
Follows(d, m) == \A k \in 1 .. Len(d) : d[k].at = m + k

LEMMA PipeComes ==
    ASSUME NEW i, NEW R \in Nat, NEW T \in Nat, NEW done, NEW S, NEW W \in Seq(S), NEW D \in Seq(S),
           NEW broken, NEW fin, NEW live, W # <<>>, Pipe(i, R, T, done, W, D, broken, fin, live),
           live = TRUE, Is(Head(W), "PSH", i)
    PROVE  Follows(Head(W).data, R)
  <1>1. PICK x \in Nat, y \in Nat :
          /\ R <= x /\ (live => R = x)
          /\ fin => x = T
          /\ y <= T
          /\ Carries(W, Data(i, T), x, y)
          /\ ~broken => Carries(D, Data(i, T), y, T)
    BY DEF Pipe
  <1>2. PICK m \in Nat : x <= m /\ m <= y /\ Moves(Data(i, T), Head(W), x, m)
                         /\ Carries(Tail(W), Data(i, T), m, y)
    BY <1>1, CarriesTail
  <1>3. QED
    BY <1>1, <1>2, MovesData DEF Follows

\* No more bytes have come than are handed in; all of them when the FIN has come.
LEMMA PipeBounds ==
    ASSUME NEW i, NEW R \in Nat, NEW T \in Nat, NEW done, NEW S, NEW W \in Seq(S), NEW D \in Seq(S),
           NEW broken, NEW fin, NEW live, Pipe(i, R, T, done, W, D, broken, fin, live)
    PROVE  R <= T /\ (fin => done) /\ (fin /\ live => R = T)
  <1>1. PICK x \in Nat, y \in Nat :
          /\ R <= x /\ (live => R = x)
          /\ fin => x = T
          /\ y <= T
          /\ Carries(W, Data(i, T), x, y)
    BY DEF Pipe
  <1>2. x <= y
    BY <1>1, CarriesBounds
  <1>3. fin => done
    BY DEF Pipe
  <1>4. QED
    BY <1>1, <1>2, <1>3

-----------------------------------------------------------------------------
(* Counters that wrap.                                                     *)

LEMMA ModUnique ==
    ASSUME NEW C \in Nat \ {0}, NEW x \in Int, NEW k \in Int, NEW r \in 0 .. C - 1, x = C * k + r
    PROVE  x % C = r
  <1> DEFINE q == x \div C
             s == x % C
  <1>1. q \in Int /\ s \in 0 .. C - 1 /\ x = C * q + s
    OBVIOUS
  <1> HIDE DEF q, s
  <1> DEFINE d == q - k
  <1>2. d \in Int /\ C * q = C * k + C * d
    BY <1>1
  <1>3. C * d = r - s
    BY <1>1, <1>2
  <1> HIDE DEF d
  <1>4. C * d \in Int /\ (d >= 1 => C * d >= C) /\ (d <= -1 => C * d <= -C)
    BY <1>2
  <1>5. d = 0
    BY <1>1, <1>2, <1>3, <1>4
  <1>6. r = s
    BY <1>1, <1>3, <1>5
  <1>7. QED
    BY <1>6 DEF s

LEMMA ModSum ==
    ASSUME NEW C \in Nat \ {0}, NEW a \in Nat, NEW n \in Nat
    PROVE  ((a % C) + n) % C = (a + n) % C
  <1> DEFINE q == a \div C
             s == a % C
             u == (s + n) \div C
             v == (s + n) % C
  <1>1. q \in Int /\ s \in 0 .. C - 1 /\ a = C * q + s
    OBVIOUS
  <1> HIDE DEF q, s
  <1>2. u \in Int /\ v \in 0 .. C - 1 /\ s + n = C * u + v
    BY <1>1
  <1> HIDE DEF u, v
  <1>3. q + u \in Int /\ a + n \in Int /\ a + n = C * (q + u) + v
    BY <1>1, <1>2
  <1>4. (a + n) % C = v
    BY <1>2, <1>3, ModUnique
  <1>5. QED
    BY <1>4 DEF v, s

LEMMA ModDiff ==
    ASSUME NEW C \in Nat \ {0}, NEW a \in Nat, NEW b \in Nat, b <= a, a - b < C
    PROVE  ((a % C) - (b % C)) % C = a - b
  <1> DEFINE q == a \div C
             s == a % C
             u == b \div C
             v == b % C
  <1>1. q \in Int /\ s \in 0 .. C - 1 /\ a = C * q + s
    OBVIOUS
  <1>2. u \in Int /\ v \in 0 .. C - 1 /\ b = C * u + v
    OBVIOUS
  <1> HIDE DEF q, s, u, v
  <1>3. u - q \in Int /\ s - v \in Int /\ a - b \in 0 .. C - 1
    BY <1>1, <1>2
  <1>4. s - v = C * (u - q) + (a - b)
    BY <1>1, <1>2
  <1>5. (s - v) % C = a - b
    BY <1>3, <1>4, ModUnique
  <1>6. QED
    BY <1>5 DEF s, v

-----------------------------------------------------------------------------
(* The window updates.                                                     *)

Room == IF InitialWindow < StreamBuffer THEN StreamBuffer ELSE InitialWindow

(***************************************************************************)
(* The updates of stream i on their way to its writer: cons is the count   *)
(* it has, G bytes are read, the frames of W are on the wire and those of  *)
(* H wait.  The writer has sent, or will send, up to byte lim before it    *)
(* looks at its window again.                                              *)
(***************************************************************************)
Credit(i, cons, G, W, H, broken, lim) == \E c, x, y, z \in Nat :
    /\ cons = c % CountSpace /\ c <= x
    /\ Carries(W, Read(i), x, y)
    /\ y <= z /\ z <= G
    /\ ~broken => Carries(H, Read(i), y, z)
    /\ lim <= c + Room

LEMMA RoomFacts ==
    /\ Room \in Nat /\ InitialWindow \in Nat /\ StreamBuffer \in Nat
    /\ InitialWindow <= Room /\ StreamBuffer <= Room
    /\ CountSpace \in Nat \ {0} /\ CountSpace \div 2 \in Nat /\ CountSpace \div 2 <= CountSpace
    /\ Room < CountSpace \div 2
  <1>1. /\ InitialWindow \in Nat /\ StreamBuffer \in Nat /\ CountSpace \in Nat
        /\ StreamBuffer < CountSpace \div 2 /\ InitialWindow < CountSpace \div 2
    BY SmuxAssumption
  <1>2. CountSpace \div 2 \in Nat /\ CountSpace \div 2 <= CountSpace
    BY <1>1
  <1>3. QED
    BY <1>1, <1>2 DEF Room

LEMMA CreditKept ==
    ASSUME NEW i, NEW cons, NEW G \in Nat, NEW W, NEW H, NEW broken, NEW lim \in Nat,
           Credit(i, cons, G, W, H, broken, lim),
           NEW K \in Nat, NEW J, NEW breaks, NEW m \in Nat,
           G <= K, m <= lim, broken => breaks, ~breaks => J = H
    PROVE  Credit(i, cons, K, W, J, breaks, m)
  <1>1. PICK c \in Nat, x \in Nat, y \in Nat, z \in Nat :
          /\ cons = c % CountSpace /\ c <= x
          /\ Carries(W, Read(i), x, y)
          /\ y <= z /\ z <= G
          /\ ~broken => Carries(H, Read(i), y, z)
          /\ lim <= c + Room
    BY DEF Credit
  <1>2. z <= K /\ m <= c + Room
    BY <1>1, RoomFacts
  <1>3. ~breaks => Carries(J, Read(i), y, z)
    BY <1>1
  <1>4. QED
    BY <1>1, <1>2, <1>3 DEF Credit

LEMMA CreditOther ==
    ASSUME NEW i, NEW cons, NEW G \in Nat, NEW S, NEW W \in Seq(S), NEW H \in Seq(S),
           NEW broken, NEW lim \in Nat, Credit(i, cons, G, W, H, broken, lim),
           NEW f \in S, ~Is(f, "UPD", i)
    PROVE  /\ Credit(i, cons, G, W, Append(H, f), broken, lim)
           /\ Credit(i, cons, G, Append(W, f), H, broken, lim)
  <1>1. PICK c \in Nat, x \in Nat, y \in Nat, z \in Nat :
          /\ cons = c % CountSpace /\ c <= x
          /\ Carries(W, Read(i), x, y)
          /\ y <= z /\ z <= G
          /\ ~broken => Carries(H, Read(i), y, z)
          /\ lim <= c + Room
    BY DEF Credit
  <1>2. \A m \in Nat : Moves(Read(i), f, m, m)
    BY MovesRead
  <1>3. ~broken => Carries(Append(H, f), Read(i), y, z)
    BY <1>1, <1>2, CarriesAppend
  <1>4. Carries(Append(W, f), Read(i), x, y)
    BY <1>1, <1>2, CarriesAppend
  <1>5. Credit(i, cons, G, W, Append(H, f), broken, lim)
    BY <1>1, <1>3 DEF Credit
  <1>6. Credit(i, cons, G, Append(W, f), H, broken, lim)
    BY <1>1, <1>4 DEF Credit
  <1>7. QED
    BY <1>5, <1>6

\* The reader hands in an update.
LEMMA CreditAsked ==
    ASSUME NEW i, NEW cons, NEW G \in Nat, NEW S, NEW W \in Seq(S), NEW H \in Seq(S),
           NEW broken, NEW lim \in Nat, Credit(i, cons, G, W, H, broken, lim),
           NEW f \in S, f.data[1] = G % CountSpace
    PROVE  Credit(i, cons, G, W, Append(H, f), broken, lim)
  <1>1. PICK c \in Nat, x \in Nat, y \in Nat, z \in Nat :
          /\ cons = c % CountSpace /\ c <= x
          /\ Carries(W, Read(i), x, y)
          /\ y <= z /\ z <= G
          /\ ~broken => Carries(H, Read(i), y, z)
          /\ lim <= c + Room
    BY DEF Credit
  <1>2. Moves(Read(i), f, z, G)
    BY <1>1, MovesRead
  <1>3. ~broken => Carries(Append(H, f), Read(i), y, G)
    BY <1>1, <1>2, CarriesAppend
  <1>4. y <= G /\ G <= G
    BY <1>1
  <1>5. QED
    BY <1>1, <1>3, <1>4 DEF Credit

LEMMA CreditSent ==
    ASSUME NEW i, NEW cons, NEW G \in Nat, NEW S, NEW W \in Seq(S), NEW H \in Seq(S),
           NEW lim \in Nat, Credit(i, cons, G, W, H, FALSE, lim), H # <<>>
    PROVE  Credit(i, cons, G, Append(W, Head(H)), Tail(H), FALSE, lim)
  <1>1. PICK c \in Nat, x \in Nat, y \in Nat, z \in Nat :
          /\ cons = c % CountSpace /\ c <= x
          /\ Carries(W, Read(i), x, y)
          /\ y <= z /\ z <= G
          /\ Carries(H, Read(i), y, z)
          /\ lim <= c + Room
    BY DEF Credit
  <1>2. PICK m \in Nat : y <= m /\ m <= z /\ Moves(Read(i), Head(H), y, m)
                         /\ Carries(Tail(H), Read(i), m, z)
    BY <1>1, CarriesTail
  <1>3. Head(H) \in S
    OBVIOUS
  <1>4. Carries(Append(W, Head(H)), Read(i), x, m)
    BY <1>1, <1>2, <1>3, CarriesAppend
  <1>5. QED
    BY <1>1, <1>2, <1>4 DEF Credit

\* A frame comes off the wire, and an update may count.
LEMMA CreditTaken ==
    ASSUME NEW i, NEW cons, NEW G \in Nat, NEW S, NEW W \in Seq(S), NEW H,
           NEW broken, NEW lim \in Nat, Credit(i, cons, G, W, H, broken, lim), W # <<>>
    PROVE  /\ Credit(i, cons, G, Tail(W), H, broken, lim)
           /\ Is(Head(W), "UPD", i) => Credit(i, Head(W).data[1], G, Tail(W), H, broken, lim)
  <1>1. PICK c \in Nat, x \in Nat, y \in Nat, z \in Nat :
          /\ cons = c % CountSpace /\ c <= x
          /\ Carries(W, Read(i), x, y)
          /\ y <= z /\ z <= G
          /\ ~broken => Carries(H, Read(i), y, z)
          /\ lim <= c + Room
    BY DEF Credit
  <1>2. PICK m \in Nat : x <= m /\ m <= y /\ Moves(Read(i), Head(W), x, m)
                         /\ Carries(Tail(W), Read(i), m, y)
    BY <1>1, CarriesTail
  <1>3. c <= m /\ m <= m /\ lim <= m + Room
    BY <1>1, <1>2, RoomFacts
  <1>4. Credit(i, cons, G, Tail(W), H, broken, lim)
    BY <1>1, <1>2, <1>3 DEF Credit
  <1>5. ASSUME Is(Head(W), "UPD", i) PROVE Credit(i, Head(W).data[1], G, Tail(W), H, broken, lim)
    <2>1. Head(W).data[1] = m % CountSpace
      BY <1>2, <1>5, MovesRead
    <2>2. QED
      BY <1>1, <1>2, <1>3, <2>1 DEF Credit
  <1>6. QED
    BY <1>4, <1>5

\* The writer looks at its window when it has sent "top" bytes, of which G are read.
LEMMA CreditLooks ==
    ASSUME NEW i, NEW cons, NEW G \in Nat, NEW S, NEW W \in Seq(S), NEW H,
           NEW broken, NEW top \in Nat, Credit(i, cons, G, W, H, broken, top), G <= top,
           NEW window \in {InitialWindow, StreamBuffer},
           NEW inflight, inflight = Signed(((top % CountSpace) - cons) % CountSpace)
    PROVE  /\ inflight \in Nat
           /\ \A n \in Nat : n <= window - inflight => Credit(i, cons, G, W, H, broken, top + n)
  <1>1. PICK c \in Nat, x \in Nat, y \in Nat, z \in Nat :
          /\ cons = c % CountSpace /\ c <= x
          /\ Carries(W, Read(i), x, y)
          /\ y <= z /\ z <= G
          /\ ~broken => Carries(H, Read(i), y, z)
          /\ top <= c + Room
    BY DEF Credit
  <1>2. x <= y
    BY <1>1, CarriesBounds
  <1>3. c <= top /\ top - c <= Room /\ top - c \in Nat
    BY <1>1, <1>2, RoomFacts
  <1>4. top - c < CountSpace
    BY <1>3, RoomFacts
  <1>5. ((top % CountSpace) - cons) % CountSpace = top - c
    BY <1>1, <1>3, <1>4, RoomFacts, ModDiff
  <1>6. Signed(top - c) = top - c
    BY <1>3, RoomFacts DEF Signed
  <1>7. inflight = top - c
    BY <1>5, <1>6
  <1>8. ASSUME NEW n \in Nat, n <= window - inflight PROVE Credit(i, cons, G, W, H, broken, top + n)
    <2>1. top + n <= c + Room
      BY <1>3, <1>7, <1>8, RoomFacts
    <2>2. QED
      BY <1>1, <2>1 DEF Credit
  <1>9. inflight \in Nat
    BY <1>3, <1>7
  <1>10. QED
    BY <1>8, <1>9


-----------------------------------------------------------------------------
(* The data of the streams.                                                *)

\* What the writer has handed in, and that it is done.
Top(p, i)  == wr[p][i].next - 1 + wr[p][i].n
Done(p, i) == wr[p][i].pc = "end" /\ wr[p][i].n = 0

\* What the reader has or had.
Received(p, i) == Len(got[p][i]) + Len(strm[p][i].buf)

\* Nothing of the stream is missed.  The client may miss what comes before
\* OpenStream has registered the stream.
Live(p, i) == p = "server" /\ cl[p][i] # "end" /\ (recv[p] = "run" \/ strm[p][i].fin)

\* From Peer(p) to p.
Flow(p, i) ==
    Pipe(i, Received(p, i), Top(Peer(p), i), Done(Peer(p), i), wire[p], heap[Peer(p)][DATA],
         Broken(Peer(p)), strm[p][i].fin, Live(p, i))

\* The ends of the next state, with queues W and D.
FlowNext(p, i, W, D) ==
    Pipe(i, Received(p, i)', Top(Peer(p), i)', Done(Peer(p), i)', W, D,
         Broken(Peer(p))', strm'[p][i].fin, Live(p, i)')

LEMMA FlowIsNext ==
    ASSUME NEW p \in Sides, NEW i \in Sids, FlowNext(p, i, wire'[p], heap'[Peer(p)][DATA])
    PROVE  Flow(p, i)'
  BY DEF Flow, FlowNext, Pipe

LEMMA EndsNat ==
    ASSUME NEW g \in Seq(Nat), NEW s \in StreamType, NEW w \in WriterType
    PROVE  Len(g) + Len(s.buf) \in Nat /\ w.next - 1 + w.n \in Nat
           /\ w.next - 1 \in Nat /\ w.next - 1 + w.chunk \in Nat /\ Len(g) \in Nat
  <1>1. s.buf \in Seq(Bytes)
    BY DEF StreamType
  <1>2. w.next \in Nat \ {0} /\ w.n \in Nat /\ w.chunk \in Nat
    BY DEF WriterType
  <1>3. Len(g) \in Nat /\ Len(s.buf) \in Nat
    BY <1>1
  <1>4. \A x, y \in Nat : x + y \in Nat
    OBVIOUS
  <1>5. w.next - 1 \in Nat
    BY <1>2
  <1>6. QED
    BY <1>2, <1>3, <1>4, <1>5

LEMMA FlowTypes ==
    ASSUME Types, Types', NEW p \in Sides, NEW i \in Sids
    PROVE  /\ Received(p, i) \in Nat /\ Top(Peer(p), i) \in Nat
           /\ Received(p, i)' \in Nat /\ Top(Peer(p), i)' \in Nat
  <1>1. /\ got[p][i] \in Seq(Nat) /\ wr[Peer(p)][i] \in WriterType /\ strm[p][i] \in StreamType
        /\ got'[p][i] \in Seq(Nat) /\ wr'[Peer(p)][i] \in WriterType /\ strm'[p][i] \in StreamType
    BY Peers DEF Types, Tables, Table
  <1>2. Peer(p)' = Peer(p)
    BY DEF Peer
  <1>3. QED
    BY <1>1, <1>2, EndsNat DEF Received, Top

LEMMA FlowQueues ==
    ASSUME Types, NEW p \in Sides
    PROVE  /\ wire[p] \in Seq(Frames("client")) /\ heap[Peer(p)][DATA] \in Seq(Frames("client"))
           /\ heap[Peer(p)][CTRL] \in Seq(Frames("client"))
  <1>1. Frames(Peer(p)) \subseteq Frames("client") /\ Peer(p) \in Sides
    BY Peers DEF Frames, CtrlFrames
  <1>2. wire[p] \in Seq(Frames("client"))
    BY <1>1 DEF Types, WireType
  <1>3. heap[Peer(p)][DATA] \in Seq(Frames("client")) /\ heap[Peer(p)][CTRL] \in Seq(Frames("client"))
    BY <1>1 DEF Types, HeapType, Classes
  <1>4. QED
    BY <1>2, <1>3

\* The ends of the stream are as they were, or further on.
EndsKept(p, i) ==
    /\ Received(p, i)' <= Received(p, i)
    /\ Live(p, i)' => Live(p, i) /\ Received(p, i)' = Received(p, i)
    /\ Top(Peer(p), i)' = Top(Peer(p), i) /\ (Done(Peer(p), i) => Done(Peer(p), i)')
    /\ strm'[p][i].fin = strm[p][i].fin

LEMMA FlowKept ==
    ASSUME Types, Types', NEW p \in Sides, NEW i \in Sids, Flow(p, i), EndsKept(p, i),
           Broken(Peer(p)) => Broken(Peer(p))', NEW D,
           ~Broken(Peer(p))' => D = heap[Peer(p)][DATA]
    PROVE  FlowNext(p, i, wire[p], D)
  <1>1. /\ Received(p, i) \in Nat /\ Top(Peer(p), i) \in Nat
        /\ Received(p, i)' \in Nat /\ Top(Peer(p), i)' \in Nat
    BY FlowTypes
  <1>2. QED
    BY <1>1, PipeKept DEF Flow, FlowNext, EndsKept

\* A queue of the sender gets a frame that is not about the data of the stream.
LEMMA FlowOther ==
    ASSUME Types, Types', NEW p \in Sides, NEW i \in Sids, FlowNext(p, i, wire[p], heap[Peer(p)][DATA]),
           NEW f \in Frames("client"), ~Is(f, "PSH", i), ~Is(f, "FIN", i)
    PROVE  /\ FlowNext(p, i, wire[p], Append(heap[Peer(p)][DATA], f))
           /\ FlowNext(p, i, Append(wire[p], f), heap[Peer(p)][DATA])
  BY FlowTypes, FlowQueues, PipeOther DEF FlowNext

\* A step of a user, for the streams it is not about.
OthersKept(p, i) ==
    /\ strm'[p][i] = strm[p][i] /\ got'[p][i] = got[p][i] /\ cl'[p][i] = cl[p][i]
    /\ wr'[p][i] = wr[p][i]

LEMMA UserOthers ==
    ASSUME NEW r \in Sides, NEW j \in Sids, UserStep(r, j), NEW q \in Sides, NEW i \in Sids,
           q # r \/ i # j
    PROVE  OthersKept(q, i)
  BY DEF UserStep, Only, OthersKept

\* The receiving end, and the sending end.
EndIn(p, i)  == /\ Received(p, i)' <= Received(p, i) /\ strm'[p][i].fin = strm[p][i].fin
                /\ Live(p, i)' => Live(p, i) /\ Received(p, i)' = Received(p, i)
EndOut(p, i) == Top(p, i)' = Top(p, i) /\ (Done(p, i) => Done(p, i)')

LEMMA EndsOf ==
    ASSUME NEW p \in Sides, NEW i \in Sids, EndIn(p, i), EndOut(Peer(p), i)
    PROVE  EndsKept(p, i)
  BY DEF EndsKept, EndIn, EndOut

LEMMA OthersEnds ==
    ASSUME Types, Types', NEW p \in Sides, NEW i \in Sids, recv' = recv, OthersKept(p, i)
    PROVE  EndIn(p, i) /\ EndOut(p, i)
  <1>1. Received(p, i) \in Nat
    BY FlowTypes
  <1>2. EndOut(p, i)
    BY DEF OthersKept, EndOut, Top, Done
  <1>3. Received(p, i)' = Received(p, i) /\ Live(p, i)' = Live(p, i)
    BY DEF OthersKept, Received, Live
  <1>4. QED
    BY <1>1, <1>2, <1>3 DEF EndIn, OthersKept


\* The bytes that a reader takes.
LEMMA TakenGot ==
    ASSUME Types, NEW p \in Sides, NEW i \in Sids, NEW n \in Nat, Taken(p, i, n)
    PROVE  /\ Len(got'[p][i]) = Len(got[p][i]) + n /\ Len(got[p][i]) \in Nat
           /\ \A k \in 1 .. Len(got[p][i]) : got'[p][i][k] = got[p][i][k]
           /\ \A k \in 1 .. n : got'[p][i][Len(got[p][i]) + k] = strm[p][i].buf[k].at
  <1> DEFINE h == [k \in 1 .. n |-> strm[p][i].buf[k].at]
             g == got[p][i]
  <1>1. g \in Seq(Nat) /\ strm[p][i].buf \in Seq(Bytes) /\ n \in 1 .. Len(strm[p][i].buf)
        /\ got'[p][i] = g \o h
    BY SameTables, BufferNat DEF Taken
  <1>2. h \in Seq(Nat) /\ Len(h) = n
    <2>1. \A k \in 1 .. n : strm[p][i].buf[k] \in Bytes
      BY <1>1
    <2>2. \A k \in 1 .. n : strm[p][i].buf[k].at \in Nat
      BY <2>1 DEF Bytes
    <2>3. QED
      BY <2>2
  <1>3. \A k \in 1 .. n : h[k] = strm[p][i].buf[k].at
    OBVIOUS
  <1> HIDE DEF h, g
  <1>4. /\ Len(g \o h) = Len(g) + n /\ Len(g) \in Nat
        /\ \A k \in 1 .. Len(g) : (g \o h)[k] = g[k]
        /\ \A k \in 1 .. n : (g \o h)[Len(g) + k] = h[k]
    <2>1. g \in Seq(Nat) /\ h \in Seq(Nat) /\ Len(h) = n
      BY <1>1, <1>2
    <2>2. Len(g \o h) = Len(g) + Len(h) /\ Len(g) \in Nat
      BY <2>1
    <2>3. Len(g \o h) = Len(g) + n /\ Len(g) \in Nat
      BY <2>1, <2>2
    <2>4. \A k \in 1 .. Len(g) : (g \o h)[k] = g[k]
      BY <1>1, <1>2
    <2>5. ASSUME NEW k \in 1 .. n PROVE (g \o h)[Len(g) + k] = h[k]
      <3>1. Len(g) + k \in 1 .. Len(g) + Len(h) /\ ~(Len(g) + k <= Len(g)) /\ Len(g) + k - Len(g) = k
        BY <1>2, <2>3
      <3>2. (g \o h)[Len(g) + k] = h[Len(g) + k - Len(g)]
        BY <1>1, <1>2, <3>1
      <3>3. QED
        BY <3>1, <3>2
    <2>6. QED
      BY <2>3, <2>4, <2>5
  <1>5. QED
    BY <1>1, <1>3, <1>4 DEF g

LEMMA UserEnds ==
    ASSUME Core, Core', NEW p \in Sides, NEW i \in Sids, UserSteps(p, i)
    PROVE  UserStep(p, i) /\ EndIn(p, i) /\ (EndOut(p, i) \/ FrameAsked(p, i))
  <1>1. Types /\ Types'
    BY DEF Core
  <1>2. UserStep(p, i)
    BY DEF UserSteps, WriterTurns, WriterMoves, FrameAsked, FrameSent, Writing, Taken, Returned,
           ReaderMoves, Reading, CloseBegins, CloseDone, Closing
  <1>3. recv' = recv
    BY <1>2 DEF UserStep
  <1>4. Received(p, i) \in Nat /\ Received(p, i)' \in Nat
    BY <1>1, FlowTypes
  <1>5. /\ got[p][i] \in Seq(Nat) /\ strm[p][i].buf \in Seq(Bytes)
        /\ Len(got[p][i]) \in Nat /\ Len(strm[p][i].buf) \in Nat
    BY <1>1, SameTables, BufferNat
  <1>6. ASSUME got'[p][i] = got[p][i], strm'[p][i].buf = strm[p][i].buf, cl'[p][i] = cl[p][i] \/ cl[p][i] = "off",
               strm'[p][i].fin = strm[p][i].fin
        PROVE  EndIn(p, i)
    <2>1. Received(p, i)' = Received(p, i)
      BY <1>6 DEF Received
    <2>2. Live(p, i)' => Live(p, i)
      BY <1>3, <1>6 DEF Live
    <2>3. QED
      BY <1>4, <1>6, <2>1, <2>2 DEF EndIn
  <1>7. CASE WriterTurns(p, i)
    <2>1. PICK pc \in {"end", "window", "frame"}, out \in Outs :
             WriterMoves(p, i, pc, out) /\ wr[p][i].pc \in {"start", "frame", "window", "sending"}
      BY <1>7 DEF WriterTurns
    <2>2. EndIn(p, i)
      BY <1>6, <2>1 DEF WriterMoves, Writing, Alike
    <2>3. EndOut(p, i)
      BY <2>1 DEF WriterMoves, EndOut, Top, Done
    <2>4. QED
      BY <1>2, <2>2, <2>3
  <1>8. CASE FrameAsked(p, i)
    BY <1>2, <1>6, <1>8 DEF FrameAsked, Writing
  <1>9. CASE FrameSent(p, i)
    <2>1. EndIn(p, i)
      BY <1>6, <1>9 DEF FrameSent, Writing
    <2>2. /\ wr[p][i].pc = "sending" /\ wr'[p][i].next = wr[p][i].next + wr[p][i].n /\ wr'[p][i].n = 0
          /\ wr[p][i] \in WriterType
      BY <1>1, <1>9, SameTables DEF FrameSent
    <2>3. wr[p][i].next \in Nat /\ wr[p][i].n \in Nat
      BY <2>2 DEF WriterType
    <2>4. EndOut(p, i)
      BY <2>2, <2>3 DEF EndOut, Top, Done
    <2>5. QED
      BY <1>2, <2>1, <2>4
  <1>10. ASSUME NEW n \in Nat, Taken(p, i, n) PROVE EndIn(p, i) /\ EndOut(p, i)
    <2>1. /\ n \in 1 .. Len(strm[p][i].buf) /\ wr' = wr /\ cl' = cl
          /\ strm'[p][i].buf = SubSeq(strm[p][i].buf, n + 1, Len(strm[p][i].buf))
          /\ got'[p][i] = got[p][i] \o [k \in 1 .. n |-> strm[p][i].buf[k].at]
          /\ strm'[p][i].fin = strm[p][i].fin
      BY <1>10 DEF Taken, Reading
    <2>2. Len(strm'[p][i].buf) = Len(strm[p][i].buf) - n /\ n <= Len(strm[p][i].buf)
      BY <1>5, <2>1, Rest
    <2>3. Len(got'[p][i]) = Len(got[p][i]) + n
      BY <1>1, <1>10, TakenGot
    <2>4. Received(p, i)' = Received(p, i)
      <3>1. Received(p, i)' = Len(got'[p][i]) + Len(strm'[p][i].buf)
        BY DEF Received
      <3>2. Received(p, i) = Len(got[p][i]) + Len(strm[p][i].buf)
        BY DEF Received
      <3>3. \A a, b \in Nat : (a + n) + (b - n) = a + b
        OBVIOUS
      <3>4. Len(got[p][i]) \in Nat /\ Len(strm[p][i].buf) \in Nat
        BY <1>5
      <3>5. (Len(got[p][i]) + n) + (Len(strm[p][i].buf) - n) = Len(got[p][i]) + Len(strm[p][i].buf)
        BY <3>3, <3>4
      <3>6. QED
        BY <2>2, <2>3, <3>1, <3>2, <3>5
    <2>5. Live(p, i)' = Live(p, i)
      BY <1>3, <2>1 DEF Live
    <2>6. EndOut(p, i)
      BY <2>1 DEF EndOut, Top, Done
    <2>7. QED
      BY <1>4, <2>1, <2>4, <2>5, <2>6 DEF EndIn
  <1>11. CASE Returned(p, i) \/ ReaderMoves(p, i)
    <2>1. wr' = wr
      BY <1>11 DEF Returned, ReaderMoves, Reading
    <2>2. EndOut(p, i)
      BY <2>1 DEF EndOut, Top, Done
    <2>3. EndIn(p, i)
      BY <1>6, <1>11 DEF Returned, ReaderMoves, Reading, Alike
    <2>4. QED
      BY <1>2, <2>2, <2>3
  <1>12. CASE CloseBegins(p, i)
    <2>1. wr' = wr
      BY <1>12 DEF CloseBegins, Closing
    <2>2. EndOut(p, i)
      BY <2>1 DEF EndOut, Top, Done
    <2>3. EndIn(p, i)
      BY <1>6, <1>12 DEF CloseBegins, Closing
    <2>4. QED
      BY <1>2, <2>2, <2>3
  <1>13. CASE CloseDone(p, i)
    <2>1. /\ wr' = wr /\ got' = got /\ strm'[p][i].buf = <<>> /\ cl'[p][i] = "end"
          /\ strm'[p][i].fin = strm[p][i].fin
      BY <1>13 DEF CloseDone, Closing
    <2>2. EndOut(p, i)
      BY <2>1 DEF EndOut, Top, Done
    <2>3. Len(strm'[p][i].buf) = 0
      BY <2>1
    <2>4. Received(p, i)' <= Received(p, i)
      BY <1>5, <2>1, <2>3 DEF Received
    <2>5. ~Live(p, i)'
      BY <2>1 DEF Live
    <2>6. QED
      BY <1>2, <2>1, <2>2, <2>4, <2>5 DEF EndIn
  <1>14. QED
    BY <1>2, <1>7, <1>8, <1>9, <1>10, <1>11, <1>12, <1>13 DEF UserSteps

\* What a user's step does to the queues of data.
LEMMA UserQueues ==
    ASSUME Core, NEW p \in Sides, NEW i \in Sids, UserSteps(p, i), NEW q \in Sides
    PROVE  \/ heap'[q][DATA] = heap[q][DATA]
           \/ \E f \in Frames("client") :
                 /\ q = p /\ heap'[q][DATA] = Append(heap[q][DATA], f) /\ f.sid = i
                 /\ \/ FrameAsked(p, i) /\ f = Frame(p, "PSH", i, Piece(wr[p][i].next, wr'[p][i].n))
                    \/ CloseBegins(p, i) /\ f.cmd = "FIN"
  <1>1. CTRL \in Classes /\ DATA \in Classes /\ CTRL # DATA /\ Class(p, DATA) \subseteq Frames("client")
    BY DEF Classes, CTRL, DATA, Class, Frames
  <1>2. CASE Quiet
    BY <1>2 DEF Quiet
  <1>3. CASE FrameAsked(p, i)
    <2> DEFINE f == Frame(p, "PSH", i, Piece(wr[p][i].next, wr'[p][i].n))
    <2>1. Asked(p, DATA, f)
      BY <1>3 DEF FrameAsked
    <2>2. f.sid = i
      BY DEF Frame
    <2> HIDE DEF f
    <2>3. f \in Frames("client") /\ heap'[p][DATA] = Append(heap[p][DATA], f)
          /\ (q # p => heap'[q][DATA] = heap[q][DATA])
      BY <1>1, <2>1 DEF Asked
    <2>4. QED
      BY <1>3, <2>2, <2>3 DEF f
  <1>4. CASE CloseBegins(p, i) /\ ~Quiet
    <2> DEFINE f == Frame(p, "FIN", i, <<>>)
    <2>1. Asked(p, DATA, f)
      BY <1>4 DEF CloseBegins
    <2>2. f.sid = i /\ f.cmd = "FIN"
      BY DEF Frame
    <2> HIDE DEF f
    <2>3. f \in Frames("client") /\ heap'[p][DATA] = Append(heap[p][DATA], f)
          /\ (q # p => heap'[q][DATA] = heap[q][DATA])
      BY <1>1, <2>1 DEF Asked
    <2>4. QED
      BY <1>4, <2>2, <2>3
  <1>5. CASE Returned(p, i) /\ ~Quiet
    <2>1. Asked(p, CTRL, Frame(p, "UPD", i, <<strm[p][i].numRead, StreamBuffer>>))
      BY <1>5 DEF Returned
    <2>2. heap'[q][DATA] = heap[q][DATA]
      BY <1>1, <2>1 DEF Asked
    <2>3. QED
      BY <2>2
  <1>6. QED
    <2>1. Quiet \/ FrameAsked(p, i) \/ CloseBegins(p, i) \/ Returned(p, i)
      BY DEF UserSteps, WriterTurns, WriterMoves, FrameSent, Taken, ReaderMoves, CloseDone
    <2>2. QED
      BY <1>2, <1>3, <1>4, <1>5, <2>1

LEMMA UserFlow ==
    ASSUME Core, Core', NEW r \in Sides, NEW j \in Sids, UserSteps(r, j),
           NEW p \in Sides, NEW i \in Sids, Flow(p, i)
    PROVE  Flow(p, i)'
  <1> DEFINE q == Peer(p)
  <1>1. Types /\ Types' /\ q \in Sides /\ q # p
    BY Peers DEF Core
  <1>2. UserStep(r, j) /\ EndIn(r, j) /\ (EndOut(r, j) \/ FrameAsked(r, j))
    BY UserEnds
  <1>3. wire' = wire /\ recv' = recv /\ closed' = closed /\ errs' = errs
    BY <1>2 DEF UserStep
  <1>4. Broken(q)' = Broken(q)
    BY <1>3 DEF Broken
  <1>5. EndIn(p, i)
    <2>1. CASE p = r /\ i = j
      BY <1>2, <2>1
    <2>2. CASE p # r \/ i # j
      BY <1>1, <1>2, <1>3, <2>2, UserOthers, OthersEnds
    <2>3. QED
      BY <2>1, <2>2
  <1>6. CASE FrameAsked(r, j) /\ q = r /\ i = j
    <2> DEFINE n == wr'[q][i].n
               f == Frame(q, "PSH", i, Piece(wr[q][i].next, n))
    <2>1. /\ wr[q][i].pc \in {"start", "frame"} /\ wr'[q][i].next = wr[q][i].next
          /\ n \in 1 .. wr'[q][i].chunk /\ wr'[q][i].pc = "sending"
          /\ Asked(q, DATA, f) /\ wr[q][i] \in WriterType /\ wr'[q][i] \in WriterType
      BY <1>1, <1>6 DEF FrameAsked, Types, Tables, Table
    <2>2. wr[q][i].next \in Nat \ {0} /\ n \in Nat /\ wr'[q][i].chunk \in Nat
      BY <2>1 DEF WriterType
    <2>3. n > 0
      BY <2>1, <2>2
    <2>4. wr[q][i].n = 0
      BY <1>1, <2>1 DEF Core, WriterOK
    <2>5. f.data = Piece(wr[q][i].next, n) /\ Is(f, "PSH", i)
      BY DEF Frame, Is
    <2>6. f \in Frames("client") /\ heap'[q][DATA] = Append(heap[q][DATA], f)
      <3>1. Class(q, DATA) \subseteq Frames("client")
        BY DEF Class, Frames, DATA, CTRL
      <3>2. QED
        BY <2>1, <3>1 DEF Asked
    <2> HIDE DEF f, n
    <2>7. Top(q, i) = wr[q][i].next - 1 /\ Top(q, i)' = wr[q][i].next - 1 + n
          /\ ~Done(q, i) /\ ~Done(q, i)'
      BY <2>1, <2>2, <2>4 DEF Top, Done, n
    <2>8. Top(q, i)' = Top(q, i) + n
      BY <2>7
    <2>9. Len(f.data) = n /\ \A k \in 1 .. n : f.data[k].at = Top(q, i) + k
      <3>1. Len(f.data) = n /\ \A k \in 1 .. n : f.data[k].at = wr[q][i].next + k - 1
        BY <2>2, <2>5, PieceFacts
      <3>2. \A k \in 1 .. n : wr[q][i].next + k - 1 = wr[q][i].next - 1 + k
        BY <2>2
      <3>3. QED
        BY <2>7, <3>1, <3>2
    <2>10. /\ Received(p, i) \in Nat /\ Top(q, i) \in Nat /\ Received(p, i)' \in Nat
           /\ wire[p] \in Seq(Frames("client")) /\ heap[q][DATA] \in Seq(Frames("client"))
      BY <1>1, FlowTypes, FlowQueues
    <2>11. Pipe(i, Received(p, i)', Top(q, i), Done(q, i)', wire[p], heap[q][DATA],
                Broken(q)', strm'[p][i].fin, Live(p, i)')
      <3>1. Pipe(i, Received(p, i), Top(q, i), Done(q, i), wire[p], heap[q][DATA],
                 Broken(q), strm[p][i].fin, Live(p, i))
        BY DEF Flow
      <3>2. /\ Received(p, i)' <= Received(p, i)
            /\ Live(p, i)' => Live(p, i) /\ Received(p, i)' = Received(p, i)
            /\ strm'[p][i].fin = strm[p][i].fin
            /\ Broken(q) => Broken(q)'
            /\ Done(q, i) => Done(q, i)'
        BY <1>4, <1>5, <2>7 DEF EndIn
      <3>3. Pipe(i, Received(p, i)', Top(q, i), Done(q, i)', wire[p], heap[q][DATA],
                 Broken(q)', strm[p][i].fin, Live(p, i)')
        BY <2>10, <3>1, <3>2, PipeKept
      <3>4. QED
        BY <3>2, <3>3
    <2>12. Pipe(i, Received(p, i)', Top(q, i) + n, Done(q, i)', wire[p], Append(heap[q][DATA], f),
                Broken(q)', strm'[p][i].fin, Live(p, i)')
      BY <2>2, <2>5, <2>6, <2>7, <2>9, <2>10, <2>11, PipeAsked
    <2>13. FlowNext(p, i, wire'[p], heap'[q][DATA])
      BY <1>3, <2>6, <2>8, <2>12 DEF FlowNext
    <2>14. QED
      BY <2>13, FlowIsNext
  <1>7. CASE ~(FrameAsked(r, j) /\ q = r /\ i = j)
    <2>1. EndOut(q, i)
      <3>1. CASE q = r /\ i = j
        BY <1>2, <1>7, <3>1
      <3>2. CASE q # r \/ i # j
        BY <1>1, <1>2, <1>3, <3>2, UserOthers, OthersEnds
      <3>3. QED
        BY <3>1, <3>2
    <2>2. FlowNext(p, i, wire[p], heap[q][DATA])
      BY <1>1, <1>4, <1>5, <2>1, EndsOf, FlowKept
    <2>3. CASE heap'[q][DATA] = heap[q][DATA]
      BY <1>3, <2>2, <2>3, FlowIsNext
    <2>4. ASSUME NEW f \in Frames("client"),
                 q = r /\ heap'[q][DATA] = Append(heap[q][DATA], f) /\ f.sid = j,
                 \/ FrameAsked(r, j) /\ f = Frame(r, "PSH", j, Piece(wr[r][j].next, wr'[r][j].n))
                 \/ CloseBegins(r, j) /\ f.cmd = "FIN"
          PROVE  Flow(p, i)'
      <3>1. CASE i # j
        <4>1. ~Is(f, "PSH", i) /\ ~Is(f, "FIN", i)
          BY <2>4, <3>1 DEF Is
        <4>2. QED
          BY <1>1, <1>3, <2>2, <2>4, <4>1, FlowOther, FlowIsNext
      <3>2. CASE i = j
        <4>1. CloseBegins(q, i) /\ Is(f, "FIN", i)
          BY <1>7, <2>4, <3>2 DEF Is
        <4>2. wr[q][i].pc = "end" /\ wr' = wr
          BY <4>1 DEF CloseBegins, Closing
        <4>3. ~Broken(q) => wr[q][i].n = 0
          BY <1>1, <4>2 DEF Core, WriterOK
        <4>4. ~Broken(q)' => Done(q, i)'
          BY <1>4, <4>2, <4>3 DEF Done
        <4>5. FlowNext(p, i, wire[p], Append(heap[q][DATA], f))
          BY <1>1, <2>2, <4>1, <4>4, FlowTypes, FlowQueues, PipeFin DEF FlowNext
        <4>6. QED
          BY <1>3, <2>4, <4>5, FlowIsNext
      <3>3. QED
        BY <3>1, <3>2
    <2>5. QED
      BY <1>1, <2>3, <2>4, UserQueues
  <1>8. QED
    BY <1>6, <1>7

-----------------------------------------------------------------------------
(* On its way to the server a stream's SYN comes before its data and its   *)
(* FIN, since the SYN is out before OpenStream returns.                    *)

\* The server has met stream i, or receives nothing any more.
Met(i) == strm["server"][i].reg \/ cl["server"][i] = "end" \/ recv["server"] = "end"

Ordered(W, i, met) == \A b \in 1 .. Len(W) :
    Is(W[b], "PSH", i) \/ Is(W[b], "FIN", i) => met \/ \E a \in 1 .. b - 1 : Is(W[a], "SYN", i)

Carrying(D, i) == Has(D, "PSH", i) \/ Has(D, "FIN", i)

SynOut(i) == call["client"][<<"SYN", i>>] = "ok" \/ wr["client"][i].pc # "off"

SynFirst(i) ==
    /\ SynOut(i) => Met(i) \/ Has(wire["server"], "SYN", i)
    /\ Carrying(heap["client"][DATA], i) => wr["client"][i].pc # "off"
    /\ Ordered(wire["server"], i, Met(i))

LEMMA OrderedTail ==
    ASSUME NEW T, NEW W \in Seq(T), W # <<>>, NEW i, NEW met, NEW meets, Ordered(W, i, met),
           met => meets, Is(Head(W), "SYN", i) => meets
    PROVE  Ordered(Tail(W), i, meets)
  <1>1. /\ Len(Tail(W)) = Len(W) - 1 /\ Len(W) \in Nat \ {0} /\ Head(W) = W[1]
        /\ \A a \in 1 .. Len(Tail(W)) : Tail(W)[a] = W[a + 1] /\ a + 1 \in 1 .. Len(W)
    OBVIOUS
  <1>2. SUFFICES ASSUME NEW b \in 1 .. Len(Tail(W)), ~meets,
                        Is(Tail(W)[b], "PSH", i) \/ Is(Tail(W)[b], "FIN", i)
                 PROVE  \E a \in 1 .. b - 1 : Is(Tail(W)[a], "SYN", i)
    BY DEF Ordered
  <1>3. PICK a \in 1 .. (b + 1) - 1 : Is(W[a], "SYN", i)
    BY <1>1, <1>2 DEF Ordered
  <1>4. a # 1
    BY <1>1, <1>2, <1>3
  <1>5. a - 1 \in 1 .. b - 1 /\ a - 1 \in 1 .. Len(Tail(W)) /\ (a - 1) + 1 = a
    BY <1>1, <1>3, <1>4
  <1>6. Is(Tail(W)[a - 1], "SYN", i)
    BY <1>1, <1>3, <1>5
  <1>7. QED
    BY <1>5, <1>6

LEMMA OrderedAppend ==
    ASSUME NEW T, NEW W \in Seq(T), NEW f \in T, NEW i, NEW met, Ordered(W, i, met),
           Is(f, "PSH", i) \/ Is(f, "FIN", i) => met \/ Has(W, "SYN", i)
    PROVE  Ordered(Append(W, f), i, met)
  <1>1. /\ Len(Append(W, f)) = Len(W) + 1 /\ Len(W) \in Nat
        /\ \A a \in 1 .. Len(W) : Append(W, f)[a] = W[a]
        /\ Append(W, f)[Len(W) + 1] = f
    OBVIOUS
  <1>2. SUFFICES ASSUME NEW b \in 1 .. Len(Append(W, f)), ~met,
                        Is(Append(W, f)[b], "PSH", i) \/ Is(Append(W, f)[b], "FIN", i)
                 PROVE  \E a \in 1 .. b - 1 : Is(Append(W, f)[a], "SYN", i)
    BY DEF Ordered
  <1>3. CASE b = Len(W) + 1
    <2>1. Is(f, "PSH", i) \/ Is(f, "FIN", i)
      BY <1>1, <1>2, <1>3
    <2>2. PICK a \in 1 .. Len(W) : Is(W[a], "SYN", i)
      BY <1>2, <2>1 DEF Has
    <2>3. a \in 1 .. b - 1 /\ Append(W, f)[a] = W[a]
      BY <1>1, <1>3
    <2>4. QED
      BY <2>2, <2>3
  <1>4. CASE b # Len(W) + 1
    <2>1. b \in 1 .. Len(W) /\ Append(W, f)[b] = W[b]
      BY <1>1, <1>4
    <2>2. PICK a \in 1 .. b - 1 : Is(W[a], "SYN", i)
      BY <1>2, <2>1 DEF Ordered
    <2>3. a \in 1 .. Len(W)
      BY <1>1, <2>1
    <2>4. QED
      BY <1>1, <2>2, <2>3
  <1>5. QED
    BY <1>3, <1>4

LEMMA OrderedMet ==
    ASSUME NEW W, NEW i, NEW met, NEW meets, Ordered(W, i, met), met => meets
    PROVE  Ordered(W, i, meets)
  BY DEF Ordered

\* The wire to the server is left alone.
LEMMA SynKept ==
    ASSUME NEW i \in Sids, SynFirst(i), wire'["server"] = wire["server"], Met(i) => Met(i)',
           SynOut(i)' => SynOut(i),
           Carrying(heap'["client"][DATA], i) => Carrying(heap["client"][DATA], i) \/ wr'["client"][i].pc # "off",
           wr["client"][i].pc # "off" => wr'["client"][i].pc # "off"
    PROVE  SynFirst(i)'
  <1>1. Ordered(wire["server"], i, Met(i)')
    BY OrderedMet DEF SynFirst
  <1>2. Ordered(wire'["server"], i, Met(i)')
    BY <1>1
  <1>3. SynOut(i)' => Met(i)' \/ Has(wire'["server"], "SYN", i)
    BY DEF SynFirst
  <1>4. Carrying(heap'["client"][DATA], i) => wr'["client"][i].pc # "off"
    BY DEF SynFirst
  <1>5. QED
    BY <1>2, <1>3, <1>4 DEF SynFirst, Ordered, Has, Carrying

\* No call has returned and no writer has begun.
LEMMA SynCalm ==
    ASSUME Calm, NEW i \in Sids, wr'["client"][i].pc # "off" => wr["client"][i].pc # "off"
    PROVE  SynOut(i)' => SynOut(i)
  <1>1. <<"SYN", i>> \in Callers /\ "client" \in Sides
    BY DEF Callers, Sides
  <1>2. call'["client"][<<"SYN", i>>] \in {call["client"][<<"SYN", i>>], "none", "sent"}
    BY <1>1 DEF Calm
  <1>3. QED
    BY <1>2 DEF SynOut

LEMMA UserSyn ==
    ASSUME Core, Core', NEW r \in Sides, NEW j \in Sids, UserSteps(r, j), NEW i \in Sids, SynFirst(i)
    PROVE  SynFirst(i)'
  <1>1. "client" \in Sides /\ "server" \in Sides
    BY DEF Sides
  <1>2. UserStep(r, j)
    BY UserEnds
  <1>3. wire' = wire /\ recv' = recv
    BY <1>2 DEF UserStep
  <1>4. /\ strm'[r][j].reg = strm[r][j].reg \/ cl'[r][j] = "end"
        /\ cl[r][j] = "end" => cl'[r][j] = "end"
    BY DEF UserSteps, WriterTurns, WriterMoves, FrameAsked, FrameSent, Writing, Taken, Returned,
           ReaderMoves, Reading, CloseBegins, CloseDone, Closing, Alike
  <1>5. Met(i) => Met(i)'
    <2>1. CASE r = "server" /\ j = i
      BY <1>3, <1>4, <2>1 DEF Met
    <2>2. CASE r # "server" \/ j # i
      <3>1. OthersKept("server", i)
        BY <1>1, <1>2, <2>2, UserOthers
      <3>2. QED
        BY <1>3, <3>1 DEF Met, OthersKept
    <2>3. QED
      BY <2>1, <2>2
  <1>6. wr'[r][j] = wr[r][j] \/ (wr[r][j].pc # "off" /\ wr'[r][j].pc # "off")
    <2>1. CASE WriterTurns(r, j)
      BY <2>1 DEF WriterTurns, WriterMoves
    <2>2. CASE FrameAsked(r, j) \/ FrameSent(r, j)
      BY <2>2 DEF FrameAsked, FrameSent
    <2>3. CASE ~(WriterTurns(r, j) \/ FrameAsked(r, j) \/ FrameSent(r, j))
      <3>1. wr' = wr
        BY <2>3 DEF UserSteps, Taken, Returned, ReaderMoves, Reading, CloseBegins, CloseDone, Closing
      <3>2. QED
        BY <3>1
    <2>4. QED
      BY <2>1, <2>2, <2>3
  <1>7. wr'["client"][i].pc # "off" <=> wr["client"][i].pc # "off"
    <2>1. CASE r = "client" /\ j = i
      BY <1>6, <2>1
    <2>2. CASE r # "client" \/ j # i
      <3>1. OthersKept("client", i)
        BY <1>1, <1>2, <2>2, UserOthers
      <3>2. QED
        BY <3>1 DEF OthersKept
    <2>3. QED
      BY <2>1, <2>2
  <1>8. Calm
    BY DEF UserSteps, WriterTurns, WriterMoves, FrameAsked, FrameSent, Taken, Returned,
           ReaderMoves, CloseBegins, CloseDone, Quiet, Asked
  <1>9. Carrying(heap'["client"][DATA], i) => Carrying(heap["client"][DATA], i) \/ wr'["client"][i].pc # "off"
    <2>1. CASE heap'["client"][DATA] = heap["client"][DATA]
      BY <2>1
    <2>2. ASSUME NEW f \in Frames("client"),
                 "client" = r /\ heap'["client"][DATA] = Append(heap["client"][DATA], f) /\ f.sid = j,
                 FrameAsked(r, j) \/ CloseBegins(r, j)
          PROVE  Carrying(heap'["client"][DATA], i)
                    => Carrying(heap["client"][DATA], i) \/ wr'["client"][i].pc # "off"
      <3>1. wr[r][j].pc # "off"
        BY <2>2 DEF FrameAsked, CloseBegins
      <3>2. CASE i = j
        BY <1>7, <2>2, <3>1, <3>2
      <3>3. CASE i # j
        <4>1. heap["client"][DATA] \in Seq(Frames("client"))
          BY <1>1 DEF Core, Types, HeapType, Classes
        <4>2. ~Is(f, "PSH", i) /\ ~Is(f, "FIN", i)
          BY <2>2, <3>3 DEF Is
        <4>3. QED
          BY <2>2, <4>1, <4>2, HasAppend DEF Carrying
      <3>4. QED
        BY <3>2, <3>3
    <2>3. QED
      BY <1>1, <2>1, <2>2, UserQueues
  <1>10. SynOut(i)' => SynOut(i)
    BY <1>7, <1>8, SynCalm
  <1>11. QED
    BY <1>3, <1>5, <1>7, <1>9, <1>10, SynKept

LEMMA RecvSynFirst ==
    ASSUME Core, Core', NEW p \in Sides, RecvSteps(p), NEW i \in Sids, SynFirst(i)
    PROVE  SynFirst(i)'
  <1>1. "client" \in Sides /\ "server" \in Sides /\ Peer("client") = "server" /\ (p = "client" \/ p = "server")
    BY DEF Sides, Peer
  <1>2. Receiving(p)
    BY DEF RecvSteps, Ignored, Opened, FinArrives, PshArrives, UpdArrives, Arrives
  <1>3. recv' = recv /\ heap' = heap /\ call' = call /\ wr' = wr /\ cl' = cl
    BY <1>2 DEF Receiving, UsersRest
  <1>4. /\ \A q \in Sides, j \in Sids : strm[q][j].reg => strm'[q][j].reg
        /\ Is(Head(wire[p]), "SYN", i) => strm'[p][i].reg
    <2>1. CASE Ignored(p)
      BY <2>1 DEF Ignored, Is
    <2>2. ASSUME NEW j \in Sids, Opened(p, j)
          PROVE  /\ \A q \in Sides, k \in Sids : strm[q][k].reg => strm'[q][k].reg
                 /\ Is(Head(wire[p]), "SYN", i) => strm'[p][i].reg
      <3>1. /\ Is(Head(wire[p]), "SYN", j) /\ Only(strm, strm', p, j) /\ strm'[p][j].reg
        BY <2>2, FreshStream DEF Opened
      <3>2. QED
        BY <3>1 DEF Only, Is
    <2>3. ASSUME NEW j \in Sids, NEW cmd \in {"FIN", "PSH", "UPD"}, Arrives(p, j, cmd)
          PROVE  /\ \A q \in Sides, k \in Sids : strm[q][k].reg => strm'[q][k].reg
                 /\ Is(Head(wire[p]), "SYN", i) => strm'[p][i].reg
      <3>1. /\ Is(Head(wire[p]), cmd, j) /\ Only(strm, strm', p, j) /\ strm'[p][j].reg
        BY <2>3 DEF Arrives
      <3>2. QED
        BY <2>3, <3>1 DEF Only, Is
    <2>4. QED
      BY <2>1, <2>2, <2>3 DEF RecvSteps, FinArrives, PshArrives, UpdArrives
  <1>5. Met(i) => Met(i)'
    BY <1>1, <1>3, <1>4 DEF Met
  <1>6. CASE p = "client"
    <2>1. wire'["server"] = wire["server"]
      BY <1>1, <1>2, <1>6 DEF Receiving
    <2>2. SynOut(i)' => SynOut(i)
      BY <1>3 DEF SynOut
    <2>3. QED
      BY <1>3, <1>5, <2>1, <2>2, SynKept
  <1>7. CASE p = "server"
    <2> DEFINE W == wire["server"]
    <2>1. W # <<>> /\ wire'["server"] = Tail(W) /\ W \in Seq(Frames("client"))
      BY <1>1, <1>2, <1>7, FlowQueues DEF Receiving, Core
    <2>2. Is(Head(W), "SYN", i) => Met(i)'
      BY <1>4, <1>7 DEF Met
    <2>3. SynOut(i)' => Met(i) \/ Has(W, "SYN", i)
      BY <1>3 DEF SynFirst, SynOut
    <2>4. Ordered(W, i, Met(i))
      BY DEF SynFirst
    <2> HIDE DEF W
    <2>5. Ordered(Tail(W), i, Met(i)')
      BY <1>5, <2>1, <2>2, <2>4, OrderedTail
    <2>6. SynOut(i)' => Met(i)' \/ Has(Tail(W), "SYN", i)
      BY <1>5, <2>1, <2>2, <2>3, HasTail
    <2>7. Carrying(heap'["client"][DATA], i) => wr'["client"][i].pc # "off"
      BY <1>3 DEF SynFirst
    <2>8. QED
      BY <2>1, <2>5, <2>6, <2>7 DEF SynFirst, Ordered, Has, Carrying
  <1>8. QED
    BY <1>1, <1>6, <1>7


LEMMA SendSynFirst ==
    ASSUME Core, Core', NEW p \in Sides, NEW c \in Classes, Sent(p, c) \/ NotSent(p, c),
           NEW i \in Sids, SynFirst(i)
    PROVE  SynFirst(i)'
  <1>1. /\ "client" \in Sides /\ "server" \in Sides /\ Peer("client") = "server" /\ Peer("server") = "client"
        /\ (p = "client" \/ p = "server") /\ DATA \in Classes
    BY DEF Sides, Peer, Classes
  <1>2. Sending(p, c)
    BY DEF Sent, NotSent
  <1>3. recv' = recv /\ strm' = strm /\ wr' = wr /\ cl' = cl /\ heap[p][c] # <<>>
        /\ heap'[p][c] = Tail(heap[p][c])
        /\ \A q \in Sides, d \in Classes : q # p \/ d # c => heap'[q][d] = heap[q][d]
    BY <1>2 DEF Sending, UsersRest
  <1> DEFINE D == heap["client"][DATA]
             E == heap'["client"][DATA]
             W == wire["server"]
  <1>4. D \in Seq(Frames("client")) /\ W \in Seq(Frames("client"))
    BY <1>1, FlowQueues DEF Core
  <1>5. E = D \/ (p = "client" /\ c = DATA /\ D # <<>> /\ E = Tail(D))
    BY <1>1, <1>3
  <1> HIDE DEF D, E, W
  <1>6. Carrying(E, i) => Carrying(D, i)
    BY <1>4, <1>5, HasTail DEF Carrying
  <1>7. Met(i)' <=> Met(i)
    BY <1>3 DEF Met
  <1>8. Carrying(E, i) => wr'["client"][i].pc # "off"
    BY <1>3, <1>6 DEF SynFirst, D
  <1>9. <<"SYN", i>> \in Callers
    BY DEF Callers
  <1>10. CASE wire'["server"] = W /\ (call'["client"][<<"SYN", i>>] = "ok" => call["client"][<<"SYN", i>>] = "ok")
    <2>1. SynOut(i)' => SynOut(i)
      BY <1>3, <1>10 DEF SynOut
    <2>2. QED
      BY <1>3, <1>6, <1>7, <1>10, <2>1, SynKept DEF W, D, E
  <1>11. CASE p = "client" /\ Sent(p, c)
    <2> DEFINE f == Head(heap[p][c])
    <2>1. f \in Class(p, c) /\ f \in Frames("client") /\ wire'["server"] = Append(W, f)
      BY <1>1, <1>11 DEF Sent, Sending, W
    <2>2. call'["client"][<<"SYN", i>>] = "ok" => call["client"][<<"SYN", i>>] = "ok" \/ Caller(f) = <<"SYN", i>>
      BY <1>1, <1>9, <1>11 DEF Sent
    <2>3. Is(f, "PSH", i) \/ Is(f, "FIN", i) => Carrying(D, i)
      <3>1. ASSUME Is(f, "PSH", i) \/ Is(f, "FIN", i) PROVE Carrying(D, i)
        <4>1. c = DATA
          BY <2>1, <3>1 DEF Class, CtrlFrames, Nops, Upds, Syns, Is, Classes
        <4>2. D # <<>> /\ f = Head(D)
          BY <1>3, <1>11, <4>1 DEF D
        <4>3. QED
          BY <1>4, <3>1, <4>2, HasTail DEF Carrying
      <3>2. QED
        BY <3>1
    <2> HIDE DEF f
    <2>4. Caller(f) = <<"SYN", i>> => Is(f, "SYN", i)
      BY DEF Caller, Is
    <2>5. /\ SynOut(i) => Met(i) \/ Has(W, "SYN", i)
          /\ Carrying(D, i) => SynOut(i)
          /\ Ordered(W, i, Met(i))
      BY DEF SynFirst, SynOut, W, D
    <2>6. Has(Append(W, f), "SYN", i) <=> Has(W, "SYN", i) \/ Is(f, "SYN", i)
      BY <1>4, <2>1, HasAppend
    <2>7. SynOut(i)' => Met(i)' \/ Has(Append(W, f), "SYN", i)
      BY <1>3, <1>7, <2>2, <2>4, <2>5, <2>6 DEF SynOut
    <2>8. Ordered(Append(W, f), i, Met(i))
      BY <1>4, <2>1, <2>3, <2>5, OrderedAppend
    <2>9. Ordered(Append(W, f), i, Met(i)')
      BY <1>7, <2>8, OrderedMet
    <2>10. QED
      BY <1>8, <2>1, <2>7, <2>9 DEF SynFirst, Ordered, Has, Carrying, E
  <1>12. CASE p = "server" \/ NotSent(p, c)
    <2>1. wire'["server"] = W
      BY <1>1, <1>12 DEF Sent, NotSent, W
    <2>2. call'["client"][<<"SYN", i>>] = "ok" => call["client"][<<"SYN", i>>] = "ok"
      BY <1>1, <1>9, <1>12 DEF Sent, NotSent
    <2>3. QED
      BY <1>10, <2>1, <2>2
  <1>13. QED
    BY <1>1, <1>11, <1>12

LEMMA SessionSyn ==
    ASSUME Core, Core', Ids, SessionSteps, NEW i \in Sids, SynFirst(i)
    PROVE  SynFirst(i)'
  <1>1. /\ "client" \in Sides /\ "server" \in Sides /\ Peer("client") = "server" /\ Peer("server") = "client"
        /\ DATA \in Classes /\ CTRL \in Classes /\ DATA # CTRL
    BY DEF Sides, Peer, Classes, CTRL, DATA
  <1>2. ASSUME wire' = wire, recv' = recv, UsersRest, Calm, heap'["client"][DATA] = heap["client"][DATA],
               \A q \in Sides, j \in Sids : strm'[q][j].reg = strm[q][j].reg
        PROVE  SynFirst(i)'
    <2>1. Met(i)' <=> Met(i)
      BY <1>1, <1>2 DEF Met, UsersRest
    <2>2. SynOut(i)' => SynOut(i)
      BY <1>2, SynCalm DEF UsersRest
    <2>3. QED
      BY <1>2, <2>1, <2>2, SynKept DEF UsersRest
  <1>3. CASE Idles
    BY <1>2, <1>3 DEF Idles, Quiet
  <1>4. CASE Dials
    <2>1. wire' = wire /\ recv' = recv /\ UsersRest /\ strm' = strm
          /\ Asked("client", CTRL, Frame("client", "SYN", nextID', <<>>))
      BY <1>4 DEF Dials
    <2>2. Calm /\ heap'["client"][DATA] = heap["client"][DATA]
      BY <1>1, <2>1 DEF Asked
    <2>3. QED
      BY <1>2, <2>1, <2>2
  <1>5. ASSUME NEW p \in Sides, Pings(p) PROVE SynFirst(i)'
    <2>1. wire' = wire /\ recv' = recv /\ UsersRest /\ strm' = strm
          /\ Asked(p, CTRL, Frame(p, "NOP", 0, <<>>))
      BY <1>5 DEF Pings
    <2>2. Calm /\ heap'["client"][DATA] = heap["client"][DATA]
      BY <1>1, <2>1 DEF Asked
    <2>3. QED
      BY <1>2, <2>1, <2>2
  <1>6. ASSUME NEW p \in Sides, Dies(p) PROVE SynFirst(i)'
    BY <1>2, <1>6 DEF Dies, Alike, Quiet
  <1>7. ASSUME NEW p \in Sides, LoopTurns(p) PROVE SynFirst(i)'
    <2>1. UsersRest /\ strm' = strm /\ heap' = heap /\ call' = call
          /\ (recv["server"] = "end" => recv'["server"] = "end")
      BY <1>1, <1>7 DEF LoopTurns
    <2>2. Met(i) => Met(i)'
      BY <2>1 DEF Met, UsersRest
    <2>3. SynOut(i)' <=> SynOut(i)
      BY <2>1 DEF SynOut, UsersRest
    <2>4. CASE wire'["server"] = wire["server"]
      BY <2>1, <2>2, <2>3, <2>4, SynKept DEF UsersRest
    <2>5. CASE wire'["server"] # wire["server"]
      <3>1. recv'["server"] = "end"
        BY <1>1, <1>7, <2>5, Peers DEF LoopTurns
      <3>2. Met(i)'
        BY <3>1 DEF Met
      <3>3. Carrying(heap'["client"][DATA], i) => wr'["client"][i].pc # "off"
        BY <2>1 DEF SynFirst, UsersRest
      <3>4. QED
        BY <3>2, <3>3 DEF SynFirst, Ordered, Carrying, Has
    <2>6. QED
      BY <2>4, <2>5
  <1>8. ASSUME NEW p \in Sides, NEW j \in Sids, Begins(p, j), p = "server" \/ SynOut(j),
               \A k \in Sids : strm'["server"][k] = strm["server"][k]
        PROVE  SynFirst(i)'
    <2>1. /\ wire' = wire /\ recv' = recv /\ cl' = cl /\ heap' = heap /\ Calm
          /\ Only(wr, wr', p, j) /\ wr'[p][j].pc = "start"
      BY <1>8 DEF Begins, Quiet
    <2>2. Met(i)' <=> Met(i)
      BY <1>8, <2>1 DEF Met
    <2>3. CASE wr'["client"][i] = wr["client"][i]
      <3>1. SynOut(i)' => SynOut(i)
        BY <2>1, <2>3, SynCalm
      <3>2. QED
        BY <2>1, <2>2, <2>3, <3>1, SynKept
    <2>4. CASE wr'["client"][i] # wr["client"][i]
      <3>1. p = "client" /\ i = j
        BY <1>1, <2>1, <2>4 DEF Only
      <3>2. SynOut(i) /\ wr'["client"][i].pc # "off"
        BY <1>8, <2>1, <3>1
      <3>3. QED
        BY <2>1, <2>2, <3>2, SynKept
    <2>5. QED
      BY <2>3, <2>4
  <1>9. ASSUME NEW j \in Sids, Opens(j) PROVE SynFirst(i)'
    <2>1. /\ Begins("client", j) /\ Only(strm, strm', "client", j) /\ call["client"][<<"SYN", j>>] = "ok"
      BY <1>9 DEF Opens
    <2>2. \A k \in Sids : strm'["server"][k] = strm["server"][k]
      BY <1>1, <2>1 DEF Only
    <2>3. QED
      BY <1>1, <1>8, <2>1, <2>2 DEF SynOut
  <1>10. ASSUME NEW j \in Sids, Accepts(j) PROVE SynFirst(i)'
    BY <1>1, <1>8, <1>10 DEF Accepts
  <1>11. QED
    BY <1>3, <1>4, <1>5, <1>6, <1>7, <1>9, <1>10, RecvSynFirst, SendSynFirst DEF SessionSteps

LEMMA SynStep ==
    ASSUME Core, Core', Ids, [Next]_vars, NEW i \in Sids, SynFirst(i)
    PROVE  SynFirst(i)'
  BY Steps, UserSyn, SessionSyn

-----------------------------------------------------------------------------
(* The data of the streams, in the steps of the session.                   *)

\* A frame comes off the wire.
LEMMA FlowTaken ==
    ASSUME Types, Types', NEW p \in Sides, NEW i \in Sids, Flow(p, i),
           wire[p] # <<>>, wire'[p] = Tail(wire[p]),
           heap'[Peer(p)][DATA] = heap[Peer(p)][DATA], Broken(Peer(p)) => Broken(Peer(p))',
           EndOut(Peer(p), i), Live(p, i)' => Live(p, i),
           \/ /\ Received(p, i)' = Received(p, i) /\ strm'[p][i].fin = strm[p][i].fin
              /\ ~Is(Head(wire[p]), "PSH", i) \/ ~Live(p, i)' \/ strm[p][i].fin
           \/ /\ Received(p, i)' = Received(p, i) /\ strm'[p][i].fin = TRUE
              /\ Is(Head(wire[p]), "FIN", i)
           \/ /\ Is(Head(wire[p]), "PSH", i) /\ Len(Head(wire[p]).data) \in Nat
              /\ Received(p, i)' = Received(p, i) + Len(Head(wire[p]).data)
              /\ strm'[p][i].fin = strm[p][i].fin
    PROVE  Flow(p, i)'
  <1> DEFINE q == Peer(p)
  <1>1. /\ Received(p, i) \in Nat /\ Top(q, i) \in Nat
        /\ Received(p, i)' \in Nat /\ Top(q, i)' \in Nat
        /\ wire[p] \in Seq(Frames("client")) /\ heap[q][DATA] \in Seq(Frames("client"))
    BY FlowTypes, FlowQueues
  <1>2. Pipe(i, Received(p, i), Top(q, i), Done(q, i), wire[p], heap[q][DATA],
             Broken(q), strm[p][i].fin, Live(p, i))
    BY DEF Flow
  <1>3. Pipe(i, Received(p, i)', Top(q, i), Done(q, i), Tail(wire[p]), heap[q][DATA],
             Broken(q), strm'[p][i].fin, Live(p, i)')
    <2> DEFINE f == Head(wire[p])
    <2>1. /\ ~Is(f, "PSH", i) \/ ~Live(p, i)' \/ strm[p][i].fin
              => Pipe(i, Received(p, i), Top(q, i), Done(q, i), Tail(wire[p]), heap[q][DATA],
                      Broken(q), strm[p][i].fin, Live(p, i)')
          /\ Is(f, "FIN", i)
              => Pipe(i, Received(p, i), Top(q, i), Done(q, i), Tail(wire[p]), heap[q][DATA],
                      Broken(q), TRUE, Live(p, i)')
          /\ Is(f, "PSH", i) /\ Len(f.data) \in Nat
              => Pipe(i, Received(p, i) + Len(f.data), Top(q, i), Done(q, i), Tail(wire[p]), heap[q][DATA],
                      Broken(q), strm[p][i].fin, Live(p, i)')
      BY <1>1, <1>2, PipeTaken
    <2>2. QED
      BY <2>1
  <1>4. Top(q, i)' = Top(q, i) /\ (Done(q, i) => Done(q, i)')
    BY DEF EndOut
  <1>5. Pipe(i, Received(p, i)', Top(q, i), Done(q, i)', Tail(wire[p]), heap[q][DATA],
             Broken(q)', strm'[p][i].fin, Live(p, i)')
    BY <1>1, <1>3, <1>4, PipeKept
  <1>6. FlowNext(p, i, wire'[p], heap'[q][DATA])
    BY <1>4, <1>5 DEF FlowNext
  <1>7. QED
    BY <1>6, FlowIsNext

\* A stream that is opened or taken is new.
LEMMA OpenedFresh ==
    ASSUME Core, Ids, NEW p \in Sides, NEW i \in Sids, Opened(p, i)
    PROVE  strm[p][i] = Stream
  <1>1. p = "server" /\ Is(Head(wire[p]), "SYN", i) /\ wire[p] # <<>>
    BY DEF Opened, Receiving
  <1>2. wire[p] \in Seq(Frames("client"))
    BY FlowQueues DEF Core
  <1>3. Has(wire["server"], "SYN", i)
    BY <1>1, <1>2, HasTail
  <1>4. QED
    BY <1>1, <1>3 DEF Ids, Unseen

LEMMA AcceptsFresh ==
    ASSUME Core, Ids, NEW i \in Sids, Accepts(i)
    PROVE  Unused("server", i)
  <1>1. accepts \in Seq(Sids) /\ accepts # <<>> /\ i = Head(accepts)
    BY DEF Core, Types, Accepts
  <1>2. 1 \in 1 .. Len(accepts) /\ accepts[1] = i
    BY <1>1
  <1>3. QED
    BY <1>2 DEF Ids

LEMMA RecvFlow ==
    ASSUME Core, Core', Ids, NEW p \in Sides, RecvSteps(p), NEW i \in Sids, SynFirst(i), Flow(p, i)
    PROVE  Flow(p, i)'
  <1> DEFINE q == Peer(p)
             W == wire[p]
             f == Head(wire[p])
  <1>1. Types /\ Types' /\ q \in Sides /\ q # p /\ (p = "client" \/ p = "server")
    BY Peers DEF Core, Sides
  <1>2. Receiving(p)
    BY DEF RecvSteps, Ignored, Opened, FinArrives, PshArrives, UpdArrives, Arrives
  <1>3. /\ recv[p] = "run" /\ recv' = recv /\ W # <<>> /\ wire'[p] = Tail(W) /\ W \in Seq(Frames("client"))
        /\ heap' = heap /\ wr' = wr /\ cl' = cl /\ got' = got /\ closed' = closed /\ errs' = errs
    BY <1>1, <1>2, FlowQueues DEF Receiving, UsersRest
  <1>4. EndOut(q, i) /\ Broken(q)' = Broken(q)
    BY <1>3 DEF EndOut, Top, Done, Broken
  <1>5. Live(p, i)' => Live(p, i)
    BY <1>3 DEF Live
  <1>6. got[p][i] \in Seq(Nat) /\ strm[p][i].buf \in Seq(Bytes) /\ Len(got[p][i]) \in Nat
        /\ Len(strm[p][i].buf) \in Nat
    BY <1>1, SameTables, BufferNat
  <1> HIDE DEF W
  <1>7. ASSUME strm'[p][i].buf = strm[p][i].buf, strm'[p][i].fin = strm[p][i].fin,
               ~Is(f, "PSH", i) \/ ~Live(p, i)'
        PROVE  Flow(p, i)'
    <2>1. Received(p, i)' = Received(p, i)
      BY <1>3, <1>7 DEF Received
    <2>2. QED
      BY <1>1, <1>3, <1>4, <1>5, <1>7, <2>1, FlowTaken DEF W
  <1>8. CASE Ignored(p)
    <2>1. strm' = strm /\ (Is(f, "PSH", i) => ~strm[p][i].reg)
      BY <1>8 DEF Ignored, Is
    <2>2. ASSUME Is(f, "PSH", i), p = "server" PROVE ~Live(p, i)'
      <3>1. Ordered(wire["server"], i, Met(i)) /\ 1 \in 1 .. Len(wire["server"])
            /\ wire["server"][1] = f
        BY <1>3, <2>2 DEF SynFirst, W
      <3>2. Met(i)
        BY <2>2, <3>1 DEF Ordered
      <3>3. cl["server"][i] = "end"
        BY <1>3, <2>1, <2>2, <3>2 DEF Met
      <3>4. QED
        BY <1>3, <2>2, <3>3 DEF Live
    <2>3. ~Is(f, "PSH", i) \/ ~Live(p, i)'
      BY <1>1, <2>2 DEF Live
    <2>4. QED
      BY <1>7, <2>1, <2>3
  <1>9. ASSUME NEW j \in Sids, strm' \in Table(StreamType), Only(strm, strm', p, j), f.sid = j, j # i
        PROVE  Flow(p, i)'
    <2>1. strm'[p][i] = strm[p][i] /\ ~Is(f, "PSH", i)
      BY <1>9 DEF Only, Is
    <2>2. QED
      BY <1>7, <2>1
  <1>10. CASE Opened(p, i)
    <2>1. p = "server" /\ Is(f, "SYN", i) /\ strm'[p][i] = Registered
      BY <1>10 DEF Opened
    <2>2. strm[p][i] = Stream
      BY <1>10, OpenedFresh
    <2>3. strm'[p][i].buf = strm[p][i].buf /\ strm'[p][i].fin = strm[p][i].fin
      BY <2>1, <2>2, FreshStream
    <2>4. ~Is(f, "PSH", i)
      BY <2>1 DEF Is
    <2>5. QED
      BY <1>7, <2>3, <2>4
  <1>11. CASE FinArrives(p, i)
    <2>1. Is(f, "FIN", i) /\ strm'[p][i].fin = TRUE /\ strm'[p][i].buf = strm[p][i].buf
      BY <1>11 DEF FinArrives, Arrives
    <2>2. Received(p, i)' = Received(p, i)
      BY <1>3, <2>1 DEF Received
    <2>3. QED
      BY <1>1, <1>3, <1>4, <1>5, <2>1, <2>2, FlowTaken DEF W
  <1>12. CASE PshArrives(p, i)
    <2>1. /\ Is(f, "PSH", i) /\ f.data \in Seq(Bytes) /\ strm'[p][i].fin = strm[p][i].fin
          /\ strm'[p][i].buf = strm[p][i].buf \o f.data
      BY <1>12 DEF PshArrives, Arrives
    <2>2. Len(f.data) \in Nat /\ Len(strm'[p][i].buf) = Len(strm[p][i].buf) + Len(f.data)
      BY <1>6, <2>1
    <2>3. Received(p, i)' = Received(p, i) + Len(f.data)
      <3>1. Received(p, i)' = Len(got[p][i]) + Len(strm'[p][i].buf)
        BY <1>3 DEF Received
      <3>2. Received(p, i) = Len(got[p][i]) + Len(strm[p][i].buf)
        BY DEF Received
      <3> DEFINE a == Len(got[p][i])
                 b == Len(strm[p][i].buf)
                 c == Len(f.data)
      <3>3. a \in Nat /\ b \in Nat /\ c \in Nat /\ Received(p, i)' = a + (b + c) /\ Received(p, i) = a + b
        BY <1>6, <2>2, <3>1, <3>2
      <3> HIDE DEF a, b, c
      <3>4. Received(p, i)' = Received(p, i) + c
        BY <3>3
      <3>5. QED
        BY <3>4 DEF c
    <2>4. QED
      BY <1>1, <1>3, <1>4, <1>5, <2>1, <2>2, <2>3, FlowTaken DEF W
  <1>13. CASE UpdArrives(p, i)
    <2>1. /\ ~Is(f, "PSH", i) /\ strm'[p][i].buf = strm[p][i].buf /\ strm'[p][i].fin = strm[p][i].fin
      BY <1>13 DEF UpdArrives, Arrives, Is
    <2>2. QED
      BY <1>7, <2>1
  <1>14. ASSUME NEW j \in Sids, j # i,
                Opened(p, j) \/ FinArrives(p, j) \/ PshArrives(p, j) \/ UpdArrives(p, j)
         PROVE  Flow(p, i)'
    <2>1. strm' \in Table(StreamType) /\ Only(strm, strm', p, j) /\ f.sid = j
      BY <1>14 DEF Opened, FinArrives, PshArrives, UpdArrives, Arrives, Is
    <2>2. QED
      BY <1>9, <1>14, <2>1
  <1>15. QED
    BY <1>8, <1>10, <1>11, <1>12, <1>13, <1>14 DEF RecvSteps

\* The users rest, and the streams do not change.
LEMMA RestEnds ==
    ASSUME Types, Types', NEW p \in Sides, NEW i \in Sids, UsersRest,
           recv'[p] \in {recv[p], "end"}, strm'[p][i].buf = strm[p][i].buf, strm'[p][i].fin = strm[p][i].fin
    PROVE  EndsKept(p, i)
  <1>1. Received(p, i) \in Nat
    BY FlowTypes
  <1>2. Received(p, i)' = Received(p, i)
    BY DEF Received, UsersRest
  <1>3. Live(p, i)' => Live(p, i)
    BY DEF Live, UsersRest
  <1>4. Top(Peer(p), i)' = Top(Peer(p), i) /\ (Done(Peer(p), i) => Done(Peer(p), i)')
    BY DEF Top, Done, UsersRest
  <1>5. QED
    BY <1>1, <1>2, <1>3, <1>4 DEF EndsKept

LEMMA SendFlow ==
    ASSUME Core, Core', NEW r \in Sides, NEW c \in Classes, Sent(r, c) \/ NotSent(r, c),
           NEW p \in Sides, NEW i \in Sids, Flow(p, i)
    PROVE  Flow(p, i)'
  <1> DEFINE q == Peer(p)
  <1>1. Types /\ Types' /\ q \in Sides /\ q # p /\ Peer(q) = p /\ (r = p \/ r = q) /\ DATA \in Classes
    BY Peers DEF Core, Sides, Peer, Classes
  <1>2. /\ Sending(r, c) /\ UsersRest /\ strm' = strm /\ recv' = recv /\ closed' = closed
        /\ heap[r][c] # <<>> /\ heap'[r][c] = Tail(heap[r][c])
        /\ \A s \in Sides, d \in Classes : s # r \/ d # c => heap'[s][d] = heap[s][d]
    BY DEF Sent, NotSent, Sending
  <1>3. EndsKept(p, i)
    BY <1>1, <1>2, RestEnds
  <1>4. Broken(q) => Broken(q)'
    BY <1>1, <1>2 DEF Broken, Sent, NotSent
  <1>5. FlowNext(p, i, wire[p], heap[q][DATA])
    BY <1>1, <1>3, <1>4, FlowKept
  <1>6. CASE r = p
    <2>1. wire'[p] = wire[p] /\ heap'[q][DATA] = heap[q][DATA]
      BY <1>1, <1>2, <1>6 DEF Sent, NotSent
    <2>2. QED
      BY <1>5, <2>1, FlowIsNext
  <1>7. CASE r = q /\ NotSent(r, c)
    <2>1. wire' = wire /\ Broken(q)'
      BY <1>7 DEF NotSent, Broken
    <2>2. FlowNext(p, i, wire[p], heap'[q][DATA])
      BY <1>1, <1>3, <2>1, FlowKept
    <2>3. QED
      BY <2>1, <2>2, FlowIsNext
  <1>8. CASE r = q /\ Sent(r, c) /\ c # DATA
    <2> DEFINE f == Head(heap[r][c])
    <2>1. wire'[p] = Append(wire[p], f) /\ heap'[q][DATA] = heap[q][DATA]
      BY <1>1, <1>2, <1>8 DEF Sent
    <2>2. f \in Frames("client") /\ ~Is(f, "PSH", i) /\ ~Is(f, "FIN", i)
      <3>1. f \in CtrlFrames(r)
        BY <1>2, <1>8 DEF Sending, Class, Classes
      <3>2. QED
        BY <3>1 DEF CtrlFrames, Nops, Upds, Syns, Is, Frames
    <2> HIDE DEF f
    <2>3. FlowNext(p, i, Append(wire[p], f), heap[q][DATA])
      BY <1>1, <1>5, <2>2, FlowOther
    <2>4. QED
      BY <2>1, <2>3, FlowIsNext
  <1>9. CASE r = q /\ Sent(r, c) /\ c = DATA
    <2> DEFINE D == heap[q][DATA]
    <2>1. wire'[p] = Append(wire[p], Head(D)) /\ heap'[q][DATA] = Tail(D) /\ D # <<>> /\ ~Broken(q)
      BY <1>1, <1>2, <1>9 DEF Sent, Sending
    <2>2. /\ Received(p, i)' \in Nat /\ Top(q, i)' \in Nat
          /\ wire[p] \in Seq(Frames("client")) /\ D \in Seq(Frames("client"))
      BY <1>1, FlowTypes, FlowQueues
    <2>3. ~Broken(q)'
      BY <1>2, <1>9, <2>1 DEF Broken, Sent
    <2> HIDE DEF D
    <2>4. Pipe(i, Received(p, i)', Top(q, i)', Done(q, i)', wire[p], D, Broken(q)', strm'[p][i].fin, Live(p, i)')
      BY <1>5 DEF FlowNext, D
    <2>5. Pipe(i, Received(p, i)', Top(q, i)', Done(q, i)', wire[p], D, FALSE, strm'[p][i].fin, Live(p, i)')
      BY <2>3, <2>4, PipeWhole
    <2>6. Pipe(i, Received(p, i)', Top(q, i)', Done(q, i)', Append(wire[p], Head(D)), Tail(D), FALSE,
               strm'[p][i].fin, Live(p, i)')
      BY <2>1, <2>2, <2>5, PipeSent
    <2>7. Pipe(i, Received(p, i)', Top(q, i)', Done(q, i)', Append(wire[p], Head(D)), Tail(D), Broken(q)',
               strm'[p][i].fin, Live(p, i)')
      BY <2>3, <2>6, PipeWhole
    <2>8. FlowNext(p, i, wire'[p], heap'[q][DATA])
      BY <2>1, <2>7 DEF FlowNext
    <2>9. QED
      BY <2>8, FlowIsNext
  <1>10. QED
    BY <1>1, <1>6, <1>7, <1>8, <1>9

LEMMA SessionFlow ==
    ASSUME Core, Core', Ids, SessionSteps, NEW p \in Sides, NEW i \in Sids, SynFirst(i), Flow(p, i)
    PROVE  Flow(p, i)'
  <1> DEFINE q == Peer(p)
  <1>1. /\ Types /\ Types' /\ q \in Sides /\ q # p /\ "client" \in Sides /\ "server" \in Sides
        /\ DATA \in Classes /\ CTRL \in Classes /\ DATA # CTRL
    BY Peers DEF Core, Sides, Classes, CTRL, DATA
  <1>2. ASSUME wire'[p] = wire[p], EndsKept(p, i), heap'[q][DATA] = heap[q][DATA], Broken(q) => Broken(q)'
        PROVE  Flow(p, i)'
    BY <1>1, <1>2, FlowKept, FlowIsNext
  <1>3. CASE Idles
    <2>1. /\ wire' = wire /\ UsersRest /\ recv' = recv /\ strm' = strm /\ heap' = heap
          /\ closed' = closed /\ errs' = errs
      BY <1>3 DEF Idles, Quiet
    <2>2. QED
      BY <1>1, <1>2, <2>1, RestEnds DEF Broken
  <1>4. ASSUME NEW r \in Sides, NEW f, UsersRest, Asked(r, CTRL, f),
               UNCHANGED <<wire, recv, strm, closed, errs>>
        PROVE  Flow(p, i)'
    <2>1. heap'[q][DATA] = heap[q][DATA]
      BY <1>1, <1>4 DEF Asked
    <2>2. QED
      BY <1>1, <1>2, <1>4, <2>1, RestEnds DEF Broken
  <1>5. CASE Dials
    BY <1>1, <1>4, <1>5 DEF Dials
  <1>6. ASSUME NEW r \in Sides, Pings(r) PROVE Flow(p, i)'
    BY <1>4, <1>6 DEF Pings
  <1>7. ASSUME NEW r \in Sides, Dies(r) PROVE Flow(p, i)'
    <2>1. /\ wire' = wire /\ UsersRest /\ recv' = recv /\ heap' = heap /\ errs' = errs
          /\ \A s \in Sides : closed[s] => closed'[s]
          /\ strm'[p][i].buf = strm[p][i].buf /\ strm'[p][i].fin = strm[p][i].fin
      BY <1>7 DEF Dies, Quiet, Alike
    <2>2. QED
      BY <1>1, <1>2, <2>1, RestEnds DEF Broken
  <1>8. ASSUME NEW r \in Sides, LoopTurns(r) PROVE Flow(p, i)'
    <2>1. /\ UsersRest /\ heap' = heap /\ strm' = strm /\ recv'[p] \in {recv[p], "end"}
          /\ Broken(q) => Broken(q)'
      BY <1>1, <1>8 DEF LoopTurns, Broken
    <2>2. EndsKept(p, i)
      BY <1>1, <2>1, RestEnds
    <2>3. CASE wire'[p] = wire[p]
      BY <1>2, <2>1, <2>2, <2>3
    <2>4. CASE wire'[p] # wire[p]
      <3>1. recv'[p] = "end" /\ wire[p] # <<>> /\ wire'[p] = Tail(wire[p])
        BY <1>1, <1>8, <2>4, Peers DEF LoopTurns, Sides
      <3>2. Live(p, i)' => strm[p][i].fin
        BY <2>1, <3>1 DEF Live
      <3>3. Received(p, i)' = Received(p, i)
        BY <2>1 DEF Received, UsersRest
      <3>4. QED
        BY <1>1, <2>1, <2>2, <3>1, <3>2, <3>3, FlowTaken DEF EndsKept, EndOut
    <2>5. QED
      BY <2>3, <2>4
  <1>9. ASSUME NEW r \in Sides, RecvSteps(r) PROVE Flow(p, i)'
    <2>1. CASE r = p
      BY <1>9, <2>1, RecvFlow
    <2>2. CASE r # p
      <3>1. Receiving(r) /\ (strm' = strm \/ \E j \in Sids : Only(strm, strm', r, j))
        BY <1>9 DEF RecvSteps, Ignored, Opened, FinArrives, PshArrives, UpdArrives, Arrives
      <3>2. /\ wire'[p] = wire[p] /\ UsersRest /\ recv' = recv /\ heap' = heap /\ closed' = closed
            /\ errs' = errs
        BY <1>1, <2>2, <3>1, Peers DEF Receiving, Peer, Sides
      <3>3. strm'[p][i] = strm[p][i]
        BY <2>2, <3>1 DEF Only
      <3>4. QED
        BY <1>1, <1>2, <3>2, <3>3, RestEnds DEF Broken
    <2>3. QED
      BY <2>1, <2>2
  <1>10. ASSUME NEW r \in Sides, NEW j \in Sids, Begins(r, j), Unused(r, j), strm'[p][i].buf = strm[p][i].buf,
                strm'[p][i].fin = strm[p][i].fin
         PROVE  Flow(p, i)'
    <2>1. /\ wire' = wire /\ recv' = recv /\ heap' = heap /\ closed' = closed /\ errs' = errs
          /\ cl' = cl /\ got' = got /\ Only(wr, wr', r, j)
      BY <1>10 DEF Begins, Quiet
    <2>2. Received(p, i)' = Received(p, i) /\ Received(p, i) \in Nat
      BY <1>1, <1>10, <2>1, FlowTypes DEF Received
    <2>3. Live(p, i)' => Live(p, i)
      BY <1>10, <2>1 DEF Live
    <2>4. EndIn(p, i)
      BY <1>10, <2>2, <2>3 DEF EndIn
    <2>5. EndOut(q, i)
      <3>1. CASE r = q /\ j = i
        <4>1. /\ wr'[q][i].next = 1 /\ wr'[q][i].n = 0 /\ wr[q][i].pc = "off"
              /\ wr[q][i].next = 1 /\ wr[q][i].n = 0
          BY <1>10, <3>1, FreshUsers DEF Begins, Unused
        <4>2. QED
          BY <4>1 DEF EndOut, Top, Done
      <3>2. CASE r # q \/ j # i
        <4>1. wr'[q][i] = wr[q][i]
          BY <1>1, <2>1, <3>2 DEF Only
        <4>2. QED
          BY <4>1 DEF EndOut, Top, Done
      <3>3. QED
        BY <3>1, <3>2
    <2>6. QED
      BY <1>1, <1>2, <2>1, <2>4, <2>5, EndsOf DEF Broken
  <1>11. ASSUME NEW j \in Sids, Opens(j) PROVE Flow(p, i)'
    <2>1. /\ Begins("client", j) /\ Only(strm, strm', "client", j) /\ dial.pc = "syn" /\ dial.sid = j
          /\ strm'["client"][j] = Registered
      BY <1>11 DEF Opens
    <2>2. Unused("client", j) /\ strm["client"][j] = Stream
      BY <2>1 DEF Ids
    <2>3. strm'[p][i].buf = strm[p][i].buf /\ strm'[p][i].fin = strm[p][i].fin
      <3>1. CASE p = "client" /\ i = j
        BY <2>1, <2>2, <3>1, FreshStream
      <3>2. CASE p # "client" \/ i # j
        BY <2>1, <3>2 DEF Only
      <3>3. QED
        BY <3>1, <3>2
    <2>4. QED
      BY <1>1, <1>10, <2>1, <2>2, <2>3
  <1>12. ASSUME NEW j \in Sids, Accepts(j) PROVE Flow(p, i)'
    <2>1. Begins("server", j) /\ strm' = strm
      BY <1>12 DEF Accepts
    <2>2. Unused("server", j)
      BY <1>12, AcceptsFresh
    <2>3. QED
      BY <1>1, <1>10, <2>1, <2>2
  <1>13. QED
    BY <1>3, <1>5, <1>6, <1>7, <1>8, <1>9, <1>11, <1>12, SendFlow DEF SessionSteps

LEMMA FlowStep ==
    ASSUME Core, Core', Ids, [Next]_vars, NEW p \in Sides, NEW i \in Sids, SynFirst(i), Flow(p, i)
    PROVE  Flow(p, i)'
  BY Steps, UserFlow, SessionFlow

-----------------------------------------------------------------------------
(* What the server reads.                                                  *)

\* The bytes read and those in the buffer are numbered on.
Numbered(i) ==
    /\ \A k \in 1 .. Len(got["server"][i]) : got["server"][i][k] = k
    /\ cl["server"][i] # "end" =>
          \A k \in 1 .. Len(strm["server"][i].buf) : strm["server"][i].buf[k].at = Len(got["server"][i]) + k

\* A reader that has reported the end has read all that was written.
EofAtEnd(i) == rd["server"][i].out = "EOF" =>
    wr["client"][i].pc = "end" /\ Len(got["server"][i]) = wr["client"][i].next - 1

LEMMA NumberedKept ==
    ASSUME NEW i \in Sids, Numbered(i), got'["server"][i] = got["server"][i],
           cl'["server"][i] # "end" =>
              cl["server"][i] # "end" /\ strm'["server"][i].buf = strm["server"][i].buf
    PROVE  Numbered(i)'
  BY DEF Numbered

LEMMA EofKept ==
    ASSUME NEW i \in Sids, EofAtEnd(i), got'["server"][i] = got["server"][i],
           rd'["server"][i].out = "EOF" => rd["server"][i].out = "EOF",
           wr["client"][i].pc = "end" => wr'["client"][i] = wr["client"][i]
    PROVE  EofAtEnd(i)'
  BY DEF EofAtEnd

LEMMA TakenNumbered ==
    ASSUME Core, NEW i \in Sids, Numbered(i), NEW n \in Nat, Taken("server", i, n)
    PROVE  Numbered(i)'
  <1> DEFINE g == got["server"][i]
             h == got'["server"][i]
             b == strm["server"][i].buf
             c == strm'["server"][i].buf
  <1>1. "server" \in Sides /\ Types
    BY DEF Sides, Core
  <1>2. cl["server"][i] # "end" /\ n \in 1 .. Len(b) /\ c = SubSeq(b, n + 1, Len(b))
    BY <1>1 DEF Core, UsersOK, Taken
  <1>3. b \in Seq(Bytes) /\ Len(b) \in Nat
    BY <1>1, BufferNat
  <1>4. /\ Len(h) = Len(g) + n /\ Len(g) \in Nat
        /\ \A k \in 1 .. Len(g) : h[k] = g[k]
        /\ \A k \in 1 .. n : h[Len(g) + k] = b[k].at
    BY <1>1, TakenGot
  <1>5. /\ n <= Len(b) /\ Len(c) = Len(b) - n /\ \A k \in 1 .. Len(b) - n : c[k] = b[n + k]
    BY <1>2, <1>3, Rest
  <1>6. /\ \A k \in 1 .. Len(g) : g[k] = k
        /\ \A k \in 1 .. Len(b) : b[k].at = Len(g) + k
    BY <1>2 DEF Numbered
  <1> HIDE DEF g, h, b, c
  <1>7. ASSUME NEW k \in 1 .. Len(h) PROVE h[k] = k
    <2>1. CASE k <= Len(g)
      BY <1>4, <1>6, <2>1
    <2>2. CASE k > Len(g)
      <3> DEFINE m == k - Len(g)
      <3>1. m \in 1 .. n /\ Len(g) + m = k /\ m \in 1 .. Len(b)
        BY <1>3, <1>4, <1>5, <2>2
      <3> HIDE DEF m
      <3>2. QED
        BY <1>4, <1>6, <3>1
    <2>3. QED
      BY <1>4, <2>1, <2>2
  <1>8. ASSUME NEW k \in 1 .. Len(c) PROVE c[k].at = Len(h) + k
    <2>1. k \in 1 .. Len(b) - n /\ n + k \in 1 .. Len(b)
      BY <1>3, <1>5
    <2>2. c[k].at = Len(g) + (n + k)
      BY <1>5, <1>6, <2>1
    <2>3. Len(g) + (n + k) = Len(h) + k
      BY <1>4, <2>1
    <2>4. QED
      BY <2>2, <2>3
  <1>9. QED
    BY <1>7, <1>8 DEF Numbered, h, c

LEMMA Joined ==
    ASSUME NEW T, NEW b \in Seq(T), NEW d \in Seq(T)
    PROVE  /\ Len(b \o d) = Len(b) + Len(d)
           /\ \A k \in 1 .. Len(b) : (b \o d)[k] = b[k]
           /\ \A k \in 1 .. Len(d) : (b \o d)[Len(b) + k] = d[k]
  <1>1. Len(b) \in Nat /\ Len(d) \in Nat /\ Len(b \o d) = Len(b) + Len(d)
    OBVIOUS
  <1>2. ASSUME NEW k \in 1 .. Len(d) PROVE (b \o d)[Len(b) + k] = d[k]
    <2>1. Len(b) + k \in 1 .. Len(b) + Len(d) /\ ~(Len(b) + k <= Len(b)) /\ Len(b) + k - Len(b) = k
      BY <1>1
    <2>2. (b \o d)[Len(b) + k] = d[Len(b) + k - Len(b)]
      BY <2>1
    <2>3. QED
      BY <2>1, <2>2
  <1>3. QED
    BY <1>1, <1>2

LEMMA PshNumbered ==
    ASSUME Core, NEW i \in Sids, Numbered(i), Flow("server", i), PshArrives("server", i)
    PROVE  Numbered(i)'
  <1> DEFINE g == got["server"][i]
             b == strm["server"][i].buf
             c == strm'["server"][i].buf
             d == Head(wire["server"]).data
  <1>1. "server" \in Sides /\ Types /\ Peer("server") = "client" /\ "client" \in Sides
    BY DEF Sides, Core, Peer
  <1>2. /\ c = b \o d /\ d \in Seq(Bytes) /\ Is(Head(wire["server"]), "PSH", i) /\ wire["server"] # <<>>
        /\ recv["server"] = "run" /\ got' = got /\ cl' = cl
    BY DEF PshArrives, Arrives, Receiving, UsersRest
  <1>3. b \in Seq(Bytes) /\ Len(b) \in Nat /\ g \in Seq(Nat) /\ Len(g) \in Nat
    BY <1>1, BufferNat, SameTables
  <1>4. Len(d) \in Nat
    BY <1>2
  <1>5. CASE cl["server"][i] = "end"
    BY <1>2, <1>5, NumberedKept
  <1>6. CASE cl["server"][i] # "end"
    <2>1. Live("server", i)
      BY <1>2, <1>6 DEF Live
    <2>2. Pipe(i, Received("server", i), Top("client", i), Done("client", i), wire["server"],
               heap["client"][DATA], Broken("client"), strm["server"][i].fin, Live("server", i))
      BY <1>1 DEF Flow
    <2>3. /\ Received("server", i) = Len(g) + Len(b) /\ Received("server", i) \in Nat
          /\ Top("client", i) \in Nat
      <3>1. wr["client"][i] \in WriterType /\ strm["server"][i] \in StreamType
        BY <1>1, SameTables
      <3>2. QED
        BY <1>3, <3>1, EndsNat DEF Received, Top
    <2>4. wire["server"] \in Seq(Frames("client")) /\ heap["client"][DATA] \in Seq(Frames("client"))
      BY <1>1, FlowQueues
    <2>5. \A k \in 1 .. Len(d) : d[k].at = Received("server", i) + k
      <3> DEFINE R == Received("server", i)
                 W == wire["server"]
                 live == Live("server", i)
      <3>1. /\ R \in Nat /\ W \in Seq(Frames("client")) /\ W # <<>> /\ Is(Head(W), "PSH", i)
            /\ Pipe(i, R, Top("client", i), Done("client", i), W, heap["client"][DATA],
                    Broken("client"), strm["server"][i].fin, live)
        BY <1>2, <2>1, <2>2, <2>3, <2>4
      <3>2. Top("client", i) \in Nat /\ heap["client"][DATA] \in Seq(Frames("client"))
        BY <2>3, <2>4
      <3>3. live = TRUE
        BY <2>1 DEF Live
      <3> HIDE DEF R, W, live
      <3>4. Follows(Head(W).data, R)
        BY <3>1, <3>2, <3>3, PipeComes
      <3>5. QED
        BY <3>4 DEF R, W, Follows
    <2>6. /\ \A k \in 1 .. Len(g) : g[k] = k
          /\ \A k \in 1 .. Len(b) : b[k].at = Len(g) + k
      BY <1>6 DEF Numbered
    <2> HIDE DEF g, b, c, d
    <2>7. /\ Len(c) = Len(b) + Len(d)
          /\ \A k \in 1 .. Len(b) : c[k] = b[k]
          /\ \A k \in 1 .. Len(d) : c[Len(b) + k] = d[k]
      BY <1>2, <1>3, Joined
    <2>8. ASSUME NEW k \in 1 .. Len(c) PROVE c[k].at = Len(g) + k
      <3>1. CASE k <= Len(b)
        BY <1>3, <2>6, <2>7, <3>1
      <3>2. CASE k > Len(b)
        <4> DEFINE m == k - Len(b)
        <4>1. m \in 1 .. Len(d) /\ (Len(g) + Len(b)) + m = Len(g) + k /\ k = Len(b) + m
          BY <1>3, <1>4, <2>7, <3>2
        <4> HIDE DEF m
        <4>2. QED
          BY <2>3, <2>5, <2>7, <4>1
      <3>3. QED
        BY <1>3, <1>4, <2>7, <3>1, <3>2
    <2>9. QED
      BY <1>2, <2>6, <2>8 DEF Numbered, g, c
  <1>7. QED
    BY <1>5, <1>6

LEMMA UserNumbered ==
    ASSUME Core, Core', NEW r \in Sides, NEW j \in Sids, UserSteps(r, j),
           NEW i \in Sids, Numbered(i), EofAtEnd(i), Flow("server", i)
    PROVE  Numbered(i)' /\ EofAtEnd(i)'
  <1>1. /\ Types /\ "server" \in Sides /\ "client" \in Sides /\ Peer("server") = "client"
    BY DEF Core, Sides, Peer
  <1>2. UserStep(r, j)
    BY UserEnds
  <1>3. wr[r][j].pc = "end" => wr' = wr
    BY DEF UserSteps, WriterTurns, FrameAsked, FrameSent, Taken, Returned, ReaderMoves, Reading,
           CloseBegins, CloseDone, Closing
  <1>4. wr["client"][i].pc = "end" => wr'["client"][i] = wr["client"][i]
    <2>1. CASE r = "client" /\ j = i
      BY <1>3, <2>1
    <2>2. CASE r # "client" \/ j # i
      BY <1>1, <1>2, <2>2, UserOthers DEF OthersKept
    <2>3. QED
      BY <2>1, <2>2
  <1>5. CASE r # "server" \/ j # i
    <2>1. OthersKept("server", i) /\ rd'["server"][i] = rd["server"][i]
      BY <1>1, <1>2, <1>5, UserOthers DEF UserStep, Only
    <2>2. QED
      BY <1>4, <2>1, NumberedKept, EofKept DEF OthersKept
  <1>6. CASE r = "server" /\ j = i
    <2>1. CASE WriterTurns(r, j) \/ FrameAsked(r, j) \/ FrameSent(r, j)
      <3>1. rd' = rd /\ cl' = cl /\ got' = got /\ strm'[r][j].buf = strm[r][j].buf
        BY <2>1 DEF WriterTurns, WriterMoves, FrameAsked, FrameSent, Writing, Alike
      <3>2. QED
        BY <1>4, <1>6, <3>1, NumberedKept, EofKept
    <2>2. ASSUME NEW n \in Nat, Taken(r, j, n) PROVE Numbered(i)' /\ EofAtEnd(i)'
      <3>1. rd[r][j].pc = "try" /\ rd'[r][j].out = rd[r][j].out
        BY <2>2 DEF Taken
      <3>2. rd'[r][j].out # "EOF"
        BY <3>1 DEF Core, UsersOK
      <3>3. QED
        BY <1>6, <2>2, <3>2, TakenNumbered DEF EofAtEnd
    <2>3. CASE Returned(r, j)
      <3>1. strm' = strm /\ got' = got /\ cl' = cl /\ rd'[r][j].out = rd[r][j].out
        BY <2>3 DEF Returned, Reading
      <3>2. QED
        BY <1>4, <1>6, <3>1, NumberedKept, EofKept
    <2>4. CASE ReaderMoves(r, j)
      <3>1. /\ strm'[r][j].buf = strm[r][j].buf /\ got' = got /\ cl' = cl /\ wr' = wr
            /\ rd[r][j].pc \in {"try", "updating", "wait"}
            /\ \/ rd'[r][j].out = rd[r][j].out \/ rd'[r][j].out # "EOF"
               \/ strm[r][j].fin /\ strm[r][j].buf = <<>>
        BY <2>4 DEF ReaderMoves, Reading, Alike
      <3>2. Numbered(i)'
        BY <1>6, <3>1, NumberedKept
      <3>3. CASE strm["server"][i].fin /\ strm["server"][i].buf = <<>>
        <4>1. cl["server"][i] # "end"
          BY <1>6, <3>1 DEF Core, UsersOK
        <4>2. Live("server", i)
          BY <3>3, <4>1 DEF Live
        <4>3. Pipe(i, Received("server", i), Top("client", i), Done("client", i), wire["server"],
                   heap["client"][DATA], Broken("client"), strm["server"][i].fin, Live("server", i))
          BY <1>1 DEF Flow
        <4>4. /\ wire["server"] \in Seq(Frames("client")) /\ heap["client"][DATA] \in Seq(Frames("client"))
              /\ wr["client"][i] \in WriterType /\ strm["server"][i] \in StreamType
              /\ got["server"][i] \in Seq(Nat)
          BY <1>1, FlowQueues, SameTables
        <4>5. /\ Received("server", i) \in Nat /\ Top("client", i) \in Nat
          BY <4>4, EndsNat DEF Received, Top
        <4>6. Received("server", i) = Top("client", i) /\ Done("client", i)
          <5>1. /\ strm["server"][i].fin => Done("client", i)
                /\ strm["server"][i].fin /\ Live("server", i) => Received("server", i) = Top("client", i)
            BY <4>3, <4>4, <4>5, PipeBounds
          <5>2. QED
            BY <3>3, <4>2, <5>1
        <4>7. wr["client"][i].n = 0 /\ wr["client"][i].pc = "end" /\ wr["client"][i].next \in Nat
              /\ Len(strm["server"][i].buf) = 0 /\ Len(got["server"][i]) \in Nat
          BY <3>3, <4>4, <4>6 DEF Done, WriterType
        <4>8. Len(got["server"][i]) = wr["client"][i].next - 1
          <5>1. /\ Received("server", i) = Len(got["server"][i]) + 0
                /\ Top("client", i) = wr["client"][i].next - 1 + 0
            BY <4>7 DEF Received, Top
          <5>2. QED
            BY <4>6, <4>7, <5>1
        <4>9. EofAtEnd(i)'
          BY <3>1, <4>7, <4>8 DEF EofAtEnd
        <4>10. QED
          BY <3>2, <4>9
      <3>4. CASE rd'["server"][i].out = rd["server"][i].out \/ rd'["server"][i].out # "EOF"
        BY <3>1, <3>2, <3>4, EofKept
      <3>5. QED
        BY <1>6, <3>1, <3>3, <3>4
    <2>5. CASE CloseBegins(r, j) \/ CloseDone(r, j)
      <3>1. /\ rd' = rd /\ got' = got /\ wr' = wr /\ cl[r][j] # "end"
            /\ cl'[r][j] # "end" => strm'[r][j].buf = strm[r][j].buf
        BY <2>5 DEF CloseBegins, CloseDone, Closing
      <3>2. QED
        BY <1>6, <3>1, NumberedKept, EofKept
    <2>6. QED
      BY <2>1, <2>2, <2>3, <2>4, <2>5 DEF UserSteps
  <1>7. QED
    BY <1>5, <1>6

LEMMA SessionNumbered ==
    ASSUME Core, Core', Ids, SessionSteps, NEW i \in Sids, Numbered(i), EofAtEnd(i), Flow("server", i)
    PROVE  Numbered(i)' /\ EofAtEnd(i)'
  <1>1. "server" \in Sides /\ "client" \in Sides
    BY DEF Sides
  <1>2. ASSUME UsersRest, strm'["server"][i].buf = strm["server"][i].buf
        PROVE  Numbered(i)' /\ EofAtEnd(i)'
    BY <1>2, NumberedKept, EofKept DEF UsersRest
  <1>3. CASE Idles \/ Dials \/ \E p \in Sides : Pings(p) \/ Dies(p) \/ LoopTurns(p)
    BY <1>1, <1>2, <1>3 DEF Idles, Dials, Pings, Dies, Alike, LoopTurns
  <1>4. CASE \E p \in Sides, c \in Classes : Sent(p, c) \/ NotSent(p, c)
    BY <1>2, <1>4 DEF Sent, NotSent, Sending
  <1>5. ASSUME NEW p \in Sides, RecvSteps(p) PROVE Numbered(i)' /\ EofAtEnd(i)'
    <2>1. UsersRest
      BY <1>5 DEF RecvSteps, Ignored, Opened, FinArrives, PshArrives, UpdArrives, Arrives, Receiving
    <2>2. EofAtEnd(i)'
      BY <2>1, EofKept DEF UsersRest
    <2>3. CASE p = "server" /\ PshArrives(p, i)
      BY <2>2, <2>3, PshNumbered
    <2>4. CASE Ignored(p)
      BY <1>2, <2>1, <2>4 DEF Ignored
    <2>5. CASE Opened(p, i)
      <3>1. p = "server" /\ strm'[p][i] = Registered /\ ~strm[p][i].reg
        BY <2>5 DEF Opened
      <3>2. strm'["server"][i].buf = <<>> /\ strm["server"][i].buf = <<>>
        BY <1>1, <3>1, FreshStream DEF Core, UsersOK
      <3>3. QED
        BY <1>2, <2>1, <3>2
    <2>6. CASE FinArrives(p, i) \/ UpdArrives(p, i) \/ (p # "server" /\ PshArrives(p, i))
      <3>1. strm'["server"][i].buf = strm["server"][i].buf
        BY <1>1, <2>6 DEF FinArrives, UpdArrives, PshArrives, Arrives, Only
      <3>2. QED
        BY <1>2, <2>1, <3>1
    <2>7. ASSUME NEW j \in Sids, j # i,
                 Opened(p, j) \/ FinArrives(p, j) \/ PshArrives(p, j) \/ UpdArrives(p, j)
          PROVE  Numbered(i)' /\ EofAtEnd(i)'
      <3>1. strm'["server"][i] = strm["server"][i]
        BY <1>1, <2>7 DEF Opened, FinArrives, UpdArrives, PshArrives, Arrives, Only
      <3>2. QED
        BY <1>2, <2>1, <3>1
    <2>8. QED
      BY <1>5, <2>3, <2>4, <2>5, <2>6, <2>7 DEF RecvSteps
  <1>6. ASSUME NEW p \in Sides, NEW j \in Sids, Begins(p, j), Unused(p, j),
               strm'["server"][i].buf = strm["server"][i].buf
        PROVE  Numbered(i)' /\ EofAtEnd(i)'
    <2>1. /\ cl' = cl /\ got' = got /\ Only(wr, wr', p, j) /\ Only(rd, rd', p, j)
          /\ rd'[p][j].out = "" /\ wr[p][j].pc = "off"
      BY <1>6, FreshUsers DEF Begins, Unused
    <2>2. rd'["server"][i].out = "EOF" => rd["server"][i].out = "EOF"
      BY <1>1, <2>1 DEF Only
    <2>3. wr["client"][i].pc = "end" => wr'["client"][i] = wr["client"][i]
      BY <1>1, <2>1 DEF Only
    <2>4. QED
      BY <1>6, <2>1, <2>2, <2>3, NumberedKept, EofKept
  <1>7. ASSUME NEW j \in Sids, Opens(j) PROVE Numbered(i)' /\ EofAtEnd(i)'
    <2>1. /\ Begins("client", j) /\ Only(strm, strm', "client", j) /\ dial.pc = "syn" /\ dial.sid = j
      BY <1>7 DEF Opens
    <2>2. Unused("client", j)
      BY <2>1 DEF Ids
    <2>3. strm'["server"][i] = strm["server"][i]
      BY <1>1, <2>1 DEF Only
    <2>4. QED
      BY <1>1, <1>6, <2>1, <2>2, <2>3
  <1>8. ASSUME NEW j \in Sids, Accepts(j) PROVE Numbered(i)' /\ EofAtEnd(i)'
    <2>1. Begins("server", j) /\ strm' = strm
      BY <1>8 DEF Accepts
    <2>2. Unused("server", j)
      BY <1>8, AcceptsFresh
    <2>3. QED
      BY <1>1, <1>6, <2>1, <2>2
  <1>9. QED
    BY <1>3, <1>4, <1>5, <1>7, <1>8 DEF SessionSteps

\* The data of every stream, both ways.
Delivery ==
    /\ \A i \in Sids : SynFirst(i)
    /\ \A p \in Sides, i \in Sids : Flow(p, i)

LEMMA DeliveryInit ==
    ASSUME Init
    PROVE  Delivery /\ \A i \in Sids : Numbered(i) /\ EofAtEnd(i)
  <1>1. "client" \in Sides /\ "server" \in Sides /\ DATA \in Classes /\ \A p \in Sides : Peer(p) \in Sides
    BY Peers DEF Sides, Classes
  <1>2. /\ \A p \in Sides : wire[p] = <<>> /\ heap[p][DATA] = <<>>
        /\ \A p \in Sides, i \in Sids : /\ wr[p][i] = Writer /\ rd[p][i] = Reader /\ got[p][i] = <<>>
                                        /\ strm[p][i] = Stream
    BY <1>1 DEF Init
  <1>3. /\ \A p \in Sides, i \in Sids : /\ wr[p][i].pc = "off" /\ wr[p][i].next = 1 /\ wr[p][i].n = 0
                                        /\ rd[p][i].out = "" /\ got[p][i] = <<>>
                                        /\ strm[p][i].buf = <<>> /\ strm[p][i].fin = FALSE
    BY <1>2, FreshUsers, FreshStream
  <1>4. Len(<<>>) = 0 /\ 1 .. 0 = {}
    OBVIOUS
  <1>5. ASSUME NEW i \in Sids PROVE SynFirst(i)
    <2>1. call["client"][<<"SYN", i>>] = "none"
      BY <1>1 DEF Init, Callers
    <2>2. ~SynOut(i)
      BY <1>1, <1>3, <2>1 DEF SynOut
    <2>3. ~Carrying(heap["client"][DATA], i) /\ Ordered(wire["server"], i, Met(i))
      BY <1>1, <1>2, <1>4 DEF Carrying, Has, Ordered
    <2>4. QED
      BY <2>2, <2>3 DEF SynFirst
  <1>6. ASSUME NEW p \in Sides, NEW i \in Sids PROVE Flow(p, i)
    <2>1. Received(p, i) = 0 /\ Top(Peer(p), i) = 0
      <3>1. /\ got[p][i] = <<>> /\ strm[p][i].buf = <<>>
            /\ wr[Peer(p)][i].next = 1 /\ wr[Peer(p)][i].n = 0
        BY <1>1, <1>3
      <3>2. Len(got[p][i]) = 0 /\ Len(strm[p][i].buf) = 0
        BY <1>4, <3>1
      <3>3. QED
        BY <3>1, <3>2 DEF Received, Top
    <2>2. Pipe(i, 0, 0, Done(Peer(p), i), <<>>, <<>>, Broken(Peer(p)), FALSE, Live(p, i))
      BY PipeEmpty
    <2>3. wire[p] = <<>> /\ heap[Peer(p)][DATA] = <<>> /\ strm[p][i].fin = FALSE
      BY <1>1, <1>2, <1>3
    <2>4. QED
      BY <2>1, <2>2, <2>3 DEF Flow
  <1>7. ASSUME NEW i \in Sids PROVE Numbered(i) /\ EofAtEnd(i)
    BY <1>1, <1>3, <1>4 DEF Numbered, EofAtEnd
  <1>8. QED
    BY <1>5, <1>6, <1>7 DEF Delivery

LEMMA DeliveryStep ==
    ASSUME Core, Ids, Delivery, [Next]_vars
    PROVE  Delivery'
  <1>1. Core'
    BY CoreIdsStep
  <1>2. \A i \in Sids : SynFirst(i)'
    BY <1>1, SynStep DEF Delivery
  <1>3. \A p \in Sides, i \in Sids : Flow(p, i)'
    BY <1>1, FlowStep DEF Delivery
  <1>4. QED
    BY <1>2, <1>3 DEF Delivery

(***************************************************************************)
(* AcceptorReadsAll holds in every state.  The frames that wait and those  *)
(* on the wire carry on, one after the other, where the buffer of the      *)
(* reader ends (Flow), and the FIN comes after all of them; the stream's   *)
(* SYN goes ahead of them (SynFirst), so that the server never drops one.  *)
(***************************************************************************)
THEOREM AcceptorReadsAllHolds == Spec => []AcceptorReadsAll
  <1> DEFINE N == \A i \in Sids : Numbered(i) /\ EofAtEnd(i)
             I == Core /\ Ids /\ Delivery /\ N
  <1>1. Init => I
    BY CoreIdsInit, DeliveryInit
  <1>2. I /\ [Next]_vars => I'
    <2>1. SUFFICES ASSUME I, [Next]_vars PROVE I'
      OBVIOUS
    <2>2. Core' /\ Ids' /\ Delivery'
      BY <2>1, CoreIdsStep, DeliveryStep
    <2>3. ASSUME NEW i \in Sids PROVE Numbered(i)' /\ EofAtEnd(i)'
      <3>1. Flow("server", i)
        BY <2>1 DEF Delivery, Sides
      <3>2. QED
        BY <2>1, <2>2, <3>1, Steps, UserNumbered, SessionNumbered
    <2>4. QED
      BY <2>2, <2>3
  <1>3. I => AcceptorReadsAll
    <2>1. SUFFICES ASSUME I, NEW i \in Sids
                   PROVE  /\ got["server"][i] = [k \in DOMAIN got["server"][i] |-> k]
                          /\ rd["server"][i].out = "EOF" => Len(got["server"][i]) = wr["client"][i].next - 1
      BY DEF AcceptorReadsAll
    <2>2. got["server"][i] \in Seq(Nat)
      BY <2>1 DEF Core, Types, Tables, Table, Sides
    <2>3. Numbered(i) /\ EofAtEnd(i)
      BY <2>1
    <2>4. got["server"][i] = [k \in DOMAIN got["server"][i] |-> k]
      BY <2>2, <2>3 DEF Numbered
    <2>5. QED
      BY <2>3, <2>4 DEF EofAtEnd
  <1> HIDE DEF I
  <1>4. QED
    BY <1>1, <1>2, <1>3, PTL DEF Spec

-----------------------------------------------------------------------------
(* The counters of version 2.                                              *)

\* They count what is sent and what is read, and wrap.
Counts(p, i) == ver[p] = 2 =>
    /\ strm[p][i].numWritten = (wr[p][i].next - 1) % CountSpace
    /\ strm[p][i].numRead = Len(got[p][i]) % CountSpace

LEMMA CountsKept ==
    ASSUME NEW p \in Sides, NEW i \in Sids, Counts(p, i), ver' = ver,
           wr'[p][i].next = wr[p][i].next, got'[p][i] = got[p][i],
           strm'[p][i].numWritten = strm[p][i].numWritten, strm'[p][i].numRead = strm[p][i].numRead
    PROVE  Counts(p, i)'
  BY DEF Counts

LEMMA UserCounts ==
    ASSUME Core, Core', NEW r \in Sides, NEW j \in Sids, UserSteps(r, j),
           NEW p \in Sides, NEW i \in Sids, Counts(p, i)
    PROVE  Counts(p, i)'
  <1>1. Types /\ CountSpace \in Nat \ {0}
    BY Constants DEF Core
  <1>2. UserStep(r, j)
    BY UserEnds
  <1>3. ver' = ver
    BY <1>2 DEF UserStep
  <1>4. CASE p # r \/ i # j
    BY <1>2, <1>3, <1>4, UserOthers, CountsKept DEF OthersKept
  <1>5. CASE p = r /\ i = j
    <2>1. /\ wr[p][i] \in WriterType /\ got[p][i] \in Seq(Nat)
      BY <1>1, SameTables
    <2>2. wr[p][i].next - 1 \in Nat /\ wr[p][i].n \in Nat /\ Len(got[p][i]) \in Nat /\ wr[p][i].next \in Nat
      BY <2>1 DEF WriterType
    <2>3. CASE FrameSent(p, i)
      <3>1. ASSUME ver[p] = 2
            PROVE  strm'[p][i].numWritten = (wr'[p][i].next - 1) % CountSpace
        <4>1. strm'[p][i].numWritten = (((wr[p][i].next - 1) % CountSpace) + wr[p][i].n) % CountSpace
          BY <2>3, <3>1 DEF FrameSent, Count, Counts
        <4>2. strm'[p][i].numWritten = (wr[p][i].next - 1 + wr[p][i].n) % CountSpace
          BY <1>1, <2>2, <4>1, ModSum
        <4>3. wr'[p][i].next = wr[p][i].next + wr[p][i].n
          BY <2>3 DEF FrameSent
        <4>4. wr'[p][i].next - 1 = wr[p][i].next - 1 + wr[p][i].n
          BY <2>2, <4>3
        <4>5. QED
          BY <4>2, <4>4
      <3>2. strm'[p][i].numRead = strm[p][i].numRead /\ got' = got
        BY <2>3 DEF FrameSent, Writing
      <3>3. QED
        BY <1>3, <3>1, <3>2 DEF Counts
    <2>4. ASSUME NEW n \in Nat, Taken(p, i, n) PROVE Counts(p, i)'
      <3>1. Len(got'[p][i]) = Len(got[p][i]) + n
        BY <1>1, <2>4, TakenGot
      <3>2. ASSUME ver[p] = 2
            PROVE  strm'[p][i].numRead = Len(got'[p][i]) % CountSpace
        <4>1. strm'[p][i].numRead = ((Len(got[p][i]) % CountSpace) + n) % CountSpace
          BY <2>4, <3>2 DEF Taken, Counts
        <4>2. strm'[p][i].numRead = (Len(got[p][i]) + n) % CountSpace
          BY <1>1, <2>2, <4>1, ModSum
        <4>3. QED
          BY <3>1, <4>2
      <3>3. strm'[p][i].numWritten = strm[p][i].numWritten /\ wr' = wr
        BY <2>4 DEF Taken, Reading
      <3>4. QED
        BY <1>3, <3>2, <3>3 DEF Counts
    <2>5. CASE ~FrameSent(p, i) /\ ~\E n \in Nat : Taken(p, i, n)
      <3>1. /\ wr'[p][i].next = wr[p][i].next /\ got'[p][i] = got[p][i]
            /\ strm'[p][i].numWritten = strm[p][i].numWritten /\ strm'[p][i].numRead = strm[p][i].numRead
        BY <1>5, <2>5 DEF UserSteps, WriterTurns, WriterMoves, FrameAsked, Writing, Returned,
           ReaderMoves, Reading, CloseBegins, CloseDone, Closing, Alike
      <3>2. QED
        BY <1>3, <3>1, CountsKept
    <2>6. QED
      BY <2>3, <2>4, <2>5
  <1>6. QED
    BY <1>4, <1>5

LEMMA SessionCounts ==
    ASSUME Core, Core', Ids, SessionSteps, NEW p \in Sides, NEW i \in Sids, Counts(p, i)
    PROVE  Counts(p, i)'
  <1>1. "server" \in Sides /\ "client" \in Sides
    BY DEF Sides
  <1>2. CASE Idles \/ Dials \/ \E r \in Sides : Pings(r) \/ LoopTurns(r)
    <2>1. ver' = ver /\ UsersRest /\ strm' = strm
      BY <1>2 DEF Idles, Dials, Pings, LoopTurns
    <2>2. QED
      BY <2>1, CountsKept DEF UsersRest
  <1>3. CASE \E r \in Sides : Dies(r)
    BY <1>3, CountsKept DEF Dies, UsersRest, Alike
  <1>4. CASE \E r \in Sides, c \in Classes : Sent(r, c) \/ NotSent(r, c)
    <2>1. ver' = ver /\ UsersRest /\ strm' = strm
      BY <1>4 DEF Sent, NotSent, Sending
    <2>2. QED
      BY <2>1, CountsKept DEF UsersRest
  <1>5. ASSUME NEW r \in Sides, RecvSteps(r) PROVE Counts(p, i)'
    <2>1. ver' = ver /\ UsersRest
      BY <1>5 DEF RecvSteps, Ignored, Opened, FinArrives, PshArrives, UpdArrives, Arrives, Receiving
    <2>2. strm'[p][i].numWritten = strm[p][i].numWritten /\ strm'[p][i].numRead = strm[p][i].numRead
      <3>1. CASE Ignored(r)
        BY <3>1 DEF Ignored
      <3>2. ASSUME NEW j \in Sids, NEW cmd, Arrives(r, j, cmd)
            PROVE  strm'[p][i].numWritten = strm[p][i].numWritten /\ strm'[p][i].numRead = strm[p][i].numRead
        BY <3>2 DEF Arrives, Only
      <3>3. ASSUME NEW j \in Sids, Opened(r, j)
            PROVE  strm'[p][i].numWritten = strm[p][i].numWritten /\ strm'[p][i].numRead = strm[p][i].numRead
        <4>1. Only(strm, strm', r, j) /\ strm'[r][j] = Registered
          BY <3>3 DEF Opened
        <4>2. strm[r][j] = Stream
          BY <3>3, OpenedFresh
        <4>3. QED
          BY <4>1, <4>2, FreshStream DEF Only
      <3>4. QED
        BY <1>5, <3>1, <3>2, <3>3 DEF RecvSteps, FinArrives, PshArrives, UpdArrives
    <2>3. QED
      BY <2>1, <2>2, CountsKept DEF UsersRest
  <1>6. ASSUME NEW r \in Sides, NEW j \in Sids, Begins(r, j), Unused(r, j),
               strm'[p][i].numWritten = strm[p][i].numWritten, strm'[p][i].numRead = strm[p][i].numRead
        PROVE  Counts(p, i)'
    <2>1. /\ ver' = ver /\ got' = got /\ Only(wr, wr', r, j) /\ wr'[r][j].next = 1 /\ wr[r][j].next = 1
      BY <1>6, FreshUsers DEF Begins, Unused
    <2>2. wr'[p][i].next = wr[p][i].next
      BY <2>1 DEF Only
    <2>3. QED
      BY <1>6, <2>1, <2>2, CountsKept
  <1>7. ASSUME NEW j \in Sids, Opens(j) PROVE Counts(p, i)'
    <2>1. /\ Begins("client", j) /\ Only(strm, strm', "client", j) /\ strm'["client"][j] = Registered
          /\ Unused("client", j) /\ strm["client"][j] = Stream
      BY <1>7 DEF Opens, Ids
    <2>2. strm'[p][i].numWritten = strm[p][i].numWritten /\ strm'[p][i].numRead = strm[p][i].numRead
      BY <2>1, FreshStream DEF Only
    <2>3. QED
      BY <1>1, <1>6, <2>1, <2>2
  <1>8. ASSUME NEW j \in Sids, Accepts(j) PROVE Counts(p, i)'
    <2>1. Begins("server", j) /\ strm' = strm
      BY <1>8 DEF Accepts
    <2>2. Unused("server", j)
      BY <1>8, AcceptsFresh
    <2>3. QED
      BY <1>1, <1>6, <2>1, <2>2
  <1>9. QED
    BY <1>2, <1>3, <1>4, <1>5, <1>7, <1>8 DEF SessionSteps

-----------------------------------------------------------------------------
(* The windows of version 2.                                               *)

\* Up to where the writer may send before it looks at its window again.
Limit(p, i) == wr[p][i].next - 1 + wr[p][i].chunk

\* The updates from Peer(p) to p.
Granted(p, i) ==
    Credit(i, strm[p][i].consumed, Len(got[Peer(p)][i]), wire[p], heap[Peer(p)][CTRL],
           Broken(Peer(p)), Limit(p, i))

Windows(p, i) == ver[p] = 2 => Granted(p, i)

\* The ends of the next state, with queues W and H.
GrantedNext(p, i, W, H) ==
    Credit(i, strm'[p][i].consumed, Len(got'[Peer(p)][i]), W, H, Broken(Peer(p))', Limit(p, i)')

LEMMA GrantedIsNext ==
    ASSUME NEW p \in Sides, NEW i \in Sids, GrantedNext(p, i, wire'[p], heap'[Peer(p)][CTRL])
    PROVE  Windows(p, i)'
  BY DEF Windows, Granted, GrantedNext, Credit

LEMMA GrantedTypes ==
    ASSUME Types, Types', NEW p \in Sides, NEW i \in Sids
    PROVE  /\ Len(got[Peer(p)][i]) \in Nat /\ Limit(p, i) \in Nat
           /\ Len(got'[Peer(p)][i]) \in Nat /\ Limit(p, i)' \in Nat
  <1>1. /\ got[Peer(p)][i] \in Seq(Nat) /\ wr[p][i] \in WriterType /\ strm[p][i] \in StreamType
        /\ got'[Peer(p)][i] \in Seq(Nat) /\ wr'[p][i] \in WriterType /\ strm'[p][i] \in StreamType
    BY Peers DEF Types, Tables, Table
  <1>2. QED
    BY <1>1, EndsNat DEF Limit

\* The writer's end of the window, and the reader's.
WindowKept(p, i) == strm'[p][i].consumed = strm[p][i].consumed /\ Limit(p, i)' = Limit(p, i)
ReadKept(p, i)   == Len(got[p][i]) <= Len(got'[p][i])

LEMMA GrantedKept ==
    ASSUME Types, Types', NEW p \in Sides, NEW i \in Sids, Granted(p, i),
           WindowKept(p, i), ReadKept(Peer(p), i),
           Broken(Peer(p)) => Broken(Peer(p))', NEW H,
           ~Broken(Peer(p))' => H = heap[Peer(p)][CTRL]
    PROVE  GrantedNext(p, i, wire[p], H)
  <1>1. /\ Len(got[Peer(p)][i]) \in Nat /\ Limit(p, i) \in Nat
        /\ Len(got'[Peer(p)][i]) \in Nat /\ Limit(p, i)' \in Nat
    BY GrantedTypes
  <1>2. Limit(p, i)' <= Limit(p, i)
    BY <1>1 DEF WindowKept
  <1>3. Credit(i, strm[p][i].consumed, Len(got'[Peer(p)][i]), wire[p], H,
               Broken(Peer(p))', Limit(p, i)')
    BY <1>1, <1>2, CreditKept DEF Granted, ReadKept
  <1>4. QED
    BY <1>3 DEF GrantedNext, WindowKept

\* A queue of the reader gets a frame that is no update of the stream.
LEMMA GrantedOther ==
    ASSUME Types, Types', NEW p \in Sides, NEW i \in Sids, GrantedNext(p, i, wire[p], heap[Peer(p)][CTRL]),
           NEW f \in Frames("client"), ~Is(f, "UPD", i)
    PROVE  /\ GrantedNext(p, i, wire[p], Append(heap[Peer(p)][CTRL], f))
           /\ GrantedNext(p, i, Append(wire[p], f), heap[Peer(p)][CTRL])
  BY GrantedTypes, FlowQueues, CreditOther DEF GrantedNext

\* What a user's step does to the queues of control frames.
LEMMA UserUpdates ==
    ASSUME Core, NEW p \in Sides, NEW i \in Sids, UserSteps(p, i), NEW q \in Sides
    PROVE  \/ heap'[q][CTRL] = heap[q][CTRL]
           \/ \E f \in Frames("client") :
                 /\ q = p /\ heap'[q][CTRL] = Append(heap[q][CTRL], f) /\ f.sid = i
                 /\ Returned(p, i) /\ rd[p][i].notify /\ f.data[1] = strm[p][i].numRead
  <1>1. CTRL \in Classes /\ DATA \in Classes /\ CTRL # DATA /\ Class(p, CTRL) \subseteq Frames("client")
    BY DEF Classes, CTRL, DATA, Class, Frames, CtrlFrames
  <1>2. CASE Quiet
    BY <1>2 DEF Quiet
  <1>3. ASSUME NEW f, Asked(p, DATA, f) PROVE heap'[q][CTRL] = heap[q][CTRL]
    BY <1>1, <1>3 DEF Asked
  <1>4. CASE Returned(p, i) /\ ~Quiet
    <2> DEFINE f == Frame(p, "UPD", i, <<strm[p][i].numRead, StreamBuffer>>)
    <2>1. Asked(p, CTRL, f) /\ rd[p][i].notify
      BY <1>4 DEF Returned
    <2>2. f.sid = i /\ f.data[1] = strm[p][i].numRead
      BY DEF Frame
    <2> HIDE DEF f
    <2>3. f \in Frames("client") /\ heap'[p][CTRL] = Append(heap[p][CTRL], f)
          /\ (q # p => heap'[q][CTRL] = heap[q][CTRL])
      BY <1>1, <2>1 DEF Asked
    <2>4. QED
      BY <1>4, <2>1, <2>2, <2>3
  <1>5. QED
    BY <1>2, <1>3, <1>4
    DEF UserSteps, WriterTurns, WriterMoves, FrameAsked, FrameSent, Taken, ReaderMoves, CloseBegins, CloseDone

LEMMA UserWindow ==
    ASSUME Core, Core', NEW p \in Sides, NEW i \in Sids, UserSteps(p, i)
    PROVE  /\ strm'[p][i].consumed = strm[p][i].consumed
           /\ ReadKept(p, i)
           /\ Limit(p, i)' = Limit(p, i) \/ (FrameAsked(p, i) /\ wr[p][i].chunk = 0)
  <1>1. Types /\ wr[p][i] \in WriterType /\ got[p][i] \in Seq(Nat)
    BY SameTables DEF Core
  <1>2. wr[p][i].next \in Nat /\ wr[p][i].chunk \in Nat /\ wr[p][i].n \in Nat /\ Len(got[p][i]) \in Nat
    BY <1>1 DEF WriterType
  <1>3. strm'[p][i].consumed = strm[p][i].consumed
    BY DEF UserSteps, WriterTurns, WriterMoves, FrameAsked, FrameSent, Writing, Taken, Returned,
           ReaderMoves, Reading, CloseBegins, CloseDone, Closing, Alike
  <1>4. ReadKept(p, i)
    <2>1. ASSUME NEW n \in Nat, Taken(p, i, n) PROVE ReadKept(p, i)
      <3>1. Len(got'[p][i]) = Len(got[p][i]) + n
        BY <1>1, <2>1, TakenGot
      <3>2. QED
        BY <1>2, <3>1 DEF ReadKept
    <2>2. CASE got'[p][i] = got[p][i]
      BY <1>2, <2>2 DEF ReadKept
    <2>3. QED
      BY <2>1, <2>2 DEF UserSteps, WriterTurns, WriterMoves, FrameAsked, FrameSent, Writing, Returned,
           ReaderMoves, CloseBegins, CloseDone, Closing
  <1>5. CASE FrameSent(p, i)
    <2>1. wr'[p][i].next = wr[p][i].next + wr[p][i].n /\ wr'[p][i].chunk = wr[p][i].chunk - wr[p][i].n
      BY <1>5 DEF FrameSent
    <2>2. Limit(p, i)' = (wr[p][i].next + wr[p][i].n) - 1 + (wr[p][i].chunk - wr[p][i].n)
      BY <2>1 DEF Limit
    <2>3. Limit(p, i)' = wr[p][i].next - 1 + wr[p][i].chunk
      <3>1. wr[p][i].next \in Int /\ wr[p][i].chunk \in Int /\ wr[p][i].n \in Int
        BY <1>2
      <3>2. QED
        BY <2>2, <3>1, MovedAlong
    <2>4. QED
      BY <1>3, <1>4, <2>3 DEF Limit
  <1>6. CASE FrameAsked(p, i)
    <2>1. wr'[p][i].next = wr[p][i].next /\ (wr[p][i].chunk > 0 => wr'[p][i].chunk = wr[p][i].chunk)
      BY <1>6 DEF FrameAsked
    <2>2. wr[p][i].chunk > 0 \/ wr[p][i].chunk = 0
      BY <1>2
    <2>3. QED
      BY <1>3, <1>4, <1>6, <2>1, <2>2 DEF Limit
  <1>7. CASE ~FrameSent(p, i) /\ ~FrameAsked(p, i)
    <2>1. wr'[p][i].next = wr[p][i].next /\ wr'[p][i].chunk = wr[p][i].chunk
      BY <1>7 DEF UserSteps, WriterTurns, WriterMoves, Taken, Returned,
           ReaderMoves, Reading, CloseBegins, CloseDone, Closing
    <2>2. QED
      BY <1>3, <1>4, <2>1 DEF Limit
  <1>8. QED
    BY <1>5, <1>6, <1>7

\* What the writer finds when it looks at its window.
LEMMA Looks ==
    ASSUME Core, NEW p \in Sides, NEW i \in Sids, Counts(p, i), Windows(p, i), Flow(Peer(p), i),
           ver[p] = 2, wr[p][i].chunk = 0, wr[p][i].n = 0
    PROVE  /\ Inflight(p, i) \in Nat
           /\ \A n \in Nat : n <= Window(p, i) =>
                 Credit(i, strm[p][i].consumed, Len(got[Peer(p)][i]), wire[p], heap[Peer(p)][CTRL],
                        Broken(Peer(p)), Limit(p, i) + n)
  <1> DEFINE q == Peer(p)
             G == Len(got[q][i])
             top == wr[p][i].next - 1
             b == Len(strm[q][i].buf)
  <1>1. Types /\ q \in Sides /\ Peer(q) = p
    BY Peers DEF Core, Sides, Peer
  <1>2. /\ wr[p][i] \in WriterType /\ got[q][i] \in Seq(Nat) /\ strm[p][i] \in StreamType
        /\ strm[q][i] \in StreamType
    BY <1>1, SameTables
  <1>3. top \in Nat /\ G \in Nat /\ b \in Nat
    BY <1>1, <1>2, EndsNat, BufferNat
  <1>4. Received(q, i) = G + b /\ Top(p, i) = top + 0
    BY DEF Received, Top
  <1> HIDE DEF G, top, b
  <1>5. Received(q, i) \in Nat /\ Top(p, i) \in Nat
    BY <1>3, <1>4
  <1>6. /\ wire[q] \in Seq(Frames("client")) /\ heap[p][DATA] \in Seq(Frames("client"))
        /\ wire[p] \in Seq(Frames("client"))
    BY <1>1, FlowQueues
  <1>7. Pipe(i, Received(q, i), Top(p, i), Done(p, i), wire[q], heap[p][DATA], Broken(p),
             strm[q][i].fin, Live(q, i))
    BY <1>1 DEF Flow
  <1>8. Received(q, i) <= Top(p, i)
    BY <1>5, <1>6, <1>7, PipeBounds
  <1>9. G <= top
    BY <1>3, <1>4, <1>5, <1>8
  <1>10. Limit(p, i) = top
    BY <1>3 DEF Limit, top
  <1>11. Credit(i, strm[p][i].consumed, G, wire[p], heap[q][CTRL], Broken(q), top)
    BY <1>10 DEF Windows, Granted, G
  <1>12. Inflight(p, i) = Signed(((top % CountSpace) - strm[p][i].consumed) % CountSpace)
    BY DEF Inflight, Counts, top
  <1>13. strm[p][i].window \in {InitialWindow, StreamBuffer}
    BY <1>2 DEF StreamType
  <1> HIDE DEF q
  <1>14. /\ Inflight(p, i) \in Nat
         /\ \A n \in Nat : n <= strm[p][i].window - Inflight(p, i) =>
               Credit(i, strm[p][i].consumed, G, wire[p], heap[q][CTRL], Broken(q), top + n)
    BY <1>3, <1>6, <1>9, <1>11, <1>12, <1>13, CreditLooks
  <1>15. QED
    BY <1>10, <1>14 DEF Window, q, G

LEMMA UserWindows ==
    ASSUME Core, Core', NEW r \in Sides, NEW j \in Sids, UserSteps(r, j),
           NEW p \in Sides, NEW i \in Sids, Windows(p, i), Counts(p, i), Counts(Peer(p), i),
           Flow(Peer(p), i)
    PROVE  Windows(p, i)'
  <1> DEFINE q == Peer(p)
  <1>1. Types /\ Types' /\ q \in Sides /\ q # p
    BY Peers DEF Core
  <1>2. UserStep(r, j)
    BY UserEnds
  <1>3. ver' = ver /\ wire' = wire /\ closed' = closed /\ errs' = errs
    BY <1>2 DEF UserStep
  <1>4. Broken(q)' = Broken(q)
    BY <1>3 DEF Broken
  <1>5. SUFFICES ASSUME ver[p] = 2 PROVE GrantedNext(p, i, wire'[p], heap'[q][CTRL])
    <2>1. CASE ver[p] = 2
      BY <1>5, <2>1, GrantedIsNext
    <2>2. CASE ver[p] # 2
      BY <1>3, <2>2 DEF Windows
    <2>3. QED
      BY <2>1, <2>2
  <1>6. Granted(p, i)
    BY <1>5 DEF Windows
  <1>7. ReadKept(q, i)
    <2>1. CASE q = r /\ i = j
      BY <2>1, UserWindow
    <2>2. CASE q # r \/ i # j
      <3>1. got'[q][i] = got[q][i] /\ Len(got[q][i]) \in Nat
        BY <1>1, <1>2, <2>2, UserOthers, GrantedTypes DEF OthersKept
      <3>2. QED
        BY <3>1 DEF ReadKept
    <2>3. QED
      BY <2>1, <2>2
  <1>8. CASE p = r /\ i = j /\ FrameAsked(r, j) /\ wr[p][i].chunk = 0
    <2> DEFINE n == wr'[p][i].chunk
    <2>1. /\ wr[p][i].pc \in {"start", "frame"} /\ strm'[p][i] = strm[p][i]
          /\ wr'[p][i].next = wr[p][i].next /\ n <= Window(p, i) /\ got' = got
          /\ wr'[p][i] \in WriterType /\ wr[p][i] \in WriterType
      BY <1>1, <1>5, <1>8 DEF FrameAsked, Writing, Types, Tables, Table
    <2>2. n \in Nat /\ wr[p][i].next \in Nat
      BY <2>1 DEF WriterType
    <2>3. wr[p][i].n = 0
      BY <2>1 DEF Core, WriterOK
    <2> HIDE DEF n
    <2>4. Credit(i, strm[p][i].consumed, Len(got[q][i]), wire[p], heap[q][CTRL], Broken(q), Limit(p, i) + n)
      BY <1>5, <1>8, <2>1, <2>2, <2>3, Looks
    <2>5. Limit(p, i) = wr[p][i].next - 1 + 0 /\ Limit(p, i)' = wr[p][i].next - 1 + n
      BY <1>8, <2>1 DEF Limit, n
    <2>6. Limit(p, i)' = Limit(p, i) + n
      BY <2>2, <2>5
    <2>7. heap'[q][CTRL] = heap[q][CTRL]
      BY <1>1, <1>8, UserUpdates
    <2>8. QED
      BY <1>3, <1>4, <2>1, <2>4, <2>6, <2>7 DEF GrantedNext
  <1>9. CASE ~(p = r /\ i = j /\ FrameAsked(r, j) /\ wr[p][i].chunk = 0)
    <2>1. WindowKept(p, i)
      <3>1. CASE p = r /\ i = j
        BY <1>9, <3>1, UserWindow DEF WindowKept
      <3>2. CASE p # r \/ i # j
        BY <1>2, <3>2, UserOthers DEF OthersKept, WindowKept, Limit
      <3>3. QED
        BY <3>1, <3>2
    <2>2. GrantedNext(p, i, wire[p], heap[q][CTRL])
      BY <1>1, <1>4, <1>6, <1>7, <2>1, GrantedKept
    <2>3. CASE heap'[q][CTRL] = heap[q][CTRL]
      BY <1>3, <2>2, <2>3
    <2>4. ASSUME NEW f \in Frames("client"),
                 q = r /\ heap'[q][CTRL] = Append(heap[q][CTRL], f) /\ f.sid = j,
                 Returned(r, j) /\ rd[r][j].notify /\ f.data[1] = strm[r][j].numRead
          PROVE  GrantedNext(p, i, wire'[p], heap'[q][CTRL])
      <3>1. CASE i # j
        <4>1. ~Is(f, "UPD", i)
          BY <2>4, <3>1 DEF Is
        <4>2. QED
          BY <1>1, <1>3, <2>2, <2>4, <4>1, GrantedOther
      <3>2. CASE i = j
        <4>1. ver[q] = 2 /\ got' = got
          BY <2>4, <3>2 DEF Core, UsersOK, Returned
        <4>2. f.data[1] = Len(got'[q][i]) % CountSpace
          BY <2>4, <3>2, <4>1 DEF Counts
        <4>3. /\ Len(got'[q][i]) \in Nat /\ Limit(p, i)' \in Nat
              /\ wire[p] \in Seq(Frames("client")) /\ heap[q][CTRL] \in Seq(Frames("client"))
          BY <1>1, GrantedTypes, FlowQueues
        <4>4. GrantedNext(p, i, wire[p], Append(heap[q][CTRL], f))
          BY <2>2, <4>2, <4>3, CreditAsked DEF GrantedNext
        <4>5. QED
          BY <1>3, <2>4, <4>4
      <3>3. QED
        BY <3>1, <3>2
    <2>5. QED
      BY <1>1, <2>3, <2>4, UserUpdates
  <1>10. QED
    BY <1>8, <1>9

\* A frame comes off the wire.
LEMMA GrantedTaken ==
    ASSUME Types, Types', NEW p \in Sides, NEW i \in Sids, Granted(p, i), UsersRest,
           wire[p] # <<>>, wire'[p] = Tail(wire[p]), heap' = heap, Broken(Peer(p)) => Broken(Peer(p))',
           \/ strm'[p][i].consumed = strm[p][i].consumed
           \/ Is(Head(wire[p]), "UPD", i) /\ strm'[p][i].consumed = Head(wire[p]).data[1]
    PROVE  GrantedNext(p, i, wire'[p], heap'[Peer(p)][CTRL])
  <1> DEFINE q == Peer(p)
             W == wire[p]
  <1>1. /\ Len(got[q][i]) \in Nat /\ Limit(p, i) \in Nat /\ W \in Seq(Frames("client"))
    BY GrantedTypes, FlowQueues
  <1>2. Limit(p, i)' = Limit(p, i) /\ got' = got
    BY DEF Limit, UsersRest
  <1>3. Credit(i, strm[p][i].consumed, Len(got[q][i]), W, heap[q][CTRL], Broken(q), Limit(p, i))
    BY DEF Granted
  <1>4. Credit(i, strm'[p][i].consumed, Len(got[q][i]), Tail(W), heap[q][CTRL], Broken(q), Limit(p, i))
    <2>1. /\ Credit(i, strm[p][i].consumed, Len(got[q][i]), Tail(W), heap[q][CTRL], Broken(q), Limit(p, i))
          /\ Is(Head(W), "UPD", i) =>
                Credit(i, Head(W).data[1], Len(got[q][i]), Tail(W), heap[q][CTRL], Broken(q), Limit(p, i))
      BY <1>1, <1>3, CreditTaken
    <2>2. QED
      BY <2>1
  <1>5. Len(got[q][i]) <= Len(got[q][i]) /\ Limit(p, i) <= Limit(p, i)
    BY <1>1
  <1>6. Credit(i, strm'[p][i].consumed, Len(got[q][i]), Tail(W), heap[q][CTRL], Broken(q)', Limit(p, i))
    BY <1>1, <1>4, <1>5, CreditKept
  <1>7. QED
    BY <1>2, <1>6 DEF GrantedNext

LEMMA SendWindows ==
    ASSUME Core, Core', NEW r \in Sides, NEW c \in Classes, Sent(r, c) \/ NotSent(r, c),
           NEW p \in Sides, NEW i \in Sids, Granted(p, i)
    PROVE  GrantedNext(p, i, wire'[p], heap'[Peer(p)][CTRL])
  <1> DEFINE q == Peer(p)
  <1>1. /\ Types /\ Types' /\ q \in Sides /\ q # p /\ Peer(q) = p /\ (r = p \/ r = q)
        /\ CTRL \in Classes
    BY Peers DEF Core, Sides, Peer, Classes
  <1>2. /\ Sending(r, c) /\ UsersRest /\ strm' = strm /\ closed' = closed
        /\ heap[r][c] # <<>> /\ heap'[r][c] = Tail(heap[r][c])
        /\ \A s \in Sides, d \in Classes : s # r \/ d # c => heap'[s][d] = heap[s][d]
    BY DEF Sent, NotSent, Sending
  <1>3. /\ Len(got[q][i]) \in Nat /\ Limit(p, i) \in Nat
        /\ wire[p] \in Seq(Frames("client")) /\ heap[q][CTRL] \in Seq(Frames("client"))
    BY <1>1, GrantedTypes, FlowQueues
  <1>4. WindowKept(p, i) /\ ReadKept(q, i)
    BY <1>2, <1>3 DEF WindowKept, ReadKept, Limit, UsersRest
  <1>5. Broken(q) => Broken(q)'
    BY <1>1, <1>2 DEF Broken, Sent, NotSent
  <1>6. GrantedNext(p, i, wire[p], heap[q][CTRL])
    BY <1>1, <1>4, <1>5, GrantedKept
  <1>7. CASE r = p
    <2>1. wire'[p] = wire[p] /\ heap'[q][CTRL] = heap[q][CTRL]
      BY <1>1, <1>2, <1>7 DEF Sent, NotSent
    <2>2. QED
      BY <1>6, <2>1
  <1>8. CASE r = q /\ NotSent(r, c)
    <2>1. wire' = wire /\ Broken(q)'
      BY <1>8 DEF NotSent, Broken
    <2>2. GrantedNext(p, i, wire[p], heap'[q][CTRL])
      BY <1>1, <1>4, <2>1, GrantedKept
    <2>3. QED
      BY <2>1, <2>2
  <1>9. CASE r = q /\ Sent(r, c) /\ c # CTRL
    <2> DEFINE f == Head(heap[r][c])
    <2>1. wire'[p] = Append(wire[p], f) /\ heap'[q][CTRL] = heap[q][CTRL]
      BY <1>1, <1>2, <1>9 DEF Sent
    <2>2. f \in Frames("client") /\ ~Is(f, "UPD", i)
      <3>1. f \in DataFrames
        BY <1>2, <1>9 DEF Sending, Class, Classes
      <3>2. QED
        BY <3>1 DEF DataFrames, Pshs, Fins, Is, Frames
    <2> HIDE DEF f
    <2>3. GrantedNext(p, i, Append(wire[p], f), heap[q][CTRL])
      BY <1>1, <1>6, <2>2, GrantedOther
    <2>4. QED
      BY <2>1, <2>3
  <1>10. CASE r = q /\ Sent(r, c) /\ c = CTRL
    <2> DEFINE H == heap[q][CTRL]
    <2>1. wire'[p] = Append(wire[p], Head(H)) /\ heap'[q][CTRL] = Tail(H) /\ H # <<>> /\ ~Broken(q)
      BY <1>1, <1>2, <1>10 DEF Sent, Sending
    <2>2. H \in Seq(Frames("client")) /\ Broken(q) = FALSE /\ Broken(q)' = FALSE
      BY <1>2, <1>3, <1>10, <2>1 DEF Broken, Sent
    <2>3. Len(got'[q][i]) = Len(got[q][i]) /\ Limit(p, i)' = Limit(p, i)
          /\ strm'[p][i].consumed = strm[p][i].consumed
      BY <1>2 DEF Limit, UsersRest
    <2> HIDE DEF H
    <2>4. Credit(i, strm[p][i].consumed, Len(got[q][i]), wire[p], H, FALSE, Limit(p, i))
      BY <2>2 DEF Granted, H
    <2>5. Credit(i, strm[p][i].consumed, Len(got[q][i]), Append(wire[p], Head(H)), Tail(H), FALSE, Limit(p, i))
      BY <1>3, <2>1, <2>2, <2>4, CreditSent
    <2>6. QED
      BY <2>1, <2>2, <2>3, <2>5 DEF GrantedNext
  <1>11. QED
    BY <1>1, <1>7, <1>8, <1>9, <1>10

LEMMA SessionFixed ==
    ASSUME SessionSteps
    PROVE  ver' = ver /\ (wr' = wr \/ \E p \in Sides, i \in Sids : Begins(p, i))
  <1>1. CASE Idles \/ Dials \/ \E p \in Sides : Pings(p) \/ Dies(p) \/ LoopTurns(p)
    BY <1>1 DEF Idles, Dials, Pings, Dies, LoopTurns, UsersRest
  <1>2. ASSUME NEW p \in Sides, RecvSteps(p) PROVE ver' = ver /\ wr' = wr
    <2>1. Receiving(p)
      BY <1>2 DEF RecvSteps, Ignored, Opened, FinArrives, PshArrives, UpdArrives, Arrives
    <2>2. QED
      BY <2>1 DEF Receiving, UsersRest
  <1>3. CASE \E p \in Sides, c \in Classes : Sent(p, c) \/ NotSent(p, c)
    BY <1>3 DEF Sent, NotSent, Sending, UsersRest
  <1>4. ASSUME NEW i \in Sids, Opens(i) \/ Accepts(i)
        PROVE  \E p \in Sides : Begins(p, i) /\ ver' = ver
    BY <1>4 DEF Opens, Accepts, Begins, Sides
  <1>5. QED
    BY <1>1, <1>2, <1>3, <1>4 DEF SessionSteps

LEMMA SessionWindows ==
    ASSUME Core, Core', Ids, SessionSteps, NEW p \in Sides, NEW i \in Sids, Windows(p, i)
    PROVE  Windows(p, i)'
  <1> DEFINE q == Peer(p)
  <1>1. /\ Types /\ Types' /\ q \in Sides /\ q # p /\ "client" \in Sides /\ "server" \in Sides
        /\ CTRL \in Classes
    BY Peers DEF Core, Sides, Classes
  <1>2. ver' = ver
    BY SessionFixed
  <1>3. SUFFICES ASSUME ver[p] = 2 PROVE GrantedNext(p, i, wire'[p], heap'[q][CTRL])
    <2>1. CASE ver[p] = 2
      BY <1>3, <2>1, GrantedIsNext
    <2>2. CASE ver[p] # 2
      BY <1>2, <2>2 DEF Windows
    <2>3. QED
      BY <2>1, <2>2
  <1>4. Granted(p, i) /\ Len(got[q][i]) \in Nat
    BY <1>1, <1>3, GrantedTypes DEF Windows
  <1>5. ASSUME UsersRest, strm'[p][i].consumed = strm[p][i].consumed, wire'[p] = wire[p],
               Broken(q) => Broken(q)'
        PROVE  GrantedNext(p, i, wire'[p], heap[q][CTRL])
    <2>1. WindowKept(p, i) /\ ReadKept(q, i)
      BY <1>4, <1>5 DEF WindowKept, ReadKept, Limit, UsersRest
    <2>2. QED
      BY <1>1, <1>4, <1>5, <2>1, GrantedKept
  <1>6. CASE Idles
    <2>1. /\ wire' = wire /\ UsersRest /\ strm' = strm /\ heap' = heap /\ closed' = closed /\ errs' = errs
      BY <1>6 DEF Idles, Quiet
    <2>2. QED
      BY <1>5, <2>1 DEF Broken
  <1>7. ASSUME NEW r \in Sides, NEW f, UsersRest, Asked(r, CTRL, f), f.cmd # "UPD",
               UNCHANGED <<wire, strm, closed, errs>>
        PROVE  GrantedNext(p, i, wire'[p], heap'[q][CTRL])
    <2>1. GrantedNext(p, i, wire[p], heap[q][CTRL])
      BY <1>5, <1>7 DEF Broken
    <2>2. CASE r = q
      <3>1. heap'[q][CTRL] = Append(heap[q][CTRL], f) /\ f \in Class(r, CTRL)
        BY <1>7, <2>2 DEF Asked
      <3>2. f \in Frames("client") /\ ~Is(f, "UPD", i)
        BY <1>7, <3>1 DEF Class, CtrlFrames, Frames, Is
      <3>3. QED
        BY <1>1, <1>7, <2>1, <3>1, <3>2, GrantedOther
    <2>3. CASE r # q
      <3>1. heap'[q][CTRL] = heap[q][CTRL]
        BY <1>1, <1>7, <2>3 DEF Asked
      <3>2. QED
        BY <1>7, <2>1, <3>1
    <2>4. QED
      BY <2>2, <2>3
  <1>8. CASE Dials
    <2> DEFINE f == Frame("client", "SYN", nextID', <<>>)
    <2>1. f.cmd # "UPD"
      BY DEF Frame
    <2>2. UsersRest /\ Asked("client", CTRL, f) /\ UNCHANGED <<wire, strm, closed, errs>>
      BY <1>8 DEF Dials
    <2> HIDE DEF f
    <2>3. QED
      BY <1>1, <1>7, <2>1, <2>2
  <1>9. ASSUME NEW r \in Sides, Pings(r) PROVE GrantedNext(p, i, wire'[p], heap'[q][CTRL])
    <2> DEFINE f == Frame(r, "NOP", 0, <<>>)
    <2>1. f.cmd # "UPD"
      BY DEF Frame
    <2>2. UsersRest /\ Asked(r, CTRL, f) /\ UNCHANGED <<wire, strm, closed, errs>>
      BY <1>9 DEF Pings
    <2> HIDE DEF f
    <2>3. QED
      BY <1>7, <2>1, <2>2
  <1>10. ASSUME NEW r \in Sides, Dies(r) PROVE GrantedNext(p, i, wire'[p], heap'[q][CTRL])
    <2>1. /\ wire' = wire /\ UsersRest /\ heap' = heap /\ errs' = errs
          /\ \A s \in Sides : closed[s] => closed'[s]
          /\ strm'[p][i].consumed = strm[p][i].consumed
      BY <1>10 DEF Dies, Quiet, Alike
    <2>2. QED
      BY <1>1, <1>5, <2>1 DEF Broken
  <1>11. ASSUME NEW r \in Sides, LoopTurns(r) PROVE GrantedNext(p, i, wire'[p], heap'[q][CTRL])
    <2>1. /\ UsersRest /\ heap' = heap /\ strm' = strm
          /\ Broken(q) => Broken(q)'
      BY <1>1, <1>11 DEF LoopTurns, Broken
    <2>2. CASE wire'[p] = wire[p]
      BY <1>5, <2>1, <2>2
    <2>3. CASE wire'[p] # wire[p]
      <3>1. wire[p] # <<>> /\ wire'[p] = Tail(wire[p])
        BY <1>1, <1>11, <2>3, Peers DEF LoopTurns, Sides
      <3>2. QED
        BY <1>1, <1>4, <2>1, <3>1, GrantedTaken
    <2>4. QED
      BY <2>2, <2>3
  <1>12. ASSUME NEW r \in Sides, RecvSteps(r) PROVE GrantedNext(p, i, wire'[p], heap'[q][CTRL])
    <2>1. Receiving(r) /\ (strm' = strm \/ \E j \in Sids : Only(strm, strm', r, j))
      BY <1>12 DEF RecvSteps, Ignored, Opened, FinArrives, PshArrives, UpdArrives, Arrives
    <2>2. UsersRest /\ heap' = heap /\ closed' = closed /\ errs' = errs
      BY <2>1 DEF Receiving
    <2>3. CASE r # p
      <3>1. wire'[p] = wire[p]
        BY <1>1, <2>1, <2>3, Peers DEF Receiving, Peer, Sides
      <3>2. strm'[p][i] = strm[p][i]
        BY <2>1, <2>3 DEF Only
      <3>3. QED
        BY <1>5, <2>2, <3>1, <3>2 DEF Broken
    <2>4. CASE r = p
      <3>1. wire[p] # <<>> /\ wire'[p] = Tail(wire[p]) /\ (Broken(q) => Broken(q)')
        BY <2>1, <2>2, <2>4 DEF Receiving, Broken
      <3>2. \/ strm'[p][i].consumed = strm[p][i].consumed
            \/ Is(Head(wire[p]), "UPD", i) /\ strm'[p][i].consumed = Head(wire[p]).data[1]
        <4>1. CASE Ignored(p)
          BY <4>1 DEF Ignored
        <4>2. CASE Opened(p, i)
          <5>1. strm'[p][i] = Registered /\ strm[p][i] = Stream
            BY <4>2, OpenedFresh DEF Opened
          <5>2. QED
            BY <5>1, FreshStream
        <4>3. CASE FinArrives(p, i) \/ PshArrives(p, i) \/ UpdArrives(p, i)
          BY <4>3 DEF FinArrives, PshArrives, UpdArrives, Arrives
        <4>4. ASSUME NEW j \in Sids, j # i,
                     Opened(p, j) \/ FinArrives(p, j) \/ PshArrives(p, j) \/ UpdArrives(p, j)
              PROVE  strm'[p][i].consumed = strm[p][i].consumed
          BY <4>4 DEF Opened, FinArrives, UpdArrives, PshArrives, Arrives, Only
        <4>5. QED
          BY <1>12, <2>4, <4>1, <4>2, <4>3, <4>4 DEF RecvSteps
      <3>3. QED
        BY <1>1, <1>4, <2>2, <3>1, <3>2, GrantedTaken
    <2>5. QED
      BY <2>3, <2>4
  <1>13. ASSUME NEW r \in Sides, NEW j \in Sids, Begins(r, j), Unused(r, j),
                strm'[p][i].consumed = strm[p][i].consumed
         PROVE  GrantedNext(p, i, wire'[p], heap'[q][CTRL])
    <2>1. /\ wire' = wire /\ heap' = heap /\ closed' = closed /\ errs' = errs /\ got' = got
          /\ Only(wr, wr', r, j) /\ wr'[r][j].next = 1 /\ wr'[r][j].chunk = 0
          /\ wr[r][j].next = 1 /\ wr[r][j].chunk = 0
      BY <1>13, FreshUsers DEF Begins, Quiet, Unused
    <2>2. wr'[p][i].next = wr[p][i].next /\ wr'[p][i].chunk = wr[p][i].chunk
      BY <2>1 DEF Only
    <2>3. WindowKept(p, i) /\ ReadKept(q, i)
      BY <1>4, <1>13, <2>1, <2>2 DEF WindowKept, ReadKept, Limit
    <2>4. QED
      BY <1>1, <1>4, <2>1, <2>3, GrantedKept DEF Broken
  <1>14. ASSUME NEW j \in Sids, Opens(j) PROVE GrantedNext(p, i, wire'[p], heap'[q][CTRL])
    <2>1. /\ Begins("client", j) /\ Only(strm, strm', "client", j) /\ strm'["client"][j] = Registered
          /\ Unused("client", j) /\ strm["client"][j] = Stream
      BY <1>14 DEF Opens, Ids
    <2>2. strm'[p][i].consumed = strm[p][i].consumed
      BY <2>1, FreshStream DEF Only
    <2>3. QED
      BY <1>1, <1>13, <2>1, <2>2
  <1>15. ASSUME NEW j \in Sids, Accepts(j) PROVE GrantedNext(p, i, wire'[p], heap'[q][CTRL])
    <2>1. Begins("server", j) /\ strm' = strm
      BY <1>15 DEF Accepts
    <2>2. Unused("server", j)
      BY <1>15, AcceptsFresh
    <2>3. QED
      BY <1>1, <1>13, <2>1, <2>2
  <1>16. ASSUME NEW r \in Sides, NEW c \in Classes, Sent(r, c) \/ NotSent(r, c)
         PROVE  GrantedNext(p, i, wire'[p], heap'[q][CTRL])
    BY <1>4, <1>16, SendWindows
  <1>17. QED
    BY <1>6, <1>8, <1>9, <1>10, <1>11, <1>12, <1>14, <1>15, <1>16 DEF SessionSteps

\* No writer has found more consumed than was sent.
Sane(p, i) == wr[p][i].out # "consumed"

LEMMA SaneStep ==
    ASSUME Core, Core', Ids, [Next]_vars, NEW p \in Sides, NEW i \in Sids, Sane(p, i),
           Windows(p, i), Counts(p, i), Flow(Peer(p), i)
    PROVE  Sane(p, i)'
  <1>1. Types
    BY DEF Core
  <1>2. ASSUME NEW r \in Sides, NEW j \in Sids, UserSteps(r, j) PROVE Sane(p, i)'
    <2>1. UserStep(r, j)
      BY <1>2, UserEnds
    <2>2. CASE p # r \/ i # j
      BY <2>1, <2>2, UserOthers DEF OthersKept, Sane
    <2>3. CASE p = r /\ i = j /\ WriterTurns(p, i)
      <3>1. PICK pc \in {"end", "window", "frame"}, out \in Outs :
               /\ WriterMoves(p, i, pc, out)
               /\ wr[p][i].pc \in {"start", "frame", "window", "sending"}
               /\ out = "consumed" => \/ wr[p][i].out = "consumed"
                                      \/ ver[p] = 2 /\ wr[p][i].chunk = 0 /\ Inflight(p, i) < 0
        BY <2>3 DEF WriterTurns
      <3>2. wr'[p][i].out = out
        BY <3>1 DEF WriterMoves
      <3>3. ASSUME ver[p] = 2, wr[p][i].chunk = 0 PROVE ~(Inflight(p, i) < 0)
        <4>1. wr[p][i].pc # "sending"
          BY <3>3 DEF Core, WriterOK
        <4>2. wr[p][i].n = 0
          BY <3>1, <4>1 DEF Core, WriterOK
        <4>3. Inflight(p, i) \in Nat
          BY <3>3, <4>2, Looks
        <4>4. QED
          BY <4>3
      <3>4. QED
        BY <3>1, <3>2, <3>3 DEF Sane
    <2>4. CASE p = r /\ i = j /\ ~WriterTurns(p, i)
      <3>1. wr'[p][i].out = wr[p][i].out \/ wr'[p][i].out \in {"ok", ""}
        BY <1>2, <2>4 DEF UserSteps, FrameAsked, FrameSent, Taken, Returned, ReaderMoves, Reading,
           CloseBegins, CloseDone, Closing
      <3>2. QED
        BY <3>1 DEF Sane
    <2>5. QED
      BY <2>2, <2>3, <2>4
  <1>3. ASSUME NEW r \in Sides, NEW j \in Sids, Begins(r, j) PROVE Sane(p, i)'
    BY <1>3 DEF Begins, Only, Sane
  <1>4. CASE SessionSteps
    <2>1. wr' = wr \/ \E r \in Sides, j \in Sids : Begins(r, j)
      BY <1>4, SessionFixed
    <2>2. QED
      BY <1>3, <2>1 DEF Sane
  <1>5. QED
    BY <1>2, <1>4, Steps

LEMMA CreditNone ==
    ASSUME NEW i, NEW broken
    PROVE  Credit(i, 0, 0, <<>>, <<>>, broken, 0)
  <1> DEFINE P(c, x, y, z) == /\ 0 = c % CountSpace /\ c <= x
                              /\ Carries(<<>>, Read(i), x, y)
                              /\ y <= z /\ z <= 0
                              /\ ~broken => Carries(<<>>, Read(i), y, z)
                              /\ 0 <= c + Room
  <1>1. 0 \in Nat /\ 0 <= 0 /\ Carries(<<>>, Read(i), 0, 0) /\ 0 % CountSpace = 0 /\ 0 <= 0 + Room
    BY CarriesNone, RoomFacts
  <1>2. P(0, 0, 0, 0)
    BY <1>1
  <1> HIDE DEF P
  <1>3. \E c, x, y, z \in Nat : P(c, x, y, z)
    BY <1>1, <1>2
  <1>4. QED
    BY <1>3 DEF Credit, P

LEMMA WindowsInit ==
    ASSUME Init, NEW p \in Sides, NEW i \in Sids
    PROVE  Windows(p, i) /\ Counts(p, i) /\ Sane(p, i)
  <1>1. Peer(p) \in Sides /\ CTRL \in Classes
    BY Peers DEF Classes
  <1>2. /\ wire[p] = <<>> /\ heap[Peer(p)][CTRL] = <<>> /\ got[p][i] = <<>> /\ got[Peer(p)][i] = <<>>
        /\ wr[p][i] = Writer /\ strm[p][i] = Stream
    BY <1>1 DEF Init
  <1>3. /\ wr[p][i].next = 1 /\ wr[p][i].chunk = 0 /\ wr[p][i].out = ""
        /\ strm[p][i].consumed = 0 /\ strm[p][i].numRead = 0 /\ strm[p][i].numWritten = 0
    BY <1>2, FreshUsers, FreshStream
  <1>4. Len(got[p][i]) = 0 /\ Len(got[Peer(p)][i]) = 0 /\ Limit(p, i) = 0 /\ wr[p][i].next - 1 = 0
    <2>1. got[p][i] = <<>> /\ got[Peer(p)][i] = <<>>
      BY <1>2
    <2>2. Len(got[p][i]) = 0 /\ Len(got[Peer(p)][i]) = 0
      BY <2>1
    <2>3. wr[p][i].next = 1 /\ wr[p][i].chunk = 0
      BY <1>3
    <2>4. Limit(p, i) = 0 /\ wr[p][i].next - 1 = 0
      BY <2>3 DEF Limit
    <2>5. QED
      BY <2>2, <2>4
  <1>5. 0 % CountSpace = 0
    BY RoomFacts
  <1>6. Counts(p, i)
    BY <1>3, <1>4, <1>5 DEF Counts
  <1>7. Credit(i, 0, 0, <<>>, <<>>, Broken(Peer(p)), 0)
    BY CreditNone
  <1>8. Granted(p, i)
    BY <1>2, <1>3, <1>4, <1>7 DEF Granted
  <1>9. QED
    BY <1>3, <1>6, <1>8 DEF Windows, Sane

(***************************************************************************)
(* NeverOverconsumed holds in every state.  The counts that the updates    *)
(* carry rise from the one the writer has to what the reader has read      *)
(* (Granted), no more is read than was sent (Flow), and a writer sends no  *)
(* more than a window beyond the count it has: the two counters are less   *)
(* than half of their range apart, so their difference modulo the range    *)
(* is the bytes in flight and not negative.                                *)
(***************************************************************************)
THEOREM NeverOverconsumedHolds == Spec => []NeverOverconsumed
  <1> DEFINE N == \A p \in Sides, i \in Sids : Windows(p, i) /\ Counts(p, i) /\ Sane(p, i)
             I == Core /\ Ids /\ Delivery /\ N
  <1>1. Init => I
    BY CoreIdsInit, DeliveryInit, WindowsInit
  <1>2. I /\ [Next]_vars => I'
    <2>1. SUFFICES ASSUME I, [Next]_vars PROVE I'
      OBVIOUS
    <2>2. Core' /\ Ids' /\ Delivery'
      BY <2>1, CoreIdsStep, DeliveryStep
    <2>3. ASSUME NEW p \in Sides, NEW i \in Sids PROVE Windows(p, i)' /\ Counts(p, i)' /\ Sane(p, i)'
      <3>1. Peer(p) \in Sides
        BY Peers
      <3>2. /\ Windows(p, i) /\ Counts(p, i) /\ Sane(p, i) /\ Counts(Peer(p), i) /\ Flow(Peer(p), i)
        BY <2>1, <3>1 DEF Delivery
      <3>3. Windows(p, i)'
        BY <2>1, <2>2, <3>2, Steps, UserWindows, SessionWindows
      <3>4. Counts(p, i)'
        BY <2>1, <2>2, <3>2, Steps, UserCounts, SessionCounts
      <3>5. Sane(p, i)'
        BY <2>1, <2>2, <3>2, SaneStep
      <3>6. QED
        BY <3>3, <3>4, <3>5
    <2>4. QED
      BY <2>2, <2>3
  <1>3. I => NeverOverconsumed
    BY DEF NeverOverconsumed, Sane
  <1> HIDE DEF I
  <1>4. QED
    BY <1>1, <1>2, <1>3, PTL DEF Spec

=============================================================================
