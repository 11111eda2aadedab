---------------------------- MODULE LoggerProofs ----------------------------
(***************************************************************************)
(* Proofs about Logger for every number of threads, channels, messages,    *)
(* parts and other calls.                                                  *)
(*                                                                         *)
(* The argument: the vector of the logger only holds channels that are     *)
(* alive, since they are removed all at once, and the place of a stream is *)
(* a place of that vector; so a turn of a loop never meets a deleted one.  *)
(* And what a channel shows of an open message is told from the place of   *)
(* its one stream and from the filter of the channel.                      *)
(***************************************************************************)
EXTENDS Logger, SequenceTheorems, TLAPS

Objects  == [level : Levels, silent : BOOLEAN, alive : BOOLEAN]
Messages == [level : Levels, ended : BOOLEAN, concerns : SUBSET Nat]
Writings == [message : Nat, part : Nat,
             text : {"text", "elapsed", "not started"}]
Places   == [message : Nat, part : Nat, at : Nat]

(* The sets that the variables belong to.                                  *)
Domains ==
  /\ channels \in Seq(Nat)
  /\ objects \in Seq(Objects)
  /\ output \in Seq(Seq(Writings))
  /\ messages \in Seq(Messages)
  /\ stream \in [Threads -> Places]
  /\ clockBase \in Clocks \cup {0}
  /\ named \in BOOLEAN
  /\ started \in BOOLEAN
  /\ changes \in Nat
  /\ undefined \in BOOLEAN

(* The vector holds channels that are alive, each with an output.          *)
Living ==
  /\ Len(output) = Len(objects)
  /\ \A n \in 1..Len(channels) : /\ channels[n] \in 1..Len(objects)
                                 /\ objects[channels[n]].alive

(* An open stream is at a part of its message and a place of the vector.   *)
Streaming ==
  \A t \in Threads :
    /\ Open(t) => stream[t].message \in 1..Len(messages)
    /\ stream[t].part \in 0..EL
    /\ stream[t].at \in 0..(Len(channels) + 1) \/ undefined

(* Nothing but start() sets the clock of a timer with a name.              *)
Timing == named /\ clockBase # 0 => started

IInv == Domains /\ Living /\ Streaming /\ Timing
-----------------------------------------------------------------------------
LEMMA Bounds ==
  /\ L3 \in Levels /\ Levels \subseteq Nat
  /\ Clocks \subseteq Nat
  /\ Parts \in Nat \ {0} /\ EL \in Nat /\ EL = Parts + 1
  /\ MaxMessages \in Nat /\ MaxChannels \in Nat /\ MaxChanges \in Nat
  BY LoggerAssumption DEF EL, L3

(* A sequence with one element changed.                                    *)
LEMMA Changed ==
  ASSUME NEW S, NEW s \in Seq(S), NEW n \in 1..Len(s), NEW x \in S,
         NEW r, r = [s EXCEPT ![n] = x]
  PROVE  /\ r \in Seq(S)
         /\ Len(r) = Len(s)
         /\ r[n] = x
         /\ \A k \in 1..Len(s) : k # n => r[k] = s[k]
  BY ExceptSeq

(* A sequence made by a function of the positions of another.              *)
LEMMA Mapped ==
  ASSUME NEW S, NEW T, NEW s \in Seq(S),
         NEW r, DOMAIN r = DOMAIN s, r = [k \in DOMAIN r |-> r[k]],
         \A k \in 1..Len(s) : r[k] \in T
  PROVE  r \in Seq(T) /\ Len(r) = Len(s)
<1>1. Len(s) \in Nat /\ DOMAIN s = 1..Len(s)
  OBVIOUS
<1>2. r \in [1..Len(s) -> T]
  BY <1>1
<1> QED
  BY <1>1, <1>2, SeqDef, LenProperties

(* A turn of the loop: the channel it meets is alive, and all it does is   *)
(* to add to the output of that channel.                                   *)
LEMMA Turn ==
  ASSUME IInv, NEW t \in Threads, Write(t)
  PROVE  /\ ~undefined /\ undefined' = undefined
         /\ stream[t].at \in 1..Len(channels)
         /\ stream' = [stream EXCEPT ![t].at = @ + 1]
         /\ \E c \in 1..Len(output), w \in Writings :
              /\ \/ output' = output
                 \/ output' = [output EXCEPT ![c] = Append(output[c], w)]
              /\ w.part = Parts => w.text = Report
<1> DEFINE s == stream[t]
           c == channels[s.at]
           w == Written(s.message, s.part)
<1>1. s \in Places
  BY DEF IInv, Domains
<1>2. /\ ~undefined /\ s.at # 0 /\ s.at <= Len(channels)
      /\ stream' = [stream EXCEPT ![t].at = @ + 1]
  BY DEF Write, InLoop
<1>3. s.at \in 1..Len(channels)
  BY <1>1, <1>2 DEF Places, IInv, Domains
<1>4. c \in 1..Len(output) /\ objects[c].alive
  BY <1>3 DEF IInv, Living
<1>5. /\ undefined' = undefined
      /\ output' = output \/ output' = [output EXCEPT ![c] = Append(output[c], w)]
  BY <1>4 DEF Write
<1>6. w \in Writings /\ (w.part = Parts => w.text = Report)
  <2>1. s.message \in Nat /\ s.part \in Nat
    BY <1>1 DEF Places
  <2>2. Report \in {"text", "elapsed", "not started"}
    BY DEF Report
  <2>3. w = [message |-> s.message, part |-> s.part,
             text |-> IF s.part = Parts THEN Report ELSE "text"]
    BY DEF Written
  <2> HIDE DEF w
  <2> QED
    BY <2>1, <2>2, <2>3 DEF Writings
<1> QED
  BY <1>2, <1>3, <1>4, <1>5, <1>6
-----------------------------------------------------------------------------
(* The first state.                                                        *)
LEMMA InitInv == Init => IInv
<1> SUFFICES ASSUME Init
             PROVE  IInv
  OBVIOUS
<1>1. NewChannel \in Objects /\ NewChannel.alive
  BY Bounds DEF NewChannel, Objects
<1>2. Closed \in Places
  BY DEF Closed, Places
<1>3. clockBase \in Clocks \cup {0} /\ (named => clockBase = 0)
  BY DEF Init, Constructed
<1>4. Domains
  <2>1. channels \in Seq(Nat) /\ objects \in Seq(Objects)
    BY <1>1 DEF Init
  <2>2. output \in Seq(Seq(Writings)) /\ messages \in Seq(Messages)
    BY DEF Init
  <2>3. stream \in [Threads -> Places]
    BY <1>2 DEF Init
  <2> QED
    BY <1>3, <2>1, <2>2, <2>3 DEF Init, Domains
<1>5. Living
  BY <1>1 DEF Init, Living
<1>6. Streaming
  BY Bounds DEF Init, Streaming, Open, Closed
<1> QED
  BY <1>3, <1>4, <1>5, <1>6 DEF IInv, Timing

(* A new message.                                                          *)
LEMMA LogInv ==
  ASSUME IInv, NEW t \in Threads, NEW level \in Levels, Log(t, level)
  PROVE  IInv'
<1> DEFINE m == [level |-> level, ended |-> FALSE, concerns |-> ToSet(channels)]
           p == [message |-> Len(messages) + 1, part |-> 1, at |-> 0]
<1>1. /\ messages' = Append(messages, m)
      /\ stream' = [stream EXCEPT ![t] = p]
      /\ UNCHANGED <<channels, objects, output, clockBase, named, started,
                     changes, undefined>>
  BY DEF Log
<1>2. m \in Messages
  BY DEF IInv, Domains, ToSet, Messages
<1>3. messages' \in Seq(Messages) /\ Len(messages') = Len(messages) + 1
  BY <1>1, <1>2, AppendProperties DEF IInv, Domains
<1>4. p \in Places
  BY DEF IInv, Domains, Places
<1>5. Domains'
  BY <1>1, <1>3, <1>4 DEF IInv, Domains
<1>6. Streaming'
  <2> SUFFICES ASSUME NEW u \in Threads
               PROVE  /\ Open(u)' => stream'[u].message \in 1..Len(messages')
                      /\ stream'[u].part \in 0..EL
                      /\ stream'[u].at \in 0..(Len(channels') + 1) \/ undefined'
    BY DEF Streaming
  <2>1. Len(messages) \in Nat /\ Len(channels) \in Nat
    BY DEF IInv, Domains
  <2>2. CASE u = t
    <3>1. stream'[u] = p
      BY <1>1, <2>2 DEF IInv, Domains
    <3> QED
      BY <1>1, <1>3, <2>1, <3>1, Bounds
  <2>3. CASE u # t
    <3>1. stream'[u] = stream[u]
      BY <1>1, <2>3 DEF IInv, Domains
    <3>2. Open(u)' <=> Open(u)
      BY <3>1 DEF Open
    <3> QED
      BY <1>1, <1>3, <2>1, <3>1, <3>2 DEF IInv, Streaming
  <2> QED
    BY <2>2, <2>3
<1> QED
  BY <1>1, <1>5, <1>6 DEF IInv, Living, Timing

(* A stream moves on in its message.                                       *)
LEMMA Moved ==
  ASSUME IInv, NEW t \in Threads, Open(t), NEW p,
         stream' = [stream EXCEPT ![t] = p],
         p = Closed \/ /\ p.message = stream[t].message
                       /\ p.part \in 0..EL
                       /\ p.at \in 0..(Len(channels) + 1)
                       /\ p \in Places,
         UNCHANGED <<channels, undefined>>,
         Len(messages') = Len(messages)
  PROVE  stream' \in [Threads -> Places] /\ Streaming'
<1>1. Closed \in Places
  BY DEF Closed, Places
<1>2. stream' \in [Threads -> Places]
  BY <1>1 DEF IInv, Domains
<1>3. ASSUME NEW u \in Threads
      PROVE  /\ Open(u)' => stream'[u].message \in 1..Len(messages')
             /\ stream'[u].part \in 0..EL
             /\ stream'[u].at \in 0..(Len(channels') + 1) \/ undefined'
  <2>1. Len(channels) \in Nat
    BY DEF IInv, Domains
  <2>2. CASE u # t
    <3>1. stream'[u] = stream[u] /\ (Open(u)' <=> Open(u))
      BY <2>2 DEF IInv, Domains, Open
    <3> QED
      BY <3>1 DEF IInv, Streaming
  <2>3. CASE u = t /\ p = Closed
    <3>1. stream'[u] = Closed /\ ~Open(u)'
      BY <2>3 DEF IInv, Domains, Open
    <3> QED
      BY <2>1, <3>1, Bounds DEF Closed
  <2>4. CASE u = t /\ p # Closed
    <3>1. stream'[u] = p
      BY <2>4 DEF IInv, Domains
    <3>2. stream[t].message \in 1..Len(messages)
      BY DEF IInv, Streaming
    <3> QED
      BY <2>4, <3>1, <3>2
  <2> QED
    BY <2>2, <2>3, <2>4
<1> QED
  BY <1>2, <1>3 DEF Streaming

(* The beginning of a loop.                                                *)
LEMMA CallInv ==
  ASSUME IInv, NEW t \in Threads, Call(t)
  PROVE  IInv'
<1> DEFINE p == [stream[t] EXCEPT !.at = 1]
<1>1. /\ Open(t)
      /\ stream' = [stream EXCEPT ![t] = p]
      /\ UNCHANGED <<channels, objects, output, messages, clockBase, named,
                     started, changes, undefined>>
  BY DEF Call
<1>2. stream[t] \in Places /\ Len(channels) \in Nat /\ stream[t].part \in 0..EL
  BY DEF IInv, Domains, Streaming
<1>3. /\ p \in Places /\ p.message = stream[t].message
      /\ p.part = stream[t].part /\ p.at = 1
  BY <1>2 DEF Places
<1> HIDE DEF p
<1>4. p.at \in 0..(Len(channels) + 1) /\ Len(messages') = Len(messages)
  BY <1>1, <1>2, <1>3
<1>5. stream' \in [Threads -> Places] /\ Streaming'
  BY <1>1, <1>2, <1>3, <1>4, Moved
<1> QED
  BY <1>1, <1>5 DEF IInv, Domains, Living, Timing

(* A turn of a loop.                                                       *)
LEMMA WriteInv ==
  ASSUME IInv, NEW t \in Threads, Write(t)
  PROVE  IInv'
<1> DEFINE p == [stream[t] EXCEPT !.at = @ + 1]
<1>1. /\ undefined' = undefined
      /\ stream[t].at \in 1..Len(channels)
      /\ stream' = [stream EXCEPT ![t] = p]
  BY Turn
<1>2. PICK c \in 1..Len(output), w \in Writings :
        output' = output \/ output' = [output EXCEPT ![c] = Append(output[c], w)]
  BY Turn
<1>3. UNCHANGED <<channels, objects, messages, clockBase, named, started, changes>>
  BY DEF Write
<1>4. stream[t] \in Places /\ Len(channels) \in Nat /\ stream[t].part \in 0..EL
  BY DEF IInv, Domains, Streaming
<1>5. /\ p \in Places /\ p.message = stream[t].message
      /\ p.part = stream[t].part /\ p.at = stream[t].at + 1
  BY <1>4 DEF Places
<1>6. Open(t)
  BY <1>1 DEF Open, Closed
<1> HIDE DEF p
<1>7. stream' \in [Threads -> Places] /\ Streaming'
  <2>1. p.at \in 0..(Len(channels) + 1) /\ Len(messages') = Len(messages)
    BY <1>1, <1>3, <1>4, <1>5
  <2> QED
    BY <1>1, <1>3, <1>4, <1>5, <1>6, <2>1, Moved
<1>8. output' \in Seq(Seq(Writings)) /\ Len(output') = Len(output)
  <2>1. output \in Seq(Seq(Writings)) /\ output[c] \in Seq(Writings)
    BY DEF IInv, Domains
  <2>2. Append(output[c], w) \in Seq(Writings)
    BY <2>1, AppendProperties
  <2>3. CASE output' = output
    BY <2>1, <2>3
  <2>4. CASE output' = [output EXCEPT ![c] = Append(output[c], w)]
    BY <2>1, <2>2, <2>4, Changed
  <2> QED
    BY <1>2, <2>3, <2>4
<1> QED
  BY <1>1, <1>3, <1>7, <1>8 DEF IInv, Domains, Living, Timing

(* The end of a loop.                                                      *)
LEMMA DoneInv ==
  ASSUME IInv, NEW t \in Threads, Done(t)
  PROVE  IInv'
<1> DEFINE s == stream[t]
           p == After(s)
           m == s.message
<1>1. /\ ~undefined /\ s.at # 0
      /\ stream' = [stream EXCEPT ![t] = p]
      /\ messages' = [messages EXCEPT ![m].ended = s.part = EL]
      /\ UNCHANGED <<channels, objects, output, clockBase, named, started,
                     changes, undefined>>
  BY DEF Done, InLoop
<1>2. Open(t)
  BY <1>1 DEF Open, Closed
<1>3. s \in Places /\ m \in 1..Len(messages) /\ s.part \in 0..EL
  BY <1>2 DEF IInv, Domains, Streaming
<1>4. messages' \in Seq(Messages) /\ Len(messages') = Len(messages)
  <2> DEFINE x == [messages[m] EXCEPT !.ended = s.part = EL]
  <2>1. messages \in Seq(Messages) /\ messages[m] \in Messages
    BY <1>3 DEF IInv, Domains
  <2>2. x \in Messages
    BY <2>1 DEF Messages
  <2>3. messages' = [messages EXCEPT ![m] = x]
    BY <1>1
  <2> HIDE DEF x
  <2> QED
    BY <1>3, <2>1, <2>2, <2>3, Changed
<1>5. p = Closed \/ /\ p.message = s.message
                    /\ p.part \in 0..EL
                    /\ p.at \in 0..(Len(channels) + 1)
                    /\ p \in Places
  <2>1. Len(channels) \in Nat
    BY DEF IInv, Domains
  <2>2. CASE s.part = EL
    BY <2>2 DEF After
  <2>3. CASE s.part # EL
    <3>1. p = [s EXCEPT !.part = @ + 1, !.at = 0]
      BY <2>3 DEF After
    <3>2. /\ p \in Places /\ p.message = s.message
          /\ p.part = s.part + 1 /\ p.at = 0
      <4>1. p = [message |-> s.message, part |-> s.part + 1, at |-> 0]
        BY <1>3, <3>1 DEF Places
      <4> HIDE DEF p
      <4> QED
        BY <1>3, <4>1 DEF Places
    <3>3. s.part + 1 \in 0..EL
      BY <1>3, <2>3, Bounds
    <3> QED
      BY <2>1, <3>2, <3>3
  <2> QED
    BY <2>2, <2>3
<1> HIDE DEF p
<1>6. stream' \in [Threads -> Places] /\ Streaming'
  BY <1>1, <1>2, <1>4, <1>5, Moved
<1> QED
  BY <1>1, <1>4, <1>6 DEF IInv, Domains, Living, Timing

(* Which channels a message concerns does not matter here.                 *)
LEMMA Disturbed ==
  ASSUME IInv, NEW cs, Disturb(cs)
  PROVE  messages' \in Seq(Messages) /\ Len(messages') = Len(messages)
<1>1. messages \in Seq(Messages) /\ \A m \in 1..Len(messages) : messages[m] \in Messages
  BY DEF IInv, Domains
<1>2. messages' = [m \in 1..Len(messages) |->
                     IF messages[m].ended THEN messages[m]
                     ELSE [messages[m] EXCEPT !.concerns = @ \ cs]]
  BY <1>1 DEF Disturb
<1>3. ASSUME NEW m \in 1..Len(messages)
      PROVE  messages'[m] \in Messages
  <2>1. [messages[m] EXCEPT !.concerns = @ \ cs] \in Messages
    BY <1>1 DEF Messages
  <2> QED
    BY <1>1, <1>2, <2>1
<1> QED
  BY <1>1, <1>2, <1>3, Mapped

(* Calls that leave the streams where they are keep them in place.         *)
LEMMA Unmoved ==
  ASSUME IInv, ~undefined, UNCHANGED stream,
         Len(messages') = Len(messages),
         \/ Len(channels') \in Nat /\ Len(channels') >= Len(channels)
         \/ undefined' \/ ~\E t \in Threads : InLoop(t)
  PROVE  Streaming'
<1> SUFFICES ASSUME NEW t \in Threads
             PROVE  /\ Open(t)' => stream'[t].message \in 1..Len(messages')
                    /\ stream'[t].part \in 0..EL
                    /\ stream'[t].at \in 0..(Len(channels') + 1) \/ undefined'
  BY DEF Streaming
<1>1. Open(t)' <=> Open(t)
  BY DEF Open
<1>2. /\ Open(t) => stream[t].message \in 1..Len(messages)
      /\ stream[t].part \in 0..EL
      /\ stream[t].at \in 0..(Len(channels) + 1)
      /\ Len(channels) \in Nat
  BY DEF IInv, Domains, Streaming
<1> QED
  BY <1>1, <1>2 DEF InLoop

(* A filter changes, through any pointer to a channel.                     *)
LEMMA FilterInv ==
  ASSUME IInv, NEW c \in 1..Len(objects), NEW object \in Objects,
         object.alive = objects[c].alive, Filter(c, object)
  PROVE  IInv'
<1>1. /\ ~undefined /\ changes' = changes + 1
      /\ objects' = [objects EXCEPT ![c] = object]
      /\ undefined' = ~objects[c].alive
      /\ Disturb({c})
      /\ UNCHANGED <<channels, output, stream, clockBase, named, started>>
  BY DEF Filter, Change
<1>2. messages' \in Seq(Messages) /\ Len(messages') = Len(messages)
  BY <1>1, Disturbed
<1>3. objects \in Seq(Objects) /\ Len(channels) \in Nat /\ channels' = channels
  BY <1>1 DEF IInv, Domains
<1>4. /\ objects' \in Seq(Objects) /\ Len(objects') = Len(objects)
      /\ \A d \in 1..Len(objects) : objects'[d].alive = objects[d].alive
  <2>1. /\ objects' \in Seq(Objects) /\ Len(objects') = Len(objects)
        /\ objects'[c] = object
        /\ \A d \in 1..Len(objects) : d # c => objects'[d] = objects[d]
    BY <1>1, <1>3, Changed
  <2> QED
    BY <2>1
<1>5. undefined' \in BOOLEAN
  BY <1>1, <1>3 DEF Objects
<1>6. Domains'
  BY <1>1, <1>2, <1>4, <1>5 DEF IInv, Domains
<1>7. Living'
  BY <1>1, <1>4 DEF IInv, Living
<1>8. Streaming'
  BY <1>1, <1>2, <1>3, Unmoved
<1> QED
  BY <1>1, <1>6, <1>7, <1>8 DEF IInv, Timing

LEMMA SetLevelInv ==
  ASSUME IInv, NEW c \in DOMAIN objects, NEW level \in Levels, SetLevel(c, level)
  PROVE  IInv'
<1> DEFINE object == [objects[c] EXCEPT !.level = level]
<1>1. c \in 1..Len(objects) /\ objects[c] \in Objects
  BY DEF IInv, Domains
<1>2. object \in Objects /\ object.alive = objects[c].alive
  BY <1>1 DEF Objects
<1>3. Filter(c, object)
  BY DEF SetLevel
<1> HIDE DEF object
<1> QED
  BY <1>1, <1>2, <1>3, FilterInv

LEMMA SetSilentInv ==
  ASSUME IInv, NEW c \in DOMAIN objects, NEW silent \in BOOLEAN,
         SetSilent(c, silent)
  PROVE  IInv'
<1> DEFINE object == [objects[c] EXCEPT !.silent = silent]
<1>1. c \in 1..Len(objects) /\ objects[c] \in Objects
  BY DEF IInv, Domains
<1>2. object \in Objects /\ object.alive = objects[c].alive
  BY <1>1 DEF Objects
<1>3. Filter(c, object)
  BY DEF SetSilent
<1> HIDE DEF object
<1> QED
  BY <1>1, <1>2, <1>3, FilterInv

(* A new channel is alive and in no one's way.                             *)
LEMMA AddChannelInv ==
  ASSUME IInv, AddChannel
  PROVE  IInv'
<1> DEFINE n == Len(objects) + 1
<1>1. /\ ~undefined /\ changes' = changes + 1
      /\ objects' = Append(objects, NewChannel)
      /\ output' = Append(output, <<>>)
      /\ channels' = Append(channels, n)
      /\ undefined' \in BOOLEAN
      /\ UNCHANGED <<messages, stream, clockBase, named, started>>
  BY DEF AddChannel, Change
<1>2. /\ objects \in Seq(Objects) /\ output \in Seq(Seq(Writings))
      /\ channels \in Seq(Nat) /\ n \in Nat
  BY DEF IInv, Domains
<1>3. NewChannel \in Objects /\ NewChannel.alive
  BY Bounds DEF NewChannel, Objects
<1>4. /\ objects' \in Seq(Objects) /\ Len(objects') = n
      /\ \A d \in 1..Len(objects) : objects'[d] = objects[d]
      /\ objects'[n] = NewChannel
  BY <1>1, <1>2, <1>3, AppendProperties
<1>5. output' \in Seq(Seq(Writings)) /\ Len(output') = Len(output) + 1
  <2>1. <<>> \in Seq(Writings)
    OBVIOUS
  <2> QED
    BY <1>1, <1>2, <2>1, AppendProperties
<1>6. /\ channels' \in Seq(Nat) /\ Len(channels') = Len(channels) + 1
      /\ \A k \in 1..Len(channels) : channels'[k] = channels[k]
      /\ channels'[Len(channels) + 1] = n
  BY <1>1, <1>2, AppendProperties
<1>7. Domains'
  BY <1>1, <1>4, <1>5, <1>6 DEF IInv, Domains
<1>8. Living'
  <2>1. Len(output') = Len(objects')
    BY <1>4, <1>5 DEF IInv, Living
  <2>2. ASSUME NEW k \in 1..Len(channels')
        PROVE  channels'[k] \in 1..Len(objects') /\ objects'[channels'[k]].alive
    <3>1. CASE k = Len(channels) + 1
      BY <1>2, <1>3, <1>4, <1>6, <3>1
    <3>2. CASE k # Len(channels) + 1
      <4>1. k \in 1..Len(channels) /\ channels'[k] = channels[k]
        BY <1>2, <1>6, <3>2
      <4>2. channels[k] \in 1..Len(objects) /\ objects[channels[k]].alive
        BY <4>1 DEF IInv, Living
      <4> QED
        BY <1>2, <1>4, <4>1, <4>2
    <3> QED
      BY <3>1, <3>2
  <2> QED
    BY <2>1, <2>2 DEF Living
<1>9. Streaming'
  BY <1>1, <1>2, <1>6, Unmoved
<1> QED
  BY <1>1, <1>7, <1>8, <1>9 DEF IInv, Timing

(* All channels die and leave the vector at once.                          *)
LEMMA RemoveAllChannelsInv ==
  ASSUME IInv, RemoveAllChannels
  PROVE  IInv'
<1>1. /\ ~undefined /\ changes' = changes + 1
      /\ objects' = [c \in DOMAIN objects |-> [objects[c] EXCEPT !.alive = FALSE]]
      /\ channels' = <<>>
      /\ Disturb(DOMAIN objects)
      /\ undefined' \in BOOLEAN
      /\ undefined' \/ ~\E t \in Threads : InLoop(t)
      /\ UNCHANGED <<output, stream, clockBase, named, started>>
  BY DEF RemoveAllChannels, Change, Cleared
<1>2. messages' \in Seq(Messages) /\ Len(messages') = Len(messages)
  BY <1>1, Disturbed
<1>3. objects' \in Seq(Objects) /\ Len(objects') = Len(objects)
  <2>1. /\ objects \in Seq(Objects) /\ DOMAIN objects = 1..Len(objects)
        /\ \A c \in 1..Len(objects) : objects[c] \in Objects
    BY DEF IInv, Domains
  <2>2. objects' = [c \in 1..Len(objects) |-> [objects[c] EXCEPT !.alive = FALSE]]
    BY <1>1, <2>1
  <2>3. ASSUME NEW c \in 1..Len(objects)
        PROVE  objects'[c] \in Objects
    <3>1. [objects[c] EXCEPT !.alive = FALSE] \in Objects
      BY <2>1 DEF Objects
    <3> QED
      BY <2>2, <3>1
  <2> QED
    BY <2>1, <2>2, <2>3, Mapped
<1>4. undefined' \in BOOLEAN
  BY <1>1
<1>5. Domains'
  BY <1>1, <1>2, <1>3, <1>4 DEF IInv, Domains
<1>6. Living'
  BY <1>1, <1>3 DEF IInv, Living
<1>7. Streaming'
  BY <1>1, <1>2, Unmoved
<1> QED
  BY <1>1, <1>5, <1>6, <1>7 DEF IInv, Timing

LEMMA StartInv ==
  ASSUME IInv, NEW clock \in Clocks, Start(clock)
  PROVE  IInv'
<1>1. /\ ~undefined /\ changes' = changes + 1
      /\ clockBase' = clock /\ started' = TRUE
      /\ UNCHANGED <<channels, objects, output, messages, stream, named, undefined>>
  BY DEF Start, Change
<1>2. Len(channels) \in Nat /\ channels' = channels /\ messages' = messages
  BY <1>1 DEF IInv, Domains
<1>3. Streaming'
  BY <1>1, <1>2, Unmoved
<1> QED
  BY <1>1, <1>3 DEF IInv, Domains, Living, Timing

LEMMA NextInv ==
  ASSUME IInv, [Next]_vars
  PROVE  IInv'
<1>1. CASE UNCHANGED vars
  BY <1>1 DEF vars, IInv, Domains, Living, Streaming, Timing, Open
<1>2. CASE Finished
  BY <1>1, <1>2 DEF Finished
<1>3. CASE \E t \in Threads, level \in Levels : Log(t, level)
  BY <1>3, LogInv
<1>4. CASE \E t \in Threads : Call(t) \/ Write(t) \/ Done(t)
  BY <1>4, CallInv, WriteInv, DoneInv
<1>5. CASE \E c \in DOMAIN objects, level \in Levels : SetLevel(c, level)
  BY <1>5, SetLevelInv
<1>6. CASE \E c \in DOMAIN objects, silent \in BOOLEAN : SetSilent(c, silent)
  BY <1>6, SetSilentInv
<1>7. CASE AddChannel \/ RemoveAllChannels
  BY <1>7, AddChannelInv, RemoveAllChannelsInv
<1>8. CASE \E clock \in Clocks : Start(clock)
  BY <1>8, StartInv
<1> QED
  BY <1>1, <1>2, <1>3, <1>4, <1>5, <1>6, <1>7, <1>8 DEF Next

LEMMA InvHolds == Spec => []IInv
  BY InitInv, NextInv, PTL DEF Spec
-----------------------------------------------------------------------------
(* Every stream is at a part of its message and at a place of the vector,  *)
(* and every channel in the vector has been created and has an output, as  *)
(* long as nothing undefined has happened.                                 *)
THEOREM TypeCorrect == Spec => []TypeOK
<1>1. IInv => TypeOK
  <2> SUFFICES ASSUME IInv
               PROVE  TypeOK
    OBVIOUS
  <2>1. /\ channels \in Seq(Nat) /\ objects \in Seq(Objects)
        /\ output \in Seq(Seq(Writings))
    BY DEF IInv, Domains
  <2>2. ToSet(channels) \subseteq DOMAIN objects
    BY <2>1 DEF IInv, Living, ToSet
  <2>3. DOMAIN output = DOMAIN objects
    BY <2>1 DEF IInv, Living
  <2>4. \A c \in DOMAIN objects : objects[c].level \in Levels
    <3>1. \A c \in DOMAIN objects : objects[c] \in Objects
      BY <2>1
    <3> QED
      BY <3>1 DEF Objects
  <2>5. \A t \in Threads : stream[t].message \in 0..Len(messages)
    <3>1. Closed.message = 0 /\ Len(messages) \in Nat
      BY DEF Closed, IInv, Domains
    <3> QED
      BY <3>1 DEF IInv, Streaming, Open
  <2> QED
    BY <2>2, <2>3, <2>4, <2>5 DEF IInv, Domains, Streaming, TypeOK
<1> QED
  BY <1>1, InvHolds, PTL

(* Whatever the threads do, and whenever the channels are removed, a step  *)
(* in which a stream goes on never meets a deleted channel: the loops of   *)
(* the logger itself are safe as long as the vector does not change under  *)
(* one of them.                                                            *)
THEOREM NoDeletedChannel == Spec => NoUseOfDeleted
<1>1. ASSUME IInv, [Next]_vars, NEW t \in Threads, stream'[t].at > stream[t].at
      PROVE  ~undefined'
  <2>1. ASSUME stream' = stream
        PROVE  FALSE
    BY <1>1, <2>1 DEF IInv, Domains, Places
  <2>2. ASSUME NEW u \in Threads, NEW level \in Levels, Log(u, level)
        PROVE  ~undefined'
    BY <2>2 DEF Log
  <2>3. ASSUME NEW u \in Threads, Call(u) \/ Write(u) \/ Done(u)
        PROVE  ~undefined'
    BY <1>1, <2>3, Turn DEF Call, Done
  <2>4. ASSUME NEW c \in DOMAIN objects, NEW level \in Levels, SetLevel(c, level)
        PROVE  FALSE
    BY <2>1, <2>4 DEF SetLevel, Filter
  <2>5. ASSUME NEW c \in DOMAIN objects, NEW silent \in BOOLEAN, SetSilent(c, silent)
        PROVE  FALSE
    BY <2>1, <2>5 DEF SetSilent, Filter
  <2>6. ASSUME AddChannel \/ RemoveAllChannels \/ \E clock \in Clocks : Start(clock)
        PROVE  FALSE
    BY <2>1, <2>6 DEF AddChannel, RemoveAllChannels, Start
  <2>7. ASSUME Finished \/ UNCHANGED vars
        PROVE  FALSE
    BY <2>1, <2>7 DEF Finished, vars
  <2> QED
    BY <1>1, <2>2, <2>3, <2>4, <2>5, <2>6, <2>7 DEF Next
<1>2. IInv /\ [Next]_vars =>
        [(\E t \in Threads : stream'[t].at > stream[t].at) => ~undefined']_vars
  BY <1>1
<1> QED
  BY <1>2, InvHolds, PTL DEF Spec, NoUseOfDeleted

(* In every channel and every message, a timer with a name is reported as  *)
(* elapsed only if start() has been called, for any clock readings.        *)
THEOREM TimerIsTold == Spec => ElapsedOnlyOnceStarted
<1> DEFINE Told(c) ==
      named /\ output'[c] # output[c] /\ Last(output'[c]).part = Parts =>
        (Last(output'[c]).text = "elapsed" => started)
<1>1. ASSUME IInv, [Next]_vars, NEW c \in DOMAIN output
      PROVE  Told(c)
  <2>1. ASSUME NEW t \in Threads, Write(t)
        PROVE  Told(c)
    <3>1. PICK d \in 1..Len(output), w \in Writings :
            /\ \/ output' = output
               \/ output' = [output EXCEPT ![d] = Append(output[d], w)]
            /\ w.part = Parts => w.text = Report
      BY <1>1, <2>1, Turn
    <3>2. output \in Seq(Seq(Writings)) /\ c \in 1..Len(output) /\ output[c] \in Seq(Writings)
      BY <1>1 DEF IInv, Domains
    <3>3. ASSUME output'[c] # output[c]
          PROVE  Last(output'[c]) = w
      <4>1. output'[c] = Append(output[c], w)
        BY <3>1, <3>2, <3>3
      <4> QED
        BY <3>2, <4>1, AppendProperties DEF Last
    <3>4. named /\ Report = "elapsed" => started
      BY <1>1 DEF Report, IsStarted, IInv, Timing
    <3> QED
      BY <3>1, <3>3, <3>4
  <2>2. ASSUME output'[c] = output[c]
        PROVE  Told(c)
    BY <2>2
  <2>3. ASSUME AddChannel
        PROVE  output'[c] = output[c]
    <3>1. output' = Append(output, <<>>)
      BY <2>3 DEF AddChannel
    <3>2. output \in Seq(Seq(Writings)) /\ <<>> \in Seq(Writings) /\ c \in 1..Len(output)
      BY <1>1 DEF IInv, Domains
    <3> QED
      BY <3>1, <3>2, AppendProperties
  <2>4. ASSUME NEW t \in Threads,
               (\E level \in Levels : Log(t, level)) \/ Call(t) \/ Done(t)
        PROVE  output' = output
    BY <2>4 DEF Log, Call, Done
  <2>5. ASSUME NEW d \in DOMAIN objects,
               \/ \E level \in Levels : SetLevel(d, level)
               \/ \E silent \in BOOLEAN : SetSilent(d, silent)
        PROVE  output' = output
    BY <2>5 DEF SetLevel, SetSilent, Filter
  <2>6. ASSUME \/ RemoveAllChannels
               \/ \E clock \in Clocks : Start(clock)
               \/ Finished
               \/ UNCHANGED vars
        PROVE  output' = output
    BY <2>6 DEF RemoveAllChannels, Start, Finished, vars
  <2> HIDE DEF Told
  <2> QED
    BY <1>1, <2>1, <2>2, <2>3, <2>4, <2>5, <2>6 DEF Next
<1>2. IInv /\ [Next]_vars => [\A c \in DOMAIN output : Told(c)]_vars
  BY <1>1
<1> QED
  BY <1>2, InvHolds, PTL DEF Spec, ElapsedOnlyOnceStarted
-----------------------------------------------------------------------------
(* What a channel shows of a message, its output being o.                  *)
Of(o, m) == {n \in 1..Len(o) : o[n].message = m}

(* The parts of m up to p, each once and in order.                         *)
Upto(o, m, p) ==
  /\ {o[n].part : n \in Of(o, m)} = 1..p
  /\ \A k, n \in Of(o, m) : k < n => o[k].part < o[n].part

(* What the filter of a channel keeps out.                                 *)
Quiet(object, level) == object.silent \/ object.level < level

(* Output o shows what it should of a message, at part p of it.            *)
Echoed(o, m, p, quiet) == (quiet => Of(o, m) = {}) /\ (~quiet => Upto(o, m, p))

(* The part that a stream has begun or ended at the kth channel.           *)
Reached(s, k) == IF k < s.at THEN s.part ELSE s.part - 1

(* Stream s has echoed its message, which is m, in the channels that m     *)
(* concerns, as far as it has come.                                        *)
IsEchoed(s, m, chs, objs, out) ==
  /\ ~m.ended /\ s.part >= 1
  /\ \A c \in m.concerns : \E k \in 1..Len(chs) :
       chs[k] = c /\ Echoed(out[c], s.message, Reached(s, k), Quiet(objs[c], m.level))

(* Each channel is in the vector once; nothing is shown of messages to     *)
(* come; each open message has one stream, which echoes it.                *)
Echoing ==
  /\ \A k, n \in 1..Len(channels) : channels[k] = channels[n] => k = n
  /\ \A c \in 1..Len(output) : \A n \in 1..Len(output[c]) :
       output[c][n].message \in 1..Len(messages)
  /\ \A t, u \in Threads :
       Open(t) /\ Open(u) /\ stream[t].message = stream[u].message => t = u
  /\ \A t \in Threads : Open(t) =>
       IsEchoed(stream[t], messages[stream[t].message], channels, objects, output)

(* The inductive invariant of what is shown, as long as the model goes on. *)
EchoInv == undefined \/ Echoing

(* Outputs that grow by what is not of message m.                          *)
LEMMA AppendOther ==
  ASSUME NEW o \in Seq(Writings), NEW w \in Writings, NEW m, w.message # m,
         NEW p, NEW quiet \in BOOLEAN, Echoed(o, m, p, quiet)
  PROVE  Echoed(Append(o, w), m, p, quiet)
<1> DEFINE r == Append(o, w)
<1>1. /\ Len(o) \in Nat /\ Len(r) = Len(o) + 1 /\ r[Len(o) + 1] = w
      /\ \A n \in 1..Len(o) : r[n] = o[n]
  BY AppendProperties
<1> HIDE DEF r
<1>2. Of(r, m) = Of(o, m)
  <2>1. \A n \in 1..Len(r) : n \in 1..Len(o) \/ n = Len(o) + 1
    BY <1>1
  <2>2. \A n \in 1..Len(o) : n \in 1..Len(r)
    BY <1>1
  <2> QED
    BY <1>1, <2>1, <2>2 DEF Of
<1>3. \A n \in Of(o, m) : r[n] = o[n]
  BY <1>1 DEF Of
<1>4. Upto(o, m, p) => Upto(r, m, p)
  <2>1. {r[n].part : n \in Of(o, m)} = {o[n].part : n \in Of(o, m)}
    BY <1>3
  <2> QED
    BY <1>2, <1>3, <2>1 DEF Upto
<1> QED
  BY <1>2, <1>4 DEF Echoed, r

(* The next part of m comes after the others.                              *)
LEMMA AppendPart ==
  ASSUME NEW o \in Seq(Writings), NEW w \in Writings, NEW p \in Nat, w.part = p + 1,
         Upto(o, w.message, p)
  PROVE  Upto(Append(o, w), w.message, p + 1)
<1> DEFINE r == Append(o, w)
           m == w.message
           N == Len(o)
<1>1. /\ N \in Nat /\ Len(r) = N + 1 /\ r[N + 1] = w
      /\ \A n \in 1..N : r[n] = o[n]
  BY AppendProperties
<1>2. {o[n].part : n \in Of(o, m)} = 1..p
  BY DEF Upto
<1> HIDE DEF r
<1>3. Of(r, m) = Of(o, m) \cup {N + 1}
  <2>1. \A n \in 1..(N + 1) : n \in 1..N \/ n = N + 1
    BY <1>1
  <2>2. \A n \in 1..N : n \in 1..(N + 1)
    BY <1>1
  <2>3. N + 1 \in 1..(N + 1)
    BY <1>1
  <2> QED
    BY <1>1, <2>1, <2>2, <2>3 DEF Of
<1>4. \A n \in Of(o, m) : n \in 1..N /\ r[n] = o[n] /\ o[n].part \in 1..p
  BY <1>1, <1>2 DEF Of
<1>5. {r[n].part : n \in Of(r, m)} = 1..(p + 1)
  <2>1. {r[n].part : n \in Of(r, m)} = {r[n].part : n \in Of(o, m)} \cup {r[N + 1].part}
    BY <1>3
  <2>2. {r[n].part : n \in Of(o, m)} = {o[n].part : n \in Of(o, m)}
    BY <1>4
  <2>3. 1..(p + 1) = 1..p \cup {p + 1}
    OBVIOUS
  <2> QED
    BY <1>1, <1>2, <2>1, <2>2, <2>3
<1>6. ASSUME NEW k \in Of(r, m), NEW n \in Of(r, m), k < n
      PROVE  r[k].part < r[n].part
  <2>1. k \in Of(o, m)
    BY <1>1, <1>3, <1>4, <1>6
  <2>2. CASE n \in Of(o, m)
    BY <1>4, <1>6, <2>1, <2>2 DEF Upto
  <2>3. CASE n = N + 1
    <3>1. r[n].part = p + 1
      BY <1>1, <2>3
    <3>2. r[k].part \in 1..p
      BY <1>4, <2>1
    <3> QED
      BY <3>1, <3>2
  <2> QED
    BY <1>3, <2>2, <2>3
<1> QED
  BY <1>5, <1>6 DEF Upto, r

(* A stream that stays where it is while others go on.                     *)
LEMMA EchoKept ==
  ASSUME NEW s, NEW m, NEW m2, NEW chs, NEW chs2, NEW objs, NEW objs2, NEW out, NEW out2,
         IsEchoed(s, m, chs, objs, out),
         m2.ended = m.ended, m2.level = m.level, m2.concerns \subseteq m.concerns,
         \A k \in 1..Len(chs) : k \in 1..Len(chs2) /\ chs2[k] = chs[k],
         \A c \in m2.concerns : \A p : \A q \in BOOLEAN : 
           /\ Echoed(out[c], s.message, p, q) => Echoed(out2[c], s.message, p, q)
           /\ Quiet(objs2[c], m.level) = Quiet(objs[c], m.level)
  PROVE  IsEchoed(s, m2, chs2, objs2, out2)
<1> SUFFICES ASSUME NEW c \in m2.concerns
             PROVE  \E k \in 1..Len(chs2) :
               chs2[k] = c /\ Echoed(out2[c], s.message, Reached(s, k), Quiet(objs2[c], m2.level))
  BY DEF IsEchoed
<1>1. PICK k \in 1..Len(chs) :
        chs[k] = c /\ Echoed(out[c], s.message, Reached(s, k), Quiet(objs[c], m.level))
  BY DEF IsEchoed
<1>2. Quiet(objs[c], m.level) \in BOOLEAN
  BY DEF Quiet
<1>3. Echoed(out2[c], s.message, Reached(s, k), Quiet(objs[c], m.level))
  BY <1>1, <1>2
<1> QED
  BY <1>1, <1>3
-----------------------------------------------------------------------------
(* It holds at first, and every step keeps it while nothing is undefined.  *)
LEMMA EchoInit == Init => Echoing
<1> SUFFICES ASSUME Init
             PROVE  Echoing
  OBVIOUS
<1>1. /\ Len(channels) = 1 /\ output = <<<<>>>> /\ Len(output) = 1
      /\ output[1] = <<>> /\ \A t \in Threads : ~Open(t)
  BY DEF Init, Open
<1> QED
  BY <1>1 DEF Echoing

(* Calls that add no text, open no stream and keep the vector.             *)
LEMMA EchoUnmoved ==
  ASSUME IInv, Echoing, UNCHANGED <<stream, channels, objects, output, messages>>
  PROVE  Echoing'
<1>1. \A t : Open(t)' <=> Open(t)
  BY DEF Open
<1> QED
  BY <1>1 DEF Echoing

(* A new message has not been shown anywhere.                              *)
LEMMA LogEcho ==
  ASSUME IInv, Echoing, NEW t \in Threads, NEW level \in Levels, Log(t, level)
  PROVE  Echoing'
<1> DEFINE N == Len(messages)
           new == [level |-> level, ended |-> FALSE, concerns |-> ToSet(channels)]
           p == [message |-> N + 1, part |-> 1, at |-> 0]
<1>1. /\ messages' = Append(messages, new)
      /\ stream' = [stream EXCEPT ![t] = p]
      /\ ~Open(t)
      /\ UNCHANGED <<channels, objects, output>>
  BY DEF Log
<1>2. new \in Messages /\ messages \in Seq(Messages) /\ stream \in [Threads -> Places]
  BY DEF IInv, Domains, ToSet, Messages
<1>3. new.ended = FALSE /\ new.concerns = ToSet(channels)
  OBVIOUS
<1>4. p.message = N + 1 /\ p.part = 1 /\ p.at = 0
  OBVIOUS
<1> HIDE DEF new, p
<1>5. /\ N \in Nat /\ Len(messages') = N + 1 /\ messages'[N + 1] = new
      /\ \A m \in 1..N : messages'[m] = messages[m]
  BY <1>1, <1>2, AppendProperties
<1>6. stream'[t] = p /\ \A u \in Threads : u # t => stream'[u] = stream[u]
  BY <1>1, <1>2
<1>7. ASSUME NEW u \in Threads, u # t, Open(u)'
      PROVE  /\ Open(u) /\ stream'[u] = stream[u]
             /\ stream[u].message \in 1..N
             /\ messages'[stream[u].message] = messages[stream[u].message]
  <2>1. stream'[u] = stream[u] /\ Open(u)
    BY <1>6, <1>7 DEF Open
  <2>2. stream[u].message \in 1..N
    BY <2>1 DEF IInv, Streaming
  <2> QED
    BY <1>5, <2>1, <2>2
<1>8. \A c \in 1..Len(output') : \A n \in 1..Len(output'[c]) :
        output'[c][n].message \in 1..Len(messages')
  <2>1. \A k \in 1..N : k \in 1..(N + 1)
    BY <1>5
  <2> QED
    BY <1>1, <1>5, <2>1 DEF Echoing
<1>9. IsEchoed(p, new, channels, objects, output)
  <2>1. ASSUME NEW c \in new.concerns
        PROVE  \E k \in 1..Len(channels) :
          channels[k] = c /\ Echoed(output[c], N + 1, Reached(p, k), Quiet(objects[c], new.level))
    <3>1. channels \in Seq(Nat)
      BY DEF IInv, Domains
    <3>2. PICK k \in 1..Len(channels) : channels[k] = c
      BY <1>3, <3>1 DEF ToSet
    <3>3. Reached(p, k) = 0
      BY <1>4, <3>1 DEF Reached
    <3>4. c \in 1..Len(output)
      BY <3>2 DEF IInv, Living
    <3>5. Of(output[c], N + 1) = {}
      <4>1. \A n \in 1..Len(output[c]) : output[c][n].message # N + 1
        BY <1>5, <3>4 DEF Echoing
      <4> QED
        BY <4>1 DEF Of
    <3>6. Echoed(output[c], N + 1, 0, Quiet(objects[c], new.level))
      BY <3>5 DEF Echoed, Upto
    <3> QED
      BY <3>2, <3>3, <3>6
  <2> QED
    BY <1>3, <1>4, <2>1 DEF IsEchoed
<1>10. ASSUME NEW u \in Threads, NEW v \in Threads, Open(u)', Open(v)',
              stream'[u].message = stream'[v].message
       PROVE  u = v
  <2>1. CASE u = t \/ v = t
    <3>1. \A x \in 1..N : x # N + 1
      BY <1>5
    <3> QED
      BY <1>4, <1>6, <1>7, <1>10, <2>1, <3>1
  <2>2. CASE u # t /\ v # t
    BY <1>7, <1>10, <2>2 DEF Echoing
  <2> QED
    BY <2>1, <2>2
<1>11. ASSUME NEW u \in Threads, Open(u)'
       PROVE  IsEchoed(stream'[u], messages'[stream'[u].message], channels', objects', output')
  <2>1. CASE u = t
    BY <1>1, <1>4, <1>5, <1>6, <1>9, <2>1
  <2>2. CASE u # t
    <3>1. IsEchoed(stream[u], messages[stream[u].message], channels, objects, output)
      BY <1>7, <1>11, <2>2 DEF Echoing
    <3> QED
      BY <1>1, <1>7, <1>11, <2>2, <3>1
  <2> QED
    BY <2>1, <2>2
<1> QED
  BY <1>1, <1>8, <1>10, <1>11 DEF Echoing

(* A stream goes on in its message, and no other stream moves.             *)
LEMMA OneMoves ==
  ASSUME IInv, Echoing, NEW t \in Threads, Open(t), NEW p,
         stream' = [stream EXCEPT ![t] = p],
         p = Closed \/ p.message = stream[t].message
  PROVE  /\ stream'[t] = p
         /\ \A u \in Threads : u # t /\ Open(u)' =>
              /\ Open(u) /\ stream'[u] = stream[u]
              /\ stream[u].message \in 1..Len(messages)
              /\ stream[u].message # stream[t].message
         /\ \A u, v \in Threads :
              Open(u)' /\ Open(v)' /\ stream'[u].message = stream'[v].message => u = v
<1>1. stream'[t] = p /\ \A u \in Threads : u # t => stream'[u] = stream[u]
  BY DEF IInv, Domains
<1>2. ASSUME NEW u \in Threads, u # t, Open(u)'
      PROVE  /\ Open(u) /\ stream'[u] = stream[u]
             /\ stream[u].message \in 1..Len(messages)
             /\ stream[u].message # stream[t].message
  <2>1. stream'[u] = stream[u] /\ Open(u)
    BY <1>1, <1>2 DEF Open
  <2> QED
    BY <1>2, <2>1 DEF IInv, Streaming, Echoing
<1>3. ASSUME NEW u \in Threads, NEW v \in Threads, Open(u)', Open(v)',
             stream'[u].message = stream'[v].message
      PROVE  u = v
  <2>1. Open(t)' => stream'[t].message = stream[t].message
    BY <1>1 DEF Open
  <2>2. CASE u # t /\ v # t
    BY <1>2, <1>3, <2>2 DEF Echoing
  <2>3. CASE u = t \/ v = t
    BY <1>2, <1>3, <2>1, <2>3
  <2> QED
    BY <2>2, <2>3
<1> QED
  BY <1>1, <1>2, <1>3

(* A loop that begins has not reached a channel.                           *)
LEMMA CallEcho ==
  ASSUME IInv, Echoing, NEW t \in Threads, Call(t)
  PROVE  Echoing'
<1> DEFINE s == stream[t]
           p == [s EXCEPT !.at = 1]
<1>1. /\ Open(t) /\ s.at = 0
      /\ stream' = [stream EXCEPT ![t] = p]
      /\ UNCHANGED <<channels, objects, output, messages>>
  BY DEF Call, InLoop
<1>2. /\ s \in Places /\ IsEchoed(s, messages[s.message], channels, objects, output)
  BY <1>1 DEF IInv, Domains, Echoing
<1>3. p.message = s.message /\ p.part = s.part /\ p.at = 1
  BY <1>2 DEF Places
<1> HIDE DEF p
<1>4. /\ stream'[t] = p
      /\ \A u \in Threads : u # t /\ Open(u)' => Open(u) /\ stream'[u] = stream[u]
      /\ \A u, v \in Threads :
           Open(u)' /\ Open(v)' /\ stream'[u].message = stream'[v].message => u = v
  BY <1>1, <1>3, OneMoves
<1>5. IsEchoed(p, messages[s.message], channels, objects, output)
  <2>1. \A k \in 1..Len(channels) : Reached(p, k) = Reached(s, k)
    BY <1>1, <1>3 DEF Reached
  <2> QED
    BY <1>2, <1>3, <2>1 DEF IsEchoed
<1>6. ASSUME NEW u \in Threads, Open(u)'
      PROVE  IsEchoed(stream'[u], messages'[stream'[u].message], channels', objects', output')
  <2>1. CASE u = t
    BY <1>1, <1>3, <1>4, <1>5, <2>1
  <2>2. CASE u # t
    <3>1. IsEchoed(stream[u], messages[stream[u].message], channels, objects, output)
      BY <1>4, <1>6, <2>2 DEF Echoing
    <3> QED
      BY <1>1, <1>4, <1>6, <2>2, <3>1
  <2> QED
    BY <2>1, <2>2
<1> QED
  BY <1>1, <1>4, <1>6 DEF Echoing

(* A turn of the loop gives a channel that the message concerns the part   *)
(* that is due, or nothing if its filter is against it.                    *)
LEMMA WriteEcho ==
  ASSUME IInv, Echoing, NEW t \in Threads, Write(t)
  PROVE  Echoing'
<1> DEFINE s == stream[t]
           m == messages[s.message]
           c == channels[s.at]
           w == Written(s.message, s.part)
           p == [s EXCEPT !.at = @ + 1]
           quiet == Quiet(objects[c], m.level)
<1>1. /\ ~undefined /\ s.at # 0 /\ s.at <= Len(channels)
      /\ stream' = [stream EXCEPT ![t] = p]
      /\ UNCHANGED <<channels, objects, messages>>
  BY DEF Write, InLoop
<1>2. Open(t)
  BY <1>1 DEF Open, Closed
<1>3. /\ s \in Places /\ s.message \in 1..Len(messages)
      /\ IsEchoed(s, m, channels, objects, output)
  BY <1>2 DEF IInv, Domains, Streaming, Echoing
<1>4. /\ s.at \in 1..Len(channels) /\ c \in 1..Len(output) /\ objects[c].alive
      /\ output \in Seq(Seq(Writings)) /\ output[c] \in Seq(Writings)
  <2>1. s.at \in 1..Len(channels)
    BY <1>1, <1>3 DEF Places, IInv, Domains
  <2>2. c \in 1..Len(output) /\ objects[c].alive
    BY <2>1 DEF IInv, Living
  <2> QED
    BY <2>1, <2>2 DEF IInv, Domains
<1>5. p.message = s.message /\ p.part = s.part /\ p.at = s.at + 1
  BY <1>3 DEF Places
<1>6. w.message = s.message /\ w.part = s.part /\ w \in Writings
  <2>1. s.message \in Nat /\ s.part \in Nat
    BY <1>3 DEF Places
  <2>2. Report \in {"text", "elapsed", "not started"}
    BY DEF Report
  <2> QED
    BY <2>1, <2>2 DEF Written, Writings
<1>7. output' = IF quiet THEN output ELSE [output EXCEPT ![c] = Append(output[c], w)]
  BY <1>4 DEF Write, Skips, Quiet
<1> HIDE DEF w, p
<1>8. /\ Len(output') = Len(output) /\ output' \in Seq(Seq(Writings))
      /\ \A d \in 1..Len(output) : d # c => output'[d] = output[d]
      /\ quiet => output'[c] = output[c]
      /\ ~quiet => output'[c] = Append(output[c], w)
  <2> HIDE DEF quiet
  <2>1. CASE quiet
    BY <1>4, <1>7, <2>1
  <2>2. CASE ~quiet
    <3>1. Append(output[c], w) \in Seq(Writings)
      BY <1>4, <1>6, AppendProperties
    <3>2. output' = [output EXCEPT ![c] = Append(output[c], w)]
      BY <1>7, <2>2
    <3> QED
      BY <1>4, <2>2, <3>1, <3>2, Changed
  <2> QED
    BY <2>1, <2>2
<1>9. /\ stream'[t] = p
      /\ \A u \in Threads : u # t /\ Open(u)' =>
           /\ Open(u) /\ stream'[u] = stream[u]
           /\ stream[u].message \in 1..Len(messages)
           /\ stream[u].message # s.message
      /\ \A u, v \in Threads :
           Open(u)' /\ Open(v)' /\ stream'[u].message = stream'[v].message => u = v
  BY <1>1, <1>2, <1>5, OneMoves
<1>10. quiet \in BOOLEAN
  BY DEF Quiet
<1>11. \A d \in 1..Len(output') : \A n \in 1..Len(output'[d]) :
         output'[d][n].message \in 1..Len(messages')
  <2> SUFFICES ASSUME NEW d \in 1..Len(output), NEW n \in 1..Len(output'[d])
               PROVE  output'[d][n].message \in 1..Len(messages)
    BY <1>1, <1>8
  <2> HIDE DEF quiet
  <2>1. CASE output'[d] = output[d]
    BY <2>1 DEF Echoing
  <2>2. CASE d = c /\ output'[d] = Append(output[c], w)
    <3>1. /\ Len(output'[d]) = Len(output[c]) + 1 /\ output'[d][Len(output[c]) + 1] = w
          /\ \A k \in 1..Len(output[c]) : output'[d][k] = output[c][k]
      BY <1>4, <1>6, <2>2, AppendProperties
    <3>2. Len(output[c]) \in Nat
      BY <1>4
    <3>3. n \in 1..Len(output[c]) \/ n = Len(output[c]) + 1
      BY <3>1, <3>2
    <3> QED
      BY <1>3, <1>4, <1>6, <2>2, <3>1, <3>3 DEF Echoing
  <2> QED
    BY <1>8, <1>10, <2>1, <2>2
<1>12. IsEchoed(p, m, channels, objects, output')
  <2>1. ASSUME NEW d \in m.concerns
        PROVE  \E k \in 1..Len(channels) :
          channels[k] = d /\ Echoed(output'[d], s.message, Reached(p, k), Quiet(objects[d], m.level))
    <3>1. PICK k \in 1..Len(channels) :
            channels[k] = d /\ Echoed(output[d], s.message, Reached(s, k), Quiet(objects[d], m.level))
      BY <1>3 DEF IsEchoed
    <3>2. d \in 1..Len(output)
      BY <3>1 DEF IInv, Living
    <3>3. CASE k # s.at
      <4>1. d # c
        BY <1>4, <3>1, <3>3 DEF Echoing
      <4>2. Reached(p, k) = Reached(s, k)
        <5>1. k \in Nat /\ s.at \in Nat
          BY <1>4
        <5>2. k < p.at <=> k < s.at
          BY <1>5, <3>3, <5>1
        <5> QED
          BY <1>5, <5>2 DEF Reached
      <4> QED
        BY <1>8, <3>1, <3>2, <4>1, <4>2
    <3>4. CASE k = s.at
      <4>1. d = c /\ Reached(s, k) = s.part - 1 /\ Reached(p, k) = s.part
        <5>1. s.at \in Nat /\ ~(s.at < s.at) /\ s.at < s.at + 1
          BY <1>4
        <5> QED
          BY <1>5, <3>1, <3>4, <5>1 DEF Reached
      <4>2. s.part - 1 \in Nat /\ (s.part - 1) + 1 = s.part
        BY <1>3 DEF IsEchoed, Places
      <4>3. Echoed(output[c], s.message, s.part - 1, quiet)
        BY <3>1, <4>1
      <4> HIDE DEF quiet
      <4>4. CASE quiet
        <5>1. Echoed(output'[c], s.message, s.part, quiet)
          BY <1>8, <4>3, <4>4 DEF Echoed
        <5> QED
          BY <3>1, <4>1, <5>1 DEF quiet
      <4>5. CASE ~quiet
        <5>1. Upto(output[c], w.message, s.part - 1)
          BY <1>6, <4>3, <4>5 DEF Echoed
        <5>2. Upto(Append(output[c], w), w.message, (s.part - 1) + 1)
          BY <1>4, <1>6, <4>2, <5>1, AppendPart
        <5>3. Echoed(output'[c], s.message, s.part, quiet)
          BY <1>6, <1>8, <4>2, <4>5, <5>2 DEF Echoed
        <5> QED
          BY <3>1, <4>1, <5>3 DEF quiet
      <4> QED
        BY <4>4, <4>5
    <3> QED
      BY <3>3, <3>4
  <2>2. ~m.ended /\ p.part >= 1
    BY <1>3, <1>5 DEF IsEchoed
  <2> QED
    BY <1>5, <2>1, <2>2 DEF IsEchoed
<1>13. ASSUME NEW u \in Threads, Open(u)'
       PROVE  IsEchoed(stream'[u], messages'[stream'[u].message], channels', objects', output')
  <2>1. CASE u = t
    BY <1>1, <1>5, <1>9, <1>12, <2>1
  <2>2. CASE u # t
    <3> DEFINE x == stream[u]
               n == messages[x.message]
    <3>1. /\ IsEchoed(x, n, channels, objects, output)
          /\ stream'[u] = x /\ x.message # s.message
      BY <1>9, <1>13, <2>2 DEF Echoing
    <3>2. ASSUME NEW d \in n.concerns, NEW k, NEW q \in BOOLEAN,
                 Echoed(output[d], x.message, k, q)
          PROVE  Echoed(output'[d], x.message, k, q)
      <4>1. d \in 1..Len(output)
        BY <3>1 DEF IsEchoed, IInv, Living
      <4>2. output[d] \in Seq(Writings)
        BY <1>4, <4>1
      <4>3. output'[d] = output[d] \/ output'[d] = Append(output[d], w)
        BY <1>8, <1>10, <4>1
      <4>4. w.message # x.message
        BY <1>6, <3>1
      <4>5. Echoed(Append(output[d], w), x.message, k, q)
        BY <1>6, <3>2, <4>2, <4>4, AppendOther
      <4> QED
        BY <3>2, <4>3, <4>5
    <3>3. IsEchoed(x, n, channels, objects, output')
      <4> HIDE DEF x, n
      <4> QED
        BY <3>1, <3>2, EchoKept
    <3> QED
      BY <1>1, <3>1, <3>3
  <2> QED
    BY <2>1, <2>2
<1> QED
  BY <1>1, <1>9, <1>11, <1>13 DEF Echoing

(* At the end of a loop the part has reached every channel.                *)
LEMMA DoneReached ==
  ASSUME IInv, Echoing, NEW t \in Threads, Done(t)
  PROVE  LET s == stream[t]
             m == messages[s.message]
         IN  /\ Open(t) /\ s.message \in 1..Len(messages) /\ s \in Places
             /\ ~m.ended /\ s.part >= 1
             /\ \A c \in m.concerns : \E k \in 1..Len(channels) :
                  channels[k] = c /\ Echoed(output[c], s.message, s.part, Quiet(objects[c], m.level))
<1> DEFINE s == stream[t]
           m == messages[s.message]
<1>1. s.at # 0 /\ s.at > Len(channels)
  BY DEF Done, InLoop
<1>2. Open(t)
  BY <1>1 DEF Open, Closed
<1>3. /\ s \in Places /\ s.message \in 1..Len(messages)
      /\ IsEchoed(s, m, channels, objects, output)
  BY <1>2 DEF IInv, Domains, Streaming, Echoing
<1>4. \A k \in 1..Len(channels) : Reached(s, k) = s.part
  <2>1. Len(channels) \in Nat /\ s.at \in Nat
    BY <1>3 DEF IInv, Domains, Places
  <2> QED
    BY <1>1, <2>1 DEF Reached
<1> QED
  BY <1>2, <1>3, <1>4 DEF IsEchoed

(* A message has ended, or its next part has not reached a channel.        *)
LEMMA DoneEcho ==
  ASSUME IInv, Echoing, NEW t \in Threads, Done(t)
  PROVE  Echoing'
<1> DEFINE s == stream[t]
           m == messages[s.message]
           p == After(s)
           x == [m EXCEPT !.ended = s.part = EL]
<1>1. /\ stream' = [stream EXCEPT ![t] = p]
      /\ messages' = [messages EXCEPT ![s.message] = x]
      /\ UNCHANGED <<channels, objects, output>>
  BY DEF Done
<1>2. /\ Open(t) /\ s.message \in 1..Len(messages) /\ s \in Places
      /\ ~m.ended /\ s.part >= 1
      /\ \A c \in m.concerns : \E k \in 1..Len(channels) :
           channels[k] = c /\ Echoed(output[c], s.message, s.part, Quiet(objects[c], m.level))
  BY DoneReached
<1>3. messages \in Seq(Messages) /\ m \in Messages
  BY <1>2 DEF IInv, Domains
<1>4. x \in Messages /\ x.level = m.level /\ x.concerns = m.concerns /\ x.ended = (s.part = EL)
  BY <1>3 DEF Messages
<1>5. p = Closed \/ /\ s.part # EL
                    /\ p.message = s.message /\ p.part = s.part + 1 /\ p.at = 0
  <2>1. CASE s.part = EL
    BY <2>1 DEF After
  <2>2. CASE s.part # EL
    <3>1. p = [s EXCEPT !.part = @ + 1, !.at = 0]
      BY <2>2 DEF After
    <3> QED
      BY <1>2, <2>2, <3>1 DEF Places
  <2> QED
    BY <2>1, <2>2
<1> HIDE DEF x, p
<1>6. /\ Len(messages') = Len(messages)
      /\ messages'[s.message] = x
      /\ \A n \in 1..Len(messages) : n # s.message => messages'[n] = messages[n]
  BY <1>1, <1>2, <1>3, <1>4, Changed
<1>7. /\ stream'[t] = p
      /\ \A u \in Threads : u # t /\ Open(u)' =>
           /\ Open(u) /\ stream'[u] = stream[u]
           /\ stream[u].message \in 1..Len(messages)
           /\ stream[u].message # s.message
      /\ \A u, v \in Threads :
           Open(u)' /\ Open(v)' /\ stream'[u].message = stream'[v].message => u = v
  BY <1>1, <1>2, <1>5, OneMoves
<1>8. ASSUME p # Closed
      PROVE  IsEchoed(p, x, channels, objects, output)
  <2>1. \A k \in 1..Len(channels) : Reached(p, k) = s.part
    BY <1>2, <1>5, <1>8 DEF Reached, Places
  <2>2. p.part >= 1
    BY <1>2, <1>5, <1>8 DEF Places
  <2> QED
    BY <1>2, <1>4, <1>5, <1>8, <2>1, <2>2 DEF IsEchoed
<1>9. ASSUME NEW u \in Threads, Open(u)'
      PROVE  IsEchoed(stream'[u], messages'[stream'[u].message], channels', objects', output')
  <2>1. CASE u = t
    <3>1. p # Closed
      BY <1>7, <1>9, <2>1 DEF Open
    <3> QED
      BY <1>1, <1>5, <1>6, <1>7, <1>8, <2>1, <3>1
  <2>2. CASE u # t
    <3>1. IsEchoed(stream[u], messages[stream[u].message], channels, objects, output)
      BY <1>7, <1>9, <2>2 DEF Echoing
    <3> QED
      BY <1>1, <1>6, <1>7, <1>9, <2>2, <3>1
  <2> QED
    BY <2>1, <2>2
<1> QED
  BY <1>1, <1>6, <1>7, <1>9 DEF Echoing

(* An open message no longer concerns the channels cs.                     *)
LEMMA LessConcerned ==
  ASSUME IInv, NEW cs, Disturb(cs), NEW m \in 1..Len(messages), ~messages[m].ended
  PROVE  /\ messages'[m].ended = messages[m].ended
         /\ messages'[m].level = messages[m].level
         /\ messages'[m].concerns = messages[m].concerns \ cs
<1>1. m \in DOMAIN messages /\ messages[m] \in Messages
  BY DEF IInv, Domains
<1>2. messages'[m] = [messages[m] EXCEPT !.concerns = @ \ cs]
  BY <1>1 DEF Disturb
<1> QED
  BY <1>1, <1>2 DEF Messages

(* A filter that changes is no longer of concern to an open message.       *)
LEMMA FilterEcho ==
  ASSUME IInv, Echoing, NEW c \in DOMAIN objects, NEW object, Filter(c, object)
  PROVE  Echoing'
<1>1. /\ objects' = [objects EXCEPT ![c] = object]
      /\ Disturb({c})
      /\ UNCHANGED <<channels, output, stream>>
  BY DEF Filter
<1>2. Len(messages') = Len(messages)
  BY <1>1, Disturbed
<1>3. \A d : d # c => objects'[d] = objects[d]
  BY <1>1
<1>4. \A u : Open(u)' <=> Open(u)
  BY <1>1 DEF Open
<1>5. ASSUME NEW u \in Threads, Open(u)
      PROVE  IsEchoed(stream[u], messages'[stream[u].message], channels', objects', output')
  <2> DEFINE s == stream[u]
             m == messages[s.message]
             n == messages'[s.message]
             objs == objects'
  <2>1. IsEchoed(s, m, channels, objects, output) /\ s.message \in 1..Len(messages)
    BY <1>5 DEF Echoing, IInv, Streaming
  <2>2. ~m.ended
    BY <2>1 DEF IsEchoed
  <2>3. n.ended = m.ended /\ n.level = m.level /\ n.concerns = m.concerns \ {c}
    BY <1>1, <2>1, <2>2, LessConcerned
  <2>4. \A d \in n.concerns : objs[d] = objects[d]
    BY <1>3, <2>3
  <2> HIDE DEF s, m, n, objs
  <2>5. IsEchoed(s, n, channels, objs, output)
    BY <2>1, <2>3, <2>4, EchoKept
  <2> QED
    BY <1>1, <2>5 DEF s, n, objs
<1> QED
  BY <1>1, <1>2, <1>4, <1>5 DEF Echoing

(* The new channel concerns no open message.                               *)
LEMMA AddChannelEcho ==
  ASSUME IInv, Echoing, AddChannel
  PROVE  Echoing'
<1> DEFINE N == Len(objects)
           M == Len(channels)
<1>1. /\ objects' = Append(objects, NewChannel)
      /\ output' = Append(output, <<>>)
      /\ channels' = Append(channels, N + 1)
      /\ UNCHANGED <<messages, stream>>
  BY DEF AddChannel
<1>2. /\ objects \in Seq(Objects) /\ output \in Seq(Seq(Writings)) /\ channels \in Seq(Nat)
      /\ N \in Nat /\ M \in Nat /\ Len(output) = N
      /\ \A k \in 1..M : channels[k] \in 1..N
  BY DEF IInv, Domains, Living
<1>3. /\ Len(channels') = M + 1 /\ channels'[M + 1] = N + 1
      /\ \A k \in 1..M : channels'[k] = channels[k]
  BY <1>1, <1>2, AppendProperties
<1>4. \A d \in 1..N : objects'[d] = objects[d]
  <2>1. NewChannel \in Objects
    BY Bounds DEF NewChannel, Objects
  <2> QED
    BY <1>1, <1>2, <2>1, AppendProperties
<1>5. /\ Len(output') = N + 1 /\ output'[N + 1] = <<>>
      /\ \A d \in 1..N : output'[d] = output[d]
  <2>1. <<>> \in Seq(Writings)
    OBVIOUS
  <2> QED
    BY <1>1, <1>2, <2>1, AppendProperties
<1>6. \A k, n \in 1..Len(channels') : channels'[k] = channels'[n] => k = n
  <2>1. \A k \in 1..(M + 1) : k \in 1..M \/ k = M + 1
    BY <1>2
  <2>2. \A k \in 1..M : channels[k] # N + 1
    BY <1>2
  <2> QED
    BY <1>3, <2>1, <2>2 DEF Echoing
<1>7. \A d \in 1..Len(output') : \A n \in 1..Len(output'[d]) :
        output'[d][n].message \in 1..Len(messages)
  <2> SUFFICES ASSUME NEW d \in 1..(N + 1), NEW n \in 1..Len(output'[d])
               PROVE  output'[d][n].message \in 1..Len(messages)
    BY <1>5
  <2>1. d # N + 1
    BY <1>5
  <2>2. d \in 1..N
    BY <1>2, <2>1
  <2> QED
    BY <1>2, <1>5, <2>2 DEF Echoing
<1>8. \A u : Open(u)' <=> Open(u)
  BY <1>1 DEF Open
<1>9. ASSUME NEW u \in Threads, Open(u)
       PROVE  IsEchoed(stream[u], messages[stream[u].message], channels', objects', output')
  <2> DEFINE s == stream[u]
             m == messages[s.message]
             chs == channels'
             objs == objects'
             out == output'
  <2>1. IsEchoed(s, m, channels, objects, output)
    BY <1>9 DEF Echoing
  <2>2. \A c \in m.concerns : c \in 1..N
    BY <1>2, <2>1 DEF IsEchoed
  <2>3. \A c \in m.concerns : objs[c] = objects[c] /\ out[c] = output[c]
    BY <1>4, <1>5, <2>2
  <2>4. \A k \in 1..M : k \in 1..Len(chs) /\ chs[k] = channels[k]
    BY <1>2, <1>3
  <2> HIDE DEF s, m, chs, objs, out
  <2>5. IsEchoed(s, m, chs, objs, out)
    BY <2>1, <2>3, <2>4, EchoKept
  <2> QED
    BY <2>5 DEF s, m, chs, objs, out
<1> QED
  BY <1>1, <1>6, <1>7, <1>8, <1>9 DEF Echoing

(* Nothing concerns an open message any more.                              *)
LEMMA RemoveAllChannelsEcho ==
  ASSUME IInv, Echoing, RemoveAllChannels
  PROVE  Echoing'
<1>1. /\ channels' = <<>> /\ Disturb(DOMAIN objects) /\ UNCHANGED <<output, stream>>
  BY DEF RemoveAllChannels, Cleared
<1>2. Len(messages') = Len(messages)
  BY <1>1, Disturbed
<1>3. /\ \A k \in 1..Len(channels) : channels[k] \in DOMAIN objects
      /\ \A d \in 1..Len(output) : \A n \in 1..Len(output[d]) :
           output[d][n].message \in 1..Len(messages)
  BY DEF IInv, Domains, Living, Echoing
<1>4. \A u : Open(u)' <=> Open(u)
  BY <1>1 DEF Open
<1>5. ASSUME NEW u \in Threads, Open(u)
      PROVE  IsEchoed(stream[u], messages'[stream[u].message], channels', objects', output')
  <2> DEFINE s == stream[u]
             m == messages[s.message]
             n == messages'[s.message]
  <2>1. IsEchoed(s, m, channels, objects, output) /\ s.message \in 1..Len(messages)
    BY <1>5 DEF Echoing, IInv, Streaming
  <2>2. ~m.ended /\ s.part >= 1 /\ m.concerns \subseteq DOMAIN objects
    BY <1>3, <2>1 DEF IsEchoed
  <2>3. n.ended = m.ended /\ n.concerns = {}
    BY <1>1, <2>1, <2>2, LessConcerned
  <2> QED
    BY <2>2, <2>3 DEF IsEchoed
<1> QED
  BY <1>1, <1>2, <1>3, <1>4, <1>5 DEF Echoing

LEMMA NextEcho ==
  ASSUME IInv, EchoInv, [Next]_vars
  PROVE  EchoInv'
<1> SUFFICES ASSUME ~undefined'
             PROVE  Echoing'
  BY DEF EchoInv
<1>1. CASE Finished \/ UNCHANGED vars
  <2>1. Echoing /\ UNCHANGED <<stream, channels, objects, output, messages>>
    BY <1>1 DEF Finished, vars, EchoInv
  <2> QED
    BY <2>1, EchoUnmoved
<1>2. ASSUME NEW t \in Threads, NEW level \in Levels, Log(t, level)
      PROVE  Echoing'
  BY <1>2, LogEcho DEF Log, EchoInv
<1>3. ASSUME NEW t \in Threads, Call(t) \/ Write(t) \/ Done(t)
      PROVE  Echoing'
  BY <1>3, CallEcho, WriteEcho, DoneEcho DEF Call, Write, Done, EchoInv
<1>4. ASSUME NEW c \in DOMAIN objects, NEW object, Filter(c, object)
      PROVE  Echoing'
  BY <1>4, FilterEcho DEF Filter, Change, EchoInv
<1>5. ASSUME AddChannel \/ RemoveAllChannels
      PROVE  Echoing'
  BY <1>5, AddChannelEcho, RemoveAllChannelsEcho DEF AddChannel, RemoveAllChannels, Change, EchoInv
<1>6. ASSUME NEW clock \in Clocks, Start(clock)
      PROVE  Echoing'
  BY <1>6, EchoUnmoved DEF Start, Change, EchoInv
<1> QED
  BY <1>1, <1>2, <1>3, <1>4, <1>5, <1>6 DEF Next, SetLevel, SetSilent

(* For any number of threads that write messages of any number of parts at *)
(* the same time, while channels come, go, and are filtered and muted: a   *)
(* channel that a message meets at its beginning and that is left alone    *)
(* until its end shows all of its parts, each once and in order, or, if    *)
(* its filter is against it, nothing of it.                                *)
THEOREM MessagesAreEchoed == Spec => EchoedInEveryChannel
<1> DEFINE Right(m) ==
      messages'[m].ended /\ ~messages[m].ended =>
        \A c \in messages[m].concerns :
          IF messages[m].level <= objects[c].level /\ ~objects[c].silent
          THEN Whole(c, m) ELSE Shown(c, m) = {}
<1>1. Init => IInv /\ EchoInv
  BY InitInv, EchoInit DEF EchoInv
<1>2. IInv /\ EchoInv /\ [Next]_vars => (IInv /\ EchoInv)'
  BY NextInv, NextEcho
<1>3. ASSUME IInv, EchoInv, [Next]_vars, NEW m \in DOMAIN messages
      PROVE  Right(m)
  <2>1. m \in 1..Len(messages) /\ messages \in Seq(Messages) /\ messages[m] \in Messages
    BY <1>3 DEF IInv, Domains
  <2>2. ASSUME NEW t \in Threads, Done(t), messages'[m].ended, ~messages[m].ended,
               NEW c \in messages[m].concerns
        PROVE  IF messages[m].level <= objects[c].level /\ ~objects[c].silent
               THEN Whole(c, m) ELSE Shown(c, m) = {}
    <3>1. ~undefined /\ Echoing
      BY <1>3, <2>2 DEF Done, EchoInv
    <3> DEFINE s == stream[t]
    <3>2. messages' = [messages EXCEPT ![s.message].ended = s.part = EL]
      BY <2>2 DEF Done
    <3>3. m = s.message /\ s.part = EL
      BY <2>1, <2>2, <3>2 DEF Messages
    <3>4. PICK k \in 1..Len(channels) :
            channels[k] = c /\ Echoed(output[c], m, EL, Quiet(objects[c], messages[m].level))
      BY <1>3, <2>2, <3>1, <3>3, DoneReached
    <3>5. /\ c \in 1..Len(objects) /\ objects[c] \in Objects
          /\ output[c] \in Seq(Writings)
      BY <1>3, <3>4 DEF IInv, Domains, Living
    <3>6. Quiet(objects[c], messages[m].level) <=>
            ~(messages[m].level <= objects[c].level /\ ~objects[c].silent)
      <4>1. messages[m].level \in Nat /\ objects[c].level \in Nat
        BY <2>1, <3>5, Bounds DEF Messages, Objects
      <4> QED
        BY <4>1 DEF Quiet
    <3>7. Shown(c, m) = Of(output[c], m)
      BY <3>5 DEF Shown, Of
    <3>8. Whole(c, m) <=> Upto(output[c], m, EL)
      BY <3>7 DEF Whole, Upto
    <3> QED
      BY <3>4, <3>6, <3>7, <3>8 DEF Echoed
  <2>3. ASSUME NEW cs, Disturb(cs)
        PROVE  messages'[m].ended = messages[m].ended
    BY <2>1, <2>3 DEF Disturb, Messages
  <2>4. ASSUME NEW t \in Threads, NEW level \in Levels, Log(t, level)
        PROVE  messages'[m] = messages[m]
    <3> DEFINE new == [level |-> level, ended |-> FALSE, concerns |-> ToSet(channels)]
    <3>1. messages' = Append(messages, new)
      BY <2>4 DEF Log
    <3>2. new \in Messages
      BY <1>3 DEF IInv, Domains, ToSet, Messages
    <3> HIDE DEF new
    <3> QED
      BY <2>1, <3>1, <3>2, AppendProperties
  <2>5. ASSUME NEW c \in DOMAIN objects, NEW object, Filter(c, object)
        PROVE  messages'[m].ended = messages[m].ended
    BY <2>3, <2>5 DEF Filter
  <2>6. ASSUME RemoveAllChannels
        PROVE  messages'[m].ended = messages[m].ended
    BY <2>3, <2>6 DEF RemoveAllChannels
  <2>7. ASSUME \/ \E t \in Threads : Call(t) \/ Write(t)
               \/ AddChannel
               \/ \E clock \in Clocks : Start(clock)
               \/ Finished
               \/ UNCHANGED vars
        PROVE  messages' = messages
    BY <2>7 DEF Call, Write, AddChannel, Start, Finished, vars
  <2> QED
    BY <1>3, <2>2, <2>4, <2>5, <2>6, <2>7 DEF Next, SetLevel, SetSilent
<1>4. IInv /\ EchoInv /\ [Next]_vars => [\A m \in DOMAIN messages : Right(m)]_vars
  BY <1>3
<1> QED
  BY <1>1, <1>2, <1>4, PTL DEF Spec, EchoedInEveryChannel
=============================================================================
