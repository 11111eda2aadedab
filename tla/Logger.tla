------------------------------- MODULE Logger -------------------------------
(***************************************************************************)
(* The logger and the timer of the common library (src/Common/src): some   *)
(* threads log messages, each part of a message in a loop over the         *)
(* channels of the logger, while channels are added, removed, muted and    *)
(* filtered and the timer that is the last part of each message is         *)
(* started.  Nothing is locked.                                            *)
(*                                                                         *)
(* A channel, as a message, is the number of its object.  What is written  *)
(* to it at once is not cut; a vector that changes under a loop, or a use  *)
(* of a deleted object, is the end of the model (undefined).               *)
(***************************************************************************)
EXTENDS Naturals, Sequences, FiniteSets, SequencesExt

CONSTANTS Threads,
          Levels,       \* the levels of messages and filters; ERR is 0
          Clocks,       \* what clock() may return, or an uninitialised clock_t
          Parts,        \* the parts of a message, beginning with its time
          MaxMessages, MaxChannels, MaxChanges  \* bounds

(* The lowest severity.                                                    *)
L3 == 4

ASSUME LoggerAssumption ==
  /\ L3 \in Levels /\ Levels \subseteq 0..L3
  /\ Clocks \subseteq Nat /\ Clocks \cap {0} # Clocks
  /\ {Parts, MaxMessages, MaxChannels, MaxChanges} \subseteq Nat \ {0}

VARIABLES
  channels,    \* _channels, the vector
  objects,     \* every Channel created: its filter and whether it is alive
  output,      \* for each channel, what has been written to it
  messages,    \* every Stream created: its level and whom it concerns
  stream,      \* for each thread, its open stream and its place in the loop
  clockBase,   \* of the timer
  named,       \* the timer was made by Timer(name)
  started,     \* start() has been called (observer)
  changes,     \* how many calls have been made beside the messages
  undefined

vars == <<channels, objects, output, messages, stream, clockBase, named,
          started, changes, undefined>>

NewChannel == [level |-> L3, silent |-> FALSE, alive |-> TRUE]

Closed == [message |-> 0, part |-> 0, at |-> 0]

EL == Parts + 1

(* Operators named Mut... are plausible bugs of the definition that follows *)
(* them; no specification uses them.                                       *)

(* No constructor sets the clock.                                          *)
MutConstructed(isNamed) == Clocks

(* Timer() sets the clock of another timer, not its own.                   *)
Constructed(isNamed) == IF isNamed THEN {0} ELSE Clocks

Init ==
  /\ channels = <<1>>
  /\ objects = <<NewChannel>>
  /\ output = <<<<>>>>
  /\ messages = <<>>
  /\ stream = [t \in Threads |-> Closed]
  /\ named \in BOOLEAN
  /\ clockBase \in Constructed(named)
  /\ started = FALSE
  /\ changes = 0
  /\ undefined = FALSE

Open(t)   == stream[t] # Closed
InLoop(t) == stream[t].at # 0
-----------------------------------------------------------------------------
(* Messages.                                                               *)

(* new Stream: concerns are the channels that stay as they are, with their *)
(* filters, until the message has ended (observer).                        *)
Log(t, level) ==
  /\ ~undefined /\ ~Open(t)
  /\ Len(messages) < MaxMessages
  /\ messages' = Append(messages,
       [level |-> level, ended |-> FALSE, concerns |-> ToSet(channels)])
  /\ stream' = [stream EXCEPT ![t] = [message |-> Len(messages) + 1,
                                      part |-> 1, at |-> 0]]
  /\ UNCHANGED <<channels, objects, output, clockBase, named, started, changes,
                 undefined>>

(* The beginning of a loop over the channels.                              *)
Call(t) ==
  /\ ~undefined /\ Open(t) /\ ~InLoop(t)
  /\ stream' = [stream EXCEPT ![t].at = 1]
  /\ UNCHANGED <<channels, objects, output, messages, clockBase, named, started,
                 changes, undefined>>

(* Levels are compared the wrong way round.                                *)
MutSkips(c, level) == objects[c].silent \/ objects[c].level > level

Skips(c, level) == objects[c].silent \/ objects[c].level < level

(* Timer::isStarted                                                        *)
IsStarted == clockBase # 0

(* Timer::printToStream                                                    *)
Report == IF IsStarted THEN "elapsed" ELSE "not started"

Written(m, part) ==
  [message |-> m, part |-> part, text |-> IF part = Parts THEN Report ELSE "text"]

(* One turn of the loop.                                                   *)
Write(t) ==
  /\ ~undefined /\ InLoop(t)
  /\ stream[t].at <= Len(channels)
  /\ LET s == stream[t]
         c == channels[s.at]
     IN  IF objects[c].alive
         THEN /\ output' = IF Skips(c, messages[s.message].level) THEN output
                           ELSE [output EXCEPT
                                   ![c] = Append(@, Written(s.message, s.part))]
              /\ UNCHANGED undefined
         ELSE /\ undefined' = TRUE
              /\ UNCHANGED output
  /\ stream' = [stream EXCEPT ![t].at = @ + 1]
  /\ UNCHANGED <<channels, objects, messages, clockBase, named, started, changes>>

(* The stream is not deleted by EL.                                        *)
MutAfter(s) == [s EXCEPT !.part = @ + 1, !.at = 0]

After(s) == IF s.part = EL THEN Closed ELSE [s EXCEPT !.part = @ + 1, !.at = 0]

(* The end of the loop; that of EL deletes the stream.                     *)
Done(t) ==
  /\ ~undefined /\ InLoop(t)
  /\ stream[t].at > Len(channels)
  /\ stream' = [stream EXCEPT ![t] = After(@)]
  /\ messages' = [messages EXCEPT ![stream[t].message].ended =
                    stream[t].part = EL]
  /\ UNCHANGED <<channels, objects, output, clockBase, named, started, changes,
                 undefined>>
-----------------------------------------------------------------------------
(* Other calls.                                                            *)

Change == ~undefined /\ changes < MaxChanges /\ changes' = changes + 1

(* The messages that are open no longer concern these channels.            *)
Disturb(cs) ==
  messages' = [m \in DOMAIN messages |->
                 IF messages[m].ended THEN messages[m]
                 ELSE [messages[m] EXCEPT !.concerns = @ \ cs]]

(* A call through the pointer that addChannel or, for the first channel,   *)
(* getDefaultChannel returned; the latter stays when the channel is deleted.*)
Filter(c, object) ==
  /\ Change
  /\ c = 1 \/ objects[c].alive
  /\ objects' = [objects EXCEPT ![c] = object]
  /\ undefined' = ~objects[c].alive
  /\ Disturb({c})
  /\ UNCHANGED <<channels, output, stream, clockBase, named, started>>

SetLevel(c, level)   == Filter(c, [objects[c] EXCEPT !.level = level])
SetSilent(c, silent) == Filter(c, [objects[c] EXCEPT !.silent = silent])

AddChannel ==
  /\ Change
  /\ Len(objects) < MaxChannels
  /\ objects' = Append(objects, NewChannel)
  /\ output' = Append(output, <<>>)
  /\ channels' = Append(channels, Len(objects) + 1)
  /\ undefined' = \E t \in Threads : InLoop(t)
  /\ UNCHANGED <<messages, stream, clockBase, named, started>>

(* The vector is not cleared.                                              *)
MutCleared == channels

Cleared == <<>>

(* The channels are deleted in a loop and the vector is cleared after it:  *)
(* another thread may come between the two and use one that is deleted.    *)
RemoveAllChannels ==
  /\ Change
  /\ objects' = [c \in DOMAIN objects |-> [objects[c] EXCEPT !.alive = FALSE]]
  /\ channels' = Cleared
  /\ Disturb(DOMAIN objects)
  /\ \/ undefined' = \E t \in Threads : InLoop(t)
     \/ undefined' = TRUE /\ channels # <<>>
  /\ UNCHANGED <<output, stream, clockBase, named, started>>

(* Timer::start                                                            *)
Start(clock) ==
  /\ Change
  /\ clockBase' = clock
  /\ started' = TRUE
  /\ UNCHANGED <<channels, objects, output, messages, stream, named, undefined>>

Finished ==
  /\ \/ undefined
     \/ Len(messages) = MaxMessages /\ \A t \in Threads : ~Open(t)
  /\ UNCHANGED vars

Next == \/ \E t \in Threads, level \in Levels : Log(t, level)
        \/ \E t \in Threads : Call(t) \/ Write(t) \/ Done(t)
        \/ \E c \in DOMAIN objects, level \in Levels : SetLevel(c, level)
        \/ \E c \in DOMAIN objects, silent \in BOOLEAN : SetSilent(c, silent)
        \/ AddChannel \/ RemoveAllChannels
        \/ \E clock \in Clocks : Start(clock)
        \/ Finished

Spec == Init /\ [][Next]_vars
-----------------------------------------------------------------------------
TypeOK ==
  /\ ToSet(channels) \subseteq DOMAIN objects
  /\ DOMAIN output = DOMAIN objects
  /\ \A c \in DOMAIN objects : objects[c].level \in Levels
  /\ \A t \in Threads : /\ stream[t].message \in 0..Len(messages)
                        /\ stream[t].part \in 0..EL
                        /\ stream[t].at \in 0..(Len(channels) + 1) \/ undefined
  /\ clockBase \in Clocks \cup {0}

(* Where in a channel message m stands, and all of its parts, each once    *)
(* and in order.                                                           *)
Shown(c, m) == {n \in DOMAIN output[c] : output[c][n].message = m}

Whole(c, m) ==
  /\ {output[c][n].part : n \in Shown(c, m)} = 1..EL
  /\ \A k, n \in Shown(c, m) : k < n => output[c][k].part < output[c][n].part

(* Whatever other messages are written meanwhile, a message is echoed in   *)
(* each channel that is there, with the same filter, from its beginning to *)
(* its end: every part once, in order, with one end of line, if it is      *)
(* severe enough for the channel and the channel is not mute, and nothing  *)
(* of it otherwise.  Channels that come or change meanwhile may show parts.*)
EchoedInEveryChannel ==
  [][\A m \in DOMAIN messages : messages'[m].ended /\ ~messages[m].ended =>
       \A c \in messages[m].concerns :
         IF messages[m].level <= objects[c].level /\ ~objects[c].silent
         THEN Whole(c, m) ELSE Shown(c, m) = {}]_vars

(* A stream has only a reference to the vector, so a message that is still *)
(* open when removeAllChannels returns is not written to a deleted one:    *)
(* only a call that overlaps the removal, or one through the pointer to    *)
(* the default channel, uses an object that the logger has deleted.        *)
NoUseOfDeleted ==
  [][(\E t \in Threads : stream'[t].at > stream[t].at) => ~undefined']_vars

(* No message, however its parts and the calls of start() come in turn,    *)
(* reports a timer with a name as elapsed that has not been started.       *)
ElapsedOnlyOnceStarted ==
  [][\A c \in DOMAIN output :
       named /\ output'[c] # output[c] /\ Last(output'[c]).part = Parts =>
         (Last(output'[c]).text = "elapsed" => started)]_vars
-----------------------------------------------------------------------------
(* What the repository says of the program and the code does not do.       *)

(* Timer.h on isStarted(): "Determines wheather timer is started or not",  *)
(* and true is returned "if the timer is started".  It is so of every      *)
(* timer that has been started, whatever the clock read then.              *)
SaysStartedOnceStarted == started => IsStarted
=============================================================================
