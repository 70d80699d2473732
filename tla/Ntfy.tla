-------------------------------- MODULE Ntfy --------------------------------
(***************************************************************************)
(* The ntfy listener (src/krzykacz/ntfy.py): it connects, handles the      *)
(* lines of the stream one by one, and after any failure waits and         *)
(* connects again.  The server keeps nothing for it: what is published     *)
(* while there is no stream is gone, and so is what a stream that breaks   *)
(* had not handed over.                                                    *)
(***************************************************************************)
EXTENDS Parsing

CONSTANTS
    Lines,       \* the lines the server may send
    MaxLines,    \* bound: lines published
    MaxBackoff   \* MAX_BACKOFF_S

ASSUME NtfyAssumption ==
    /\ MaxBackoff \in Nat \ {0}
    /\ MaxLines \in Nat
    /\ MaxContent \in Nat

\* A tag with a key has a value, and the keys are texts.
ASSUME LinesAssumption ==
    /\ None \notin Keys
    /\ \A l \in Lines :
          /\ l.kind \in {"blank", "junk", "bytes", "event", "message"}
          /\ l.body = None \/ l.body \in Seq(Nat)
          /\ \/ l.tags = None
             \/ /\ l.tags \in Seq(Range(l.tags))
                /\ \A t \in Range(l.tags) : t.key # None => t.value # None

VARIABLES
    feed,       \* what was published, in order: each line and what became of it
    wire,       \* the positions in feed that the stream has yet to hand over
    link,       \* where listen() stands
    backoff,    \* backoff, in seconds
    submitted   \* the envelopes passed to Announcer.submit

nvars == <<feed, wire, link, backoff, submitted>>

Fates == {"wire", "submitted", "skipped", "fatal", "missed", "lost"}

NTypeOK ==
    /\ feed \in Seq([line : Lines, fate : Fates])
    /\ wire \in Seq(DOMAIN feed)
    /\ link \in {"connecting", "streaming", "waiting"}
    /\ backoff \in 1..MaxBackoff
    /\ Len(submitted) <= Len(feed)

NInit ==
    /\ feed = <<>>
    /\ wire = <<>>
    /\ link = "connecting"
    /\ backoff = 1
    /\ submitted = <<>>

Becomes(i, fate) == feed' = [feed EXCEPT ![i].fate = fate]

-----------------------------------------------------------------------------
(* The server.                                                             *)

Publish(l) ==
    /\ Len(feed) < MaxLines
    /\ IF link = "streaming"
       THEN /\ feed' = Append(feed, [line |-> l, fate |-> "wire"])
            /\ wire' = Append(wire, Len(feed'))
       ELSE /\ feed' = Append(feed, [line |-> l, fate |-> "missed"])
            /\ UNCHANGED wire
    /\ UNCHANGED <<link, backoff, submitted>>

-----------------------------------------------------------------------------
(* listen().                                                               *)

\* The server answers, with a status that raise_for_status accepts.
Connect ==
    /\ link = "connecting"
    /\ link' = "streaming"
    /\ backoff' = 1
    /\ UNCHANGED <<feed, wire, submitted>>

ConnectFails ==
    /\ link = "connecting"
    /\ link' = "waiting"
    /\ UNCHANGED <<feed, wire, backoff, submitted>>

\* What the stream had still to hand over goes with it.
Dropped(f) ==
    [i \in DOMAIN f |-> IF f[i].fate = "wire" THEN [f[i] EXCEPT !.fate = "lost"] ELSE f[i]]

TearDown(f) ==
    /\ link' = "waiting"
    /\ wire' = <<>>
    /\ feed' = Dropped(f)

\* The connection breaks, times out after 90 idle seconds, or ends.
StreamEnds ==
    /\ link = "streaming"
    /\ TearDown(feed)
    /\ UNCHANGED <<backoff, submitted>>

\* Mutant: doubled before the limit is looked at.
LongerUnbounded == IF backoff < MaxBackoff THEN backoff * 2 ELSE backoff

Longer == IF backoff * 2 < MaxBackoff THEN backoff * 2 ELSE MaxBackoff

Wait ==
    /\ link = "waiting"
    /\ link' = "connecting"
    /\ backoff' = Longer
    /\ UNCHANGED <<feed, wire, submitted>>

-----------------------------------------------------------------------------
(* _handle_line.  A line is junk that is no JSON, bytes that are no text,  *)
(* another event, or a message with a body and tags.  Tags may be missing  *)
(* or not be a list at all, and a body may be missing or not be a text.    *)

IsMessage(l) == l.kind = "message"
NoBody(l) == l.body = <<>>
HasReplay(l) == l.tags # None /\ "replay" \in DOMAIN ParseTags(l.tags)
Parses(l) == l.tags # None /\ ~ParseRaises(l.body, l.tags)

\* Before its try block: json.loads cannot decode the line, parse_tags
\* cannot go through the tags of an empty message, preview needs a text.
Raises(l) ==
    \/ l.kind = "bytes"
    \/ /\ IsMessage(l)
       /\ \/ NoBody(l) /\ l.tags = None
          \/ l.body = None

\* Blank lines, no JSON, other events, nothing to say, and messages that
\* parse cannot take.
Skips(l) ==
    \/ l.kind \in {"blank", "junk", "event"}
    \/ /\ IsMessage(l)
       /\ \/ NoBody(l) /\ l.tags # None /\ ~HasReplay(l)
          \/ ~NoBody(l) /\ l.body # None /\ ~Parses(l)

Reading(i) == link = "streaming" /\ wire # <<>> /\ i = Head(wire)

SkipLine(i) ==
    /\ Reading(i)
    /\ Skips(feed[i].line)
    /\ Becomes(i, "skipped")
    /\ wire' = Tail(wire)
    /\ UNCHANGED <<link, backoff, submitted>>

\* Mutant: the line is tried again.
LineRaisesRetried(i) ==
    /\ Reading(i)
    /\ Raises(feed[i].line)
    /\ UNCHANGED nvars

\* Mutant: listen() catches only errors of the connection.
LineRaisesUncaught(i) ==
    /\ Reading(i)
    /\ Raises(feed[i].line)
    /\ link' = "ended"
    /\ UNCHANGED <<feed, wire, backoff, submitted>>

\* The exception leaves the loop over the stream, and the stream with it.
LineRaises(i) ==
    /\ Reading(i)
    /\ Raises(feed[i].line)
    /\ TearDown([feed EXCEPT ![i].fate = "fatal"])
    /\ UNCHANGED <<backoff, submitted>>

SubmitLine(i) ==
    LET l == feed[i].line
    IN  /\ Reading(i)
        /\ ~Raises(l)
        /\ ~Skips(l)
        /\ submitted' = Append(submitted, Parse(l.body, l.tags))
        /\ Becomes(i, "submitted")
        /\ wire' = Tail(wire)
        /\ UNCHANGED <<link, backoff>>

HandleLine == \E i \in DOMAIN feed : SkipLine(i) \/ LineRaises(i) \/ SubmitLine(i)

\* The process dies and is started again.
Restart ==
    /\ link' = "connecting"
    /\ backoff' = 1
    /\ wire' = <<>>
    /\ feed' = Dropped(feed)
    /\ UNCHANGED submitted

NNext ==
    \/ \E l \in Lines : Publish(l)
    \/ Connect \/ ConnectFails \/ StreamEnds \/ Wait
    \/ HandleLine
    \/ Restart

NSpec == NInit /\ [][NNext]_nvars

\* The listener is a thread that is scheduled, its sleeps end, and of its
\* attempts to connect not all fail for ever.  Nothing makes the server
\* publish, and nothing keeps a connection from breaking.
NFairness ==
    /\ WF_nvars(Wait)
    /\ WF_nvars(HandleLine)
    /\ WF_nvars(Connect \/ ConnectFails)
    /\ SF_nvars(Connect)

NFairSpec == NSpec /\ NFairness

-----------------------------------------------------------------------------
\* What the announcer is given is what was published, in that order, each
\* line at most once, across broken streams and restarts, and each envelope
\* asks for what its line asked for (ntfy.py:44-68, protocol.py:215-258).
SubmittedAsAsked ==
    \E of \in [DOMAIN submitted -> DOMAIN feed] :
        /\ \A k, l \in DOMAIN submitted : k < l => of[k] < of[l]
        /\ Range(of) = {i \in DOMAIN feed : feed[i].fate = "submitted"}
        /\ \A k \in DOMAIN submitted :
              LET l == feed[of[k]].line
              IN  IsAsAsked(submitted[k], l.body, l.tags)

\* Whatever a line holds and however often the connection fails, the
\* listener gets a stream again (ntfy.py:34-41).
KeepsListening == []<>(link = "streaming")

Owed(i) == i \in DOMAIN feed /\ feed[i].fate = "wire"

\* A line that the stream has taken is handled or goes down with its stream:
\* no line is stuck behind another (ntfy.py:30-33).
LinesAreHandled == \A i \in 1..MaxLines : Owed(i) ~> ~Owed(i)

\* "Out-of-range values are clamped rather than rejected" (protocol.py:39-40).
\* The code does not keep this: a knob of "nan" passes through both
\* comparisons.
KnobsInRange == \A i \in DOMAIN submitted : KnobsClamped(submitted[i])
=============================================================================
