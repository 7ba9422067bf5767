-------------------------------- MODULE Stream --------------------------------
(***************************************************************************)
(* The event stream from the server to one window: server/stream.ts and    *)
(* the browser's EventSource, which reconnects by itself and sends the id  *)
(* of the last event it received.  What an event says does not matter: the *)
(* window takes each as a reason to load everything again.                 *)
(***************************************************************************)
EXTENDS Integers, Sequences, FiniteSets, SequencesExt, FiniteSetsExt

CONSTANTS
    Buffer,  \* bound: STREAM_BUFFER, the events kept for those who come back
    None     \* no source, no id, no issue, nothing

ASSUME BufferAssumption == Buffer \in Nat \ {0}

(* What a source is; None is not one.                                      *)
Sources ==
    [which : Int, state : {"connecting", "open", "refused"},
     id : {None} \cup [epoch : Nat, seq : Nat]]
ASSUME NoneAssumption == None \notin Sources

VARIABLES
    epoch,   \* of the server process
    seq,     \* of the last event
    buffer,  \* the last events, by their seq
    source,  \* the window's EventSource: which one, its state, the last id it received
    wire,    \* the events sent to it and not yet handled
    now,     \* the board's last change; all but `unannounced` ones have their event
    (* history *)
    gap      \* the last change of which this source is not told

streamVars == <<epoch, seq, buffer, source, wire, now, gap>>

Event(n) == [epoch |-> epoch, seq |-> n]
Attached == source # None /\ source.state = "open"

(* Can the position a client gives be honoured?  Not that of another       *)
(* process, and not one older than anything still buffered.                *)
parseLastEventId_AnyEpoch(id) == buffer = <<>> \/ id.seq >= Head(buffer) - 1
parseLastEventId(id) ==
    id.epoch = epoch /\ (buffer = <<>> \/ id.seq >= Head(buffer) - 1)

(* What a client is sent when it attaches: what it has missed, one resync  *)
(* if that is not known, and nothing if it has no position.  The code      *)
(* filters the buffer by seq > resumeFrom; its numbers rise (StreamInv of  *)
(* FormsProofs), so that what is left is a tail of it.                     *)
Resumed(id) ==
    IF id = None THEN <<>>
    ELSE IF ~parseLastEventId(id) THEN <<Event(seq)>>
    ELSE LET later == {j \in DOMAIN buffer : buffer[j] > id.seq}
             missed == IF later = {} THEN <<>> ELSE SubSeq(buffer, Min(later), Len(buffer))
         IN [i \in DOMAIN missed |-> Event(missed[i])]

attach ==
    /\ source' = [source EXCEPT !.state = "open"]
    /\ wire' = Resumed(source.id)
    /\ UNCHANGED <<epoch, seq, buffer, now, gap>>

(* A source that has never received an id has nothing to ask for later.    *)
publish ==
    /\ now' = now + 1
    /\ gap' = IF ~Attached /\ source # None /\ source.id = None THEN now + 1 ELSE gap
    /\ seq' = seq + 1
    /\ buffer' = LET all == Append(buffer, seq + 1)
                 IN IF Len(all) > Buffer THEN Tail(all) ELSE all
    /\ wire' = IF Attached THEN Append(wire, Event(seq + 1)) ELSE wire
    /\ UNCHANGED <<epoch, source>>

(* A change nobody is told of.                                             *)
unannounced ==
    /\ now' = now + 1 /\ gap' = now + 1
    /\ UNCHANGED <<epoch, seq, buffer, source, wire>>

(* The connection ends: the network, the server's timer for the session,   *)
(* or disconnect(sessionKey) at a sign-out elsewhere.                      *)
cut ==
    /\ source' = IF Attached THEN [source EXCEPT !.state = "connecting"] ELSE source
    /\ wire' = <<>>
    /\ gap' = IF wire # <<>> /\ source.id = None THEN now ELSE gap
    /\ UNCHANGED now
disconnect == Attached /\ cut /\ UNCHANGED <<epoch, seq, buffer>>

(* A new process has a new epoch and an empty buffer.                      *)
restart ==
    /\ epoch' = epoch + 1 /\ seq' = 0 /\ buffer' = <<>>
    /\ cut

(* The window closes its source, or makes a new one in its place.          *)
closeSource == source' = None /\ wire' = <<>> /\ UNCHANGED <<epoch, seq, buffer, now, gap>>
newSource(which) ==
    /\ source' = [which |-> which, state |-> "connecting", id |-> None]
    /\ wire' = <<>>
    /\ gap' = now
    /\ UNCHANGED <<epoch, seq, buffer, now>>
refuse ==
    /\ source' = [source EXCEPT !.state = "refused"]
    /\ UNCHANGED <<epoch, seq, buffer, wire, now, gap>>
receive ==
    /\ source' = [source EXCEPT !.id = Head(wire)]
    /\ wire' = Tail(wire)
    /\ UNCHANGED <<epoch, seq, buffer, now, gap>>
=============================================================================
