---------------------------- MODULE SensorIngress ----------------------------
(***************************************************************************)
(* A sensor and the ingress it reports to: the reader and sender tasks of  *)
(* linux-sensor, haproxy-sensor and docker-sensor (checkpoint, channel,    *)
(* retry buffer, flush), the batch endpoint of api/src/main.rs and         *)
(* `record_security_event` of storage/src/security_events.rs, which        *)
(* commits the sensor row and publishes it on the event backbone in two    *)
(* transactions.                                                           *)
(*                                                                         *)
(* The sensor may crash between any two steps, its source stream may end,  *)
(* connections break while the server goes on with the batch, single       *)
(* statements fail, the credential may be rotated or revoked and entries   *)
(* grow too old: the faults.  What becomes of a published event is         *)
(* EventDelivery.                                                          *)
(***************************************************************************)
EXTENDS Integers, Sequences, FiniteSets, Faults

CONSTANTS
  Kinds,          \* sensors to look at: subset of {"linux", "haproxy", "docker"}
  MaxEntries,     \* entries the source ever writes
  LineOf,         \* what each sensor can tell about each of its entries
  SecondOf,       \* the second of a Docker event
  BatchMax,       \* DEFAULT_BATCH_MAX_ITEMS
  IngressMax,     \* SECURITY_EVENT_BATCH_MAX_ITEMS
  MaxBuffered,    \* MAX_BUFFERED_RETRY
  ChannelCap,     \* CHANNEL_CAPACITY
  MaxRequests     \* batches the server is working on at once

Entries  == 1..MaxEntries
Requests == 1..MaxRequests
Lines   == [json : BOOLEAN, cursor : BOOLEAN, text : BOOLEAN, match : BOOLEAN,
            status : Int, valid : BOOLEAN]

ASSUME SizesAssumption ==
  /\ {BatchMax, IngressMax, MaxBuffered, ChannelCap} \subseteq Nat \ {0}
  /\ BatchMax <= IngressMax /\ BatchMax <= MaxBuffered
  /\ {MaxEntries, MaxRequests, MaxFaults} \subseteq Nat
ASSUME SourceAssumption ==
  /\ Kinds \subseteq {"linux", "haproxy", "docker"}
  /\ \A k \in Kinds, e \in Entries : LineOf[k][e] \in Lines
  /\ SecondOf \in [Entries -> Nat] /\ None \notin Nat
  /\ \A e, f \in Entries : e < f => SecondOf[e] <= SecondOf[f]

VARIABLES
  kind,           \* the sensor, fixed
  logged,         \* entries the source has written
  aged,           \* entries 1..aged are older than the ingress accepts
  reader,         \* the source stream: up, and the next entry it yields
  chan,           \* the bounded channel from the reader to the sender
  buffer,         \* the sender's retry buffer
  sending,        \* SenderIdle, Flushing, or the batch the sender waits for
  checkpoint,     \* the cursor file
  server,         \* per slot: step, batch, credential, item and results
  rows,           \* security_events
  copies,         \* rows of `events` per security event
  sensorRow,      \* security_sensors: enabled or revoked
  issued, held,   \* the current credential, and the one the sensor holds
  refused,        \* history: entries an answer rejected
  dropped,        \* history: entries counted in dropped_total
  passed          \* history: entries a stream opened without a checkpoint skipped

sourceVars == <<kind, logged, aged>>
sensorVars == <<reader, chan, buffer, sending, checkpoint>>
tableVars  == <<rows, copies>>
ownerVars  == <<sensorRow, issued, held>>
totals     == <<refused, dropped, passed>>
ingressVars == <<sourceVars, sensorVars, server, tableVars, ownerVars, faults, totals>>

SenderIdle == 0
Flushing   == -1
Journal    == kind \in {"linux", "haproxy"}
Free       == [step |-> "free", batch |-> <<>>, cred |-> 0, item |-> 0, results |-> <<>>]

(***************************************************************************)
(* Parsing: "queue" an event, "skip" a line, or "drop" and count it.       *)
(***************************************************************************)

\* Only failed authentications are reported.
LinuxParse(l) ==
  IF ~l.json THEN "drop"
  ELSE IF ~l.cursor THEN "skip"
  ELSE IF ~l.text THEN "drop"
  ELSE IF ~l.match THEN "skip"
  ELSE IF l.valid THEN "queue" ELSE "drop"

\* Errors and requests without a response: a status of 0..399 is not reported.
HaproxyParse(l) ==
  IF ~l.json THEN "drop"
  ELSE IF ~l.cursor THEN "skip"
  ELSE IF ~l.text THEN "drop"
  ELSE IF ~l.match \/ l.status \in 0..399 THEN "skip"
  ELSE IF l.valid THEN "queue" ELSE "drop"

\* Container, network and image lifecycle; an event without a time is skipped.
DockerParse(l) ==
  IF ~l.json THEN "drop"
  ELSE IF ~l.cursor \/ ~l.match THEN "skip"
  ELSE IF l.valid THEN "queue" ELSE "drop"

Parse(e) ==
  CASE kind = "linux"   -> LinuxParse(LineOf[kind][e])
    [] kind = "haproxy" -> HaproxyParse(LineOf[kind][e])
    [] kind = "docker"  -> DockerParse(LineOf[kind][e])

Reported == {e \in 1..logged : Parse(e) = "queue"}
Elements(s) == {s[i] : i \in DOMAIN s}

(***************************************************************************)
(* The reader task.                                                        *)
(***************************************************************************)

\* The source writes its next entry.
LogEntry ==
  /\ logged < MaxEntries
  /\ logged' = logged + 1
  /\ UNCHANGED <<kind, aged, sensorVars, server, tableVars, ownerVars, faults, totals>>

\* An entry grows older than max_past_age of the ingress.
Age ==
  /\ aged < logged /\ faults < MaxFaults
  /\ aged' = aged + 1 /\ faults' = faults + 1
  /\ UNCHANGED <<kind, logged, sensorVars, server, tableVars, ownerVars, totals>>

\* Where a stream opened at checkpoint c begins: after the journald cursor, or
\* at the second of the last Docker event; without a checkpoint it begins now.
ResumeAt(c) ==
  IF c = None THEN logged + 1
  ELSE IF Journal THEN c + 1
  ELSE CHOOSE n \in 1..(logged + 1) :
         /\ \A e \in 1..(n - 1) : SecondOf[e] < c
         /\ n <= logged => SecondOf[n] >= c

\* load_checkpoint and the start of journalctl or of the events request.
Connect ==
  /\ ~reader.up
  /\ reader' = [up |-> TRUE, next |-> ResumeAt(checkpoint)]
  /\ passed' = IF checkpoint = None
               THEN passed \cup ((1..logged) \ (Elements(chan) \cup Elements(buffer)))
               ELSE passed
  /\ UNCHANGED <<sourceVars, chan, buffer, sending, checkpoint, server, tableVars,
                 ownerVars, faults, refused, dropped>>

\* One line of the stream; a full channel holds the reader back.
ReadLine ==
  LET e == reader.next IN
  /\ reader.up /\ e <= logged
  /\ Parse(e) = "queue" => Len(chan) < ChannelCap
  /\ reader'  = [reader EXCEPT !.next = e + 1]
  /\ chan'    = IF Parse(e) = "queue" THEN Append(chan, e) ELSE chan
  /\ dropped' = IF Parse(e) = "drop" THEN dropped \cup {e} ELSE dropped
  /\ UNCHANGED <<sourceVars, buffer, sending, checkpoint, server, tableVars, ownerVars,
                 faults, refused, passed>>

\* journalctl exits, or the events response ends.
StreamEnds ==
  /\ reader.up /\ faults < MaxFaults
  /\ reader' = [reader EXCEPT !.up = FALSE]
  /\ faults' = faults + 1
  /\ UNCHANGED <<sourceVars, chan, buffer, sending, checkpoint, server, tableVars,
                 ownerVars, totals>>

(***************************************************************************)
(* The sender task.                                                        *)
(***************************************************************************)

\* rx.recv(): a full batch is flushed at once.
Receive ==
  /\ sending = SenderIdle /\ chan # <<>>
  /\ chan'    = Tail(chan)
  /\ buffer'  = Append(buffer, Head(chan))
  /\ sending' = IF Len(buffer) + 1 >= BatchMax THEN Flushing ELSE SenderIdle
  /\ UNCHANGED <<sourceVars, reader, checkpoint, server, tableVars, ownerVars, faults, totals>>

\* The flush interval; an empty buffer is left alone.
FlushTick ==
  /\ sending = SenderIdle /\ buffer # <<>>
  /\ sending' = Flushing
  /\ UNCHANGED <<sourceVars, reader, chan, buffer, checkpoint, server, tableVars, ownerVars,
                 faults, totals>>

\* Faulty variant: a journal sensor posts the whole retry buffer.
WholeBuffer == buffer

\* A journal sensor posts a bounded prefix, the Docker sensor its whole buffer.
Chunk ==
  IF Journal /\ Len(buffer) > BatchMax THEN SubSeq(buffer, 1, BatchMax) ELSE buffer

\* POST /internal/security-events/batch.
Post(r) ==
  /\ sending = Flushing /\ server[r].step = "free"
  /\ \A q \in 1..(r - 1) : server[q].step # "free"
  /\ server'  = [server EXCEPT ![r] = [step |-> "auth", batch |-> Chunk, cred |-> held,
                                       item |-> 1, results |-> <<>>]]
  /\ sending' = r
  /\ UNCHANGED <<sourceVars, reader, chan, buffer, checkpoint, tableVars, ownerVars, faults,
                 totals>>

\* The end of flush(): what exceeds the retry budget is dropped, oldest first,
\* and counted.
EndFlush(buf) ==
  LET excess == IF Len(buf) > MaxBuffered THEN Len(buf) - MaxBuffered ELSE 0 IN
  /\ sending' = SenderIdle
  /\ buffer'  = SubSeq(buf, excess + 1, Len(buf))
  /\ dropped' = dropped \cup Elements(SubSeq(buf, 1, excess))

\* No usable answer: the connection broke, the body was cut off or the status
\* was an error.  The batch stays in the buffer.
Unanswered == EndFlush(buffer) /\ UNCHANGED <<checkpoint, refused>>

Cursor(e) == IF Journal THEN e ELSE SecondOf[e]

Rejected(r) ==
  {server[r].batch[i] : i \in {j \in DOMAIN server[r].results : server[r].results[j] = "rejected"}}

\* Faulty variant: the checkpoint is taken from the end of the buffer.
AckJournalAhead(r, saved) ==
  LET rest == SubSeq(buffer, Len(server[r].batch) + 1, Len(buffer)) IN
  /\ saved
  /\ checkpoint' = Cursor(buffer[Len(buffer)])
  /\ refused' = refused \cup Rejected(r)
  /\ IF rest = <<>> THEN EndFlush(rest)
     ELSE sending' = Flushing /\ buffer' = rest /\ UNCHANGED dropped

\* A journal sensor checkpoints the acknowledged chunk, then removes it and
\* goes on; when the checkpoint cannot be written the chunk stays.
AckJournal(r, saved) ==
  LET batch == server[r].batch
      rest  == SubSeq(buffer, Len(batch) + 1, Len(buffer)) IN
  IF ~saved THEN Unanswered
  ELSE /\ checkpoint' = Cursor(batch[Len(batch)])
       /\ refused' = refused \cup Rejected(r)
       /\ IF rest = <<>> THEN EndFlush(rest)
          ELSE sending' = Flushing /\ buffer' = rest /\ UNCHANGED dropped

\* The Docker sensor clears its buffer whether or not the checkpoint was written.
AckDocker(r, saved) ==
  /\ checkpoint' = IF saved THEN Cursor(buffer[Len(buffer)]) ELSE checkpoint
  /\ refused' = refused \cup Rejected(r)
  /\ buffer' = <<>> /\ sending' = SenderIdle
  /\ UNCHANGED dropped

\* The answer arrives.
Answer(r, saved) ==
  /\ sending = r /\ server[r].step \in {"ok", "error"}
  /\ ~saved => server[r].step = "ok" /\ faults < MaxFaults
  /\ IF server[r].step = "error" THEN Unanswered
     ELSE IF Journal THEN AckJournal(r, saved) ELSE AckDocker(r, saved)
  /\ server' = [server EXCEPT ![r] = Free]
  /\ faults' = IF saved THEN faults ELSE faults + 1
  /\ UNCHANGED <<sourceVars, reader, chan, tableVars, ownerVars, passed>>

\* The connection breaks; the server may not notice.
LoseConnection(r) ==
  /\ sending = r /\ faults < MaxFaults
  /\ Unanswered
  /\ faults' = faults + 1
  /\ UNCHANGED <<sourceVars, reader, chan, server, tableVars, ownerVars, passed>>

\* The process ends and is started again, perhaps with a new credential file.
SensorCrash ==
  /\ faults < MaxFaults
  /\ reader' = [up |-> FALSE, next |-> 1] /\ chan' = <<>> /\ buffer' = <<>> /\ sending' = SenderIdle
  /\ held' \in {held, issued}
  /\ faults' = faults + 1
  /\ UNCHANGED <<sourceVars, checkpoint, server, tableVars, sensorRow, issued, totals>>

(***************************************************************************)
(* internal_security_events_batch and record_security_event.               *)
(***************************************************************************)
serverOnly == <<sourceVars, sensorVars, ownerVars, totals>>

\* authenticate_security_sensor: the row with the credential's digest, enabled
\* and not revoked.
Genuine(cred) == sensorRow = "enabled" /\ cred = issued

\* Who sends, then the size limit.
Authenticate(r) ==
  /\ server[r].step = "auth"
  /\ server' = [server EXCEPT ![r].step =
       IF Genuine(server[r].cred) /\ Len(server[r].batch) <= IngressMax
       THEN "record" ELSE "error"]
  /\ UNCHANGED <<serverOnly, tableVars, faults>>

\* The result of one item; after the last one the answer is ready.
Item(r, result) ==
  LET s == server[r] IN
  server' = [server EXCEPT ![r] = [s EXCEPT
    !.results = Append(s.results, result),
    !.item = s.item + 1,
    !.step = IF s.item = Len(s.batch) THEN "ok" ELSE "record"]]

Current(r) == server[r].batch[server[r].item]

\* process_security_event_item up to the commit of the sensor row: the clock
\* check, the insert that ignores a used dedupe_key, and for a used one whether
\* its publication is still missing.
RecordItem(r) ==
  /\ server[r].step = "record"
  /\ IF Current(r) <= aged THEN Item(r, "rejected") /\ UNCHANGED rows
     ELSE IF Current(r) \in rows /\ copies[Current(r)] > 0
     THEN Item(r, "accepted") /\ UNCHANGED rows
     ELSE /\ rows' = rows \cup {Current(r)}
          /\ server' = [server EXCEPT ![r].step = "publish"]
  /\ UNCHANGED <<serverOnly, copies, faults>>

\* publish_event under the key of the security event: the first one inserts.
\* The reputation lookup and the address resolution before it fail open.
PublishItem(r) ==
  /\ server[r].step = "publish"
  /\ copies' = [copies EXCEPT ![Current(r)] = IF @ = 0 THEN 1 ELSE @]
  /\ Item(r, "accepted")
  /\ UNCHANGED <<serverOnly, rows, faults>>

\* A statement fails: the item is rejected, the rest of the batch goes on.
StatementFails(r) ==
  /\ server[r].step \in {"record", "publish"} /\ faults < MaxFaults
  /\ Item(r, "rejected")
  /\ faults' = faults + 1
  /\ UNCHANGED <<serverOnly, tableVars>>

\* A batch nobody waits for ends, at whatever item it had come to.
Abandoned(r) ==
  /\ server[r].step # "free" /\ sending # r
  /\ server' = [server EXCEPT ![r] = Free]
  /\ UNCHANGED <<serverOnly, tableVars, faults>>

(***************************************************************************)
(* The owner of the sensor identity.                                       *)
(***************************************************************************)

\* rotate_security_sensor_credential.
Rotate ==
  /\ sensorRow = "enabled" /\ faults < MaxFaults
  /\ issued' = issued + 1 /\ faults' = faults + 1
  /\ UNCHANGED <<sourceVars, sensorVars, server, tableVars, sensorRow, held, totals>>

\* set_security_sensor_enabled(false): terminal.
Revoke ==
  /\ sensorRow = "enabled" /\ faults < MaxFaults
  /\ sensorRow' = "revoked" /\ faults' = faults + 1
  /\ UNCHANGED <<sourceVars, sensorVars, server, tableVars, issued, held, totals>>

IngressInit ==
  /\ kind \in Kinds
  /\ logged = 0 /\ aged = 0
  /\ reader = [up |-> FALSE, next |-> 1]
  /\ chan = <<>> /\ buffer = <<>> /\ sending = SenderIdle /\ checkpoint = None
  /\ server = [r \in Requests |-> Free]
  /\ rows = {} /\ copies = [e \in Entries |-> 0]
  /\ sensorRow = "enabled" /\ issued = 0 /\ held = 0 /\ faults = 0
  /\ refused = {} /\ dropped = {} /\ passed = {}

Source == LogEntry \/ Age
Reader == Connect \/ ReadLine
Sender == Receive \/ FlushTick \/ (\E r \in Requests : Post(r) \/ Answer(r, TRUE))
HandleItem(r) == Authenticate(r) \/ RecordItem(r) \/ PublishItem(r)
SensorFault ==
  \/ StreamEnds \/ SensorCrash
  \/ \E r \in Requests : LoseConnection(r) \/ Answer(r, FALSE) \/ StatementFails(r) \/ Abandoned(r)
Owner  == Rotate \/ Revoke

IngressNext ==
  Source \/ Reader \/ Sender \/ (\E r \in Requests : HandleItem(r)) \/ SensorFault \/ Owner
IngressSpec == IngressInit /\ [][IngressNext]_ingressVars

\* The tasks of a running sensor and of the server go on; a batch nobody waits
\* for leaves its slot.
IngressFairSpec ==
  /\ IngressSpec /\ WF_ingressVars(Reader) /\ WF_ingressVars(Sender)
  /\ \A r \in Requests : WF_ingressVars(HandleItem(r)) /\ WF_ingressVars(Abandoned(r))

(***************************************************************************)
(* Properties.                                                             *)
(***************************************************************************)

\* Types, and the bounds of the channel, of the retry buffer (one more while
\* it is being flushed) and of what a journal sensor posts.
IngressTypeOK ==
  /\ kind \in Kinds /\ logged \in 0..MaxEntries /\ aged \in 0..logged
  /\ reader.up \in BOOLEAN /\ reader.next \in 1..(logged + 1)
  /\ Len(chan) <= ChannelCap /\ Elements(chan) \cup Elements(buffer) \subseteq Reported
  /\ Len(buffer) <= MaxBuffered + (IF sending = SenderIdle THEN 0 ELSE 1)
  /\ \/ sending \in {SenderIdle, Flushing}
     \/ \E r \in Requests : sending = r /\ server[r].step # "free"
  /\ Journal => \A r \in Requests : Len(server[r].batch) <= BatchMax
  /\ rows \subseteq Reported /\ \A e \in Entries : copies[e] > 0 => e \in rows

Handled(e) == copies[e] > 0 \/ e \in refused \cup dropped

\* An entry no stream opened at the checkpoint would yield again.
Behind(e) == checkpoint # None /\ (IF Journal THEN e <= checkpoint ELSE SecondOf[e] < checkpoint)

\* No event is skipped in silence: one the checkpoint lies behind, and one a
\* running sensor neither queues nor will read, is on the backbone, was
\* rejected by an answer or counted as dropped - whatever crashes, broken
\* connections and stream restarts came between.  Only a stream that was opened
\* without a checkpoint passes over entries.
NoSilentLoss ==
  \A e \in Reported \ passed :
    /\ Behind(e) => Handled(e)
    /\ reader.up /\ e < reader.next =>
         Handled(e) \/ e \in Elements(chan) \cup Elements(buffer)

\* A resubmission after a crash or a broken connection, concurrent with the
\* batch the server is still working on, never publishes an event twice.
PublishedOnce == \A e \in Entries : copies[e] <= 1

\* Every event is accounted for: in one place, and published once.
Accounted == IngressTypeOK /\ NoSilentLoss /\ PublishedOnce

\* An event a journal sensor read is settled in the end, unless the sensor's
\* credential was taken away.
Settled(e) == Handled(e) \/ e \in passed \/ sensorRow = "revoked" \/ held # issued
Drains == \A e \in Entries : (Journal /\ e \in Reported) ~> Settled(e)

\* The same for the Docker sensor.
DockerDrains == \A e \in Entries : (kind = "docker" /\ e \in Reported) ~> Settled(e)

\* A sensor row whose publication failed is still going to be submitted again.
Repairable ==
  \A e \in rows :
    \/ copies[e] > 0 \/ ~Behind(e)
    \/ e \in Elements(chan) \cup Elements(buffer)
    \/ \E r \in Requests : e \in Elements(server[r].batch)
=============================================================================
