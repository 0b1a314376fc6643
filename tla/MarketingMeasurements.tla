------------------------ MODULE MarketingMeasurements ------------------------
(***************************************************************************)
(* The measurements of one Google or Meta account                          *)
(* (server/integrations/marketing-routes.ts, and their approval in         *)
(* app/api/v1/integrations/route.ts): what is selected, sampled, reviewed  *)
(* and refreshed, while the account may be authorized again or             *)
(* disconnected.                                                           *)
(*                                                                         *)
(* Abstractions.  The account is connected at first.  Its credentials and  *)
(* the Business Profile, which stores no measurements, are left out.  The  *)
(* measurements of a resource are known by the sync that wrote them, one   *)
(* record for each resource: the code compares numbers of records, and the *)
(* numbers of two samples may be equal.  Two syncs do not complete in the  *)
(* same second.                                                            *)
(***************************************************************************)
EXTENDS Naturals, FiniteSets

CONSTANTS Resources,
          Syncs,    \* requests to sync
          Editors,  \* requests that select resources or authorize again
          Clerks,   \* requests that approve or exclude
          NoSync,   \* no sync, no lease owner
          MaxLapses \* bound: evictions, stalls past a lease, and decisions that
                    \* come between a request's reading and its lease

ASSUME MeasureAssumption ==
    /\ NoSync \notin Syncs \cup Editors /\ Syncs \cap Editors = {}
    /\ IsFiniteSet(Resources) /\ MaxLapses \in Nat

VARIABLES
    channel,  \* the integration_connections row
    chosen,   \* the selections: the version they were made with, and of what
    measured, \* measured[r]: whose measurements of r are stored
    syncRun,  \* syncRun[x]: the integration_sync_runs row
    syncJob,  \* syncJob[x]: a sync's step and locals
    editor,   \* editor[e]: a step and locals
    clerk,    \* clerk[c]: a step and locals
    reviewed, \* history: the sample whose approval stands
    lapses

measureVars == << channel, chosen, measured, syncRun, syncJob, editor, clerk, reviewed, lapses >>

Edition == Nat \* resource_selection_version
Leaseholders == Syncs \cup Editors
Maybe == Syncs \cup {NoSync}

Selections == [made : Edition, of : SUBSET Resources]
ChannelRows ==
    [status : {"connected", "revoked"}, promotion : {"staging", "approved", "blocked"},
     version : Edition, lastSync : Maybe, error : BOOLEAN,
     owner : Leaseholders \cup {NoSync}, live : BOOLEAN, term : Nat]
SyncRuns ==
    [status : {"none", "running", "completed", "failed"}, mode : {"sample", "incremental"},
     version : Edition, warned : BOOLEAN, staged : Nat]
SyncLocals ==
    [pc : {"idle", "read", "leased", "begun", "fetched", "writing", "written", "completed",
           "published", "failed", "half", "releasing", "ended", "dead"},
     mode : {"sample", "incremental"}, version : Edition, from : Selections,
     todo : SUBSET Resources, begun : BOOLEAN]
EditorLocals ==
    [pc : {"idle", "read", "leased", "releasing", "ended", "dead"},
     kind : {"replace", "authorize"}, version : Edition]
ClerkLocals ==
    [pc : {"idle", "approving", "reviewed", "excluding", "ended"},
     term : Nat, version : Edition, lastSync : Maybe]

MeasureTypeOK ==
    /\ channel \in ChannelRows /\ chosen \in Selections
    /\ measured \in [Resources -> Maybe]
    /\ syncRun \in [Syncs -> SyncRuns] /\ syncJob \in [Syncs -> SyncLocals]
    /\ editor \in [Editors -> EditorLocals] /\ clerk \in [Clerks -> ClerkLocals]
    /\ reviewed \in Maybe
    /\ lapses \in 0..MaxLapses

NoneChosen == [made |-> 0, of |-> {}]
NoSyncRun == [status |-> "none", mode |-> "sample", version |-> 0, warned |-> FALSE, staged |-> 0]
NewSync == [pc |-> "idle", mode |-> "sample", version |-> 0, from |-> NoneChosen,
            todo |-> {}, begun |-> FALSE]

MeasureInit ==
    /\ channel = [status |-> "connected", promotion |-> "staging", version |-> 0,
                  lastSync |-> NoSync, error |-> FALSE, owner |-> NoSync, live |-> FALSE,
                  term |-> 0]
    /\ chosen \in [made : {0}, of : SUBSET Resources]
    /\ measured = [r \in Resources |-> NoSync]
    /\ syncRun = [x \in Syncs |-> NoSyncRun]
    /\ syncJob = [x \in Syncs |-> NewSync]
    /\ editor = [e \in Editors |-> [pc |-> "idle", kind |-> "replace", version |-> 0]]
    /\ clerk = [c \in Clerks |-> [pc |-> "idle", term |-> 0, version |-> 0, lastSync |-> NoSync]]
    /\ reviewed = NoSync /\ lapses = 0

Lapse == lapses < MaxLapses /\ lapses' = lapses + 1

-----------------------------------------------------------------------------
(* The row's lease, as in connection.ts.                                   *)

Leasable == channel.owner = NoSync \/ ~channel.live
Leased(p) == [channel EXCEPT !.owner = p, !.live = TRUE, !.term = @ + 1]
Unlease(p) ==
    channel' = IF channel.owner = p
               THEN [channel EXCEPT !.owner = NoSync, !.live = FALSE] ELSE channel

-----------------------------------------------------------------------------
(* A sync.                                                                 *)

SyncGoes(x, pc) == syncJob' = [syncJob EXCEPT ![x].pc = pc]

ReadChannel(x) ==
    /\ syncJob[x].pc = "idle"
    /\ channel.status = "connected" /\ channel.promotion \in {"staging", "approved"}
    /\ syncJob' = [syncJob EXCEPT ![x].pc = "read", ![x].version = channel.version,
            ![x].mode = IF channel.promotion = "staging" THEN "sample" ELSE "incremental"]
    /\ UNCHANGED << channel, chosen, measured, syncRun, editor, clerk, reviewed, lapses >>

\* The promotion is not read again under the lease.
ModeStands(x) ==
    channel.promotion = IF syncJob[x].mode = "sample" THEN "staging" ELSE "approved"

LeaseForSync(x) ==
    /\ syncJob[x].pc = "read"
    /\ \/ /\ Leasable /\ channel' = Leased(x) /\ SyncGoes(x, "leased")
          /\ IF channel.version = syncJob[x].version /\ ~ModeStands(x)
             THEN Lapse ELSE UNCHANGED lapses
       \/ ~Leasable /\ SyncGoes(x, "ended") /\ UNCHANGED << channel, lapses >>
    /\ UNCHANGED << chosen, measured, syncRun, editor, clerk, reviewed >>

BeginRun(x) ==
    /\ syncJob[x].pc = "leased"
    /\ \/ /\ channel.owner = x /\ channel.version = syncJob[x].version /\ chosen.of # {}
          /\ syncRun' = [syncRun EXCEPT ![x].status = "running", ![x].mode = syncJob[x].mode,
                                        ![x].version = syncJob[x].version]
          /\ syncJob' = [syncJob EXCEPT ![x].pc = "begun", ![x].from = chosen]
       \/ /\ channel.owner # x \/ channel.version # syncJob[x].version \/ chosen.of = {}
          /\ SyncGoes(x, "failed") /\ UNCHANGED syncRun
    /\ UNCHANGED << channel, chosen, measured, editor, clerk, reviewed, lapses >>

\* The provider may answer for some of the resources, or with other warnings.  An
\* incremental sync refuses either.
FetchMeasurements(x) ==
    \E got \in SUBSET syncJob[x].from.of, warned \in BOOLEAN :
        /\ syncJob[x].pc = "begun"
        /\ got # syncJob[x].from.of => warned
        /\ syncRun' = [syncRun EXCEPT ![x].warned = warned, ![x].staged = Cardinality(got)]
        /\ IF syncJob[x].mode = "incremental" /\ warned THEN SyncGoes(x, "failed")
           ELSE syncJob' = [syncJob EXCEPT ![x].pc = "fetched", ![x].todo = got]
        /\ UNCHANGED << channel, chosen, measured, editor, clerk, reviewed, lapses >>

RenewForWrite(x) ==
    /\ syncJob[x].pc = "fetched"
    /\ SyncGoes(x, IF channel.owner = x /\ channel.live THEN "writing" ELSE "failed")
    /\ UNCHANGED << channel, chosen, measured, syncRun, editor, clerk, reviewed, lapses >>

\* persistSnapshot: batches, of which the first of a sample deletes.  Records of a
\* selection that is gone are not inserted.
Emptied(x) ==
    IF syncJob[x].mode = "sample" /\ ~syncJob[x].begun
    THEN [r \in Resources |-> NoSync] ELSE measured

\* Variant: a batch of an old selection is written to the new one.
PersistBatchOfAny(x) ==
    \E batch \in SUBSET syncJob[x].todo :
        /\ syncJob[x].pc = "writing"
        /\ syncJob[x].todo # {} => batch # {}
        /\ measured' = [r \in Resources |-> IF r \in batch THEN x ELSE Emptied(x)[r]]
        /\ syncJob' = [syncJob EXCEPT ![x].todo = @ \ batch, ![x].begun = TRUE,
                                ![x].pc = IF batch = syncJob[x].todo THEN "written" ELSE @]
        /\ UNCHANGED << channel, chosen, syncRun, editor, clerk, reviewed, lapses >>

PersistBatch(x) ==
    \E batch \in SUBSET syncJob[x].todo :
        /\ syncJob[x].pc = "writing"
        /\ syncJob[x].todo # {} => batch # {}
        /\ measured' = [r \in Resources |->
                IF r \in batch /\ chosen = syncJob[x].from THEN x ELSE Emptied(x)[r]]
        /\ syncJob' = [syncJob EXCEPT ![x].todo = @ \ batch, ![x].begun = TRUE,
                                ![x].pc = IF batch = syncJob[x].todo THEN "written" ELSE @]
        /\ UNCHANGED << channel, chosen, syncRun, editor, clerk, reviewed, lapses >>

CompleteRun(x) ==
    /\ syncJob[x].pc = "written"
    /\ syncRun' = [syncRun EXCEPT ![x].status = "completed"]
    /\ SyncGoes(x, "completed")
    /\ UNCHANGED << channel, chosen, measured, editor, clerk, reviewed, lapses >>

MayPublishRun(x) == channel.owner = x /\ channel.version = syncJob[x].version

PublishRun(x) ==
    /\ syncJob[x].pc = "completed"
    /\ \/ /\ MayPublishRun(x)
          /\ channel' = [channel EXCEPT !.status = "connected", !.lastSync = x,
                            !.promotion = IF syncJob[x].mode = "sample" THEN "staging" ELSE "approved",
                            !.error = syncRun[x].warned]
          /\ SyncGoes(x, "published")
       \/ ~MayPublishRun(x) /\ SyncGoes(x, "failed") /\ UNCHANGED channel
    /\ UNCHANGED << chosen, measured, syncRun, editor, clerk, reviewed, lapses >>

\* The catch block.
FailRun(x) ==
    /\ syncJob[x].pc = "failed"
    /\ syncRun' = IF syncRun[x].status = "none" THEN syncRun
                  ELSE [syncRun EXCEPT ![x].status = "failed"]
    /\ SyncGoes(x, "half")
    /\ UNCHANGED << channel, chosen, measured, editor, clerk, reviewed, lapses >>

MarkFailure(x) ==
    /\ syncJob[x].pc = "half"
    /\ channel' = IF channel.owner = x THEN [channel EXCEPT !.error = TRUE] ELSE channel
    /\ SyncGoes(x, "releasing")
    /\ UNCHANGED << chosen, measured, syncRun, editor, clerk, reviewed, lapses >>

\* Every call under the lease may fail, also the audit after the publication.
SyncThrows(x) ==
    /\ syncJob[x].pc \in {"leased", "begun", "fetched", "writing", "written", "completed",
                       "published"}
    /\ SyncGoes(x, "failed")
    /\ UNCHANGED << channel, chosen, measured, syncRun, editor, clerk, reviewed, lapses >>

ReleaseSync(x) ==
    /\ syncJob[x].pc \in {"published", "releasing"}
    /\ Unlease(x) /\ SyncGoes(x, "ended")
    /\ UNCHANGED << chosen, measured, syncRun, editor, clerk, reviewed, lapses >>

\* Evictions, and calls of the catch block that fail.
EvictSync(x) ==
    /\ syncJob[x].pc \notin {"idle", "read", "ended", "dead"} /\ Lapse
    /\ \/ SyncGoes(x, "dead")
       \/ syncJob[x].pc \in {"failed", "half"} /\ SyncGoes(x, "releasing")
    /\ UNCHANGED << channel, chosen, measured, syncRun, editor, clerk, reviewed >>

-----------------------------------------------------------------------------
(* Selecting resources, and authorizing the account again.                 *)

EditorGoes(e, pc) == editor' = [editor EXCEPT ![e].pc = pc]

ReadSelection(e) ==
    /\ editor[e].pc = "idle" /\ channel.status = "connected"
    /\ \E kind \in {"replace", "authorize"} :
          editor' = [editor EXCEPT ![e] = [pc |-> "read", kind |-> kind,
                                           version |-> channel.version]]
    /\ UNCHANGED << channel, chosen, measured, syncRun, syncJob, clerk, reviewed, lapses >>

LeaseForEdit(e) ==
    /\ editor[e].pc = "read"
    /\ \/ /\ Leasable /\ channel' = Leased(e) /\ EditorGoes(e, "leased")
          /\ IF channel.status = "revoked" THEN Lapse ELSE UNCHANGED lapses
       \/ ~Leasable /\ EditorGoes(e, "ended") /\ UNCHANGED << channel, lapses >>
    /\ UNCHANGED << chosen, measured, syncRun, syncJob, clerk, reviewed >>

\* Back to staging: a new sample has to be reviewed.
Restaged ==
    [channel EXCEPT !.status = "connected", !.promotion = "staging", !.lastSync = NoSync,
                    !.error = FALSE, !.version = @ + 1]

Replaceable(e) ==
    channel.status = "connected" /\ channel.owner = e /\ channel.version = editor[e].version

\* One batch; its first statement fails unless the selection is replaceable.
ReplaceSelection(e) ==
    /\ editor[e].pc = "leased" /\ editor[e].kind = "replace"
    /\ \/ /\ Replaceable(e)
          /\ \E of \in SUBSET Resources : chosen' = [made |-> channel.version + 1, of |-> of]
          /\ measured' = [r \in Resources |-> NoSync]
          /\ channel' = Restaged /\ reviewed' = NoSync
       \/ ~Replaceable(e) /\ UNCHANGED << channel, chosen, measured, reviewed >>
    /\ EditorGoes(e, "releasing")
    /\ UNCHANGED << syncRun, syncJob, clerk, lapses >>

\* The update asks for the lease only.
AuthorizeAgain(e) ==
    /\ editor[e].pc = "leased" /\ editor[e].kind = "authorize"
    /\ \/ channel.owner = e /\ channel' = Restaged /\ reviewed' = NoSync
       \/ channel.owner # e /\ UNCHANGED << channel, reviewed >>
    /\ EditorGoes(e, "releasing")
    /\ UNCHANGED << chosen, measured, syncRun, syncJob, clerk, lapses >>

EditThrows(e) ==
    /\ editor[e].pc = "leased" /\ EditorGoes(e, "releasing")
    /\ UNCHANGED << channel, chosen, measured, syncRun, syncJob, clerk, reviewed, lapses >>

ReleaseEdit(e) ==
    /\ editor[e].pc = "releasing"
    /\ Unlease(e) /\ EditorGoes(e, "ended")
    /\ UNCHANGED << chosen, measured, syncRun, syncJob, clerk, reviewed, lapses >>

EvictEdit(e) ==
    /\ editor[e].pc \in {"leased", "releasing"} /\ Lapse /\ EditorGoes(e, "dead")
    /\ UNCHANGED << channel, chosen, measured, syncRun, syncJob, clerk, reviewed >>

-----------------------------------------------------------------------------
(* Approving, excluding and disconnecting.                                 *)

ClerkGoes(c, pc) == clerk' = [clerk EXCEPT ![c].pc = pc]

\* A lease that has run out is cleared if it is still the one read.
ReadForApproval(c) ==
    /\ clerk[c].pc = "idle"
    /\ channel.status = "connected" /\ channel.promotion = "staging"
    /\ channel.lastSync # NoSync /\ ~channel.error /\ Leasable
    /\ channel' = [channel EXCEPT !.owner = NoSync, !.live = FALSE]
    /\ clerk' = [clerk EXCEPT ![c] = [pc |-> "approving", term |-> channel.term,
                    version |-> channel.version, lastSync |-> channel.lastSync]]
    /\ UNCHANGED << chosen, measured, syncRun, syncJob, editor, reviewed, lapses >>

\* Each selected resource has measurements, as many as the sample had.
Proven(run) ==
    /\ run.mode = "sample" /\ run.status = "completed" /\ ~run.warned
    /\ chosen.of # {} /\ \A r \in chosen.of : measured[r] # NoSync
    /\ Cardinality({r \in Resources : measured[r] # NoSync}) = run.staged

ReviewSample(c) ==
    LET run == syncRun[clerk[c].lastSync] IN
    /\ clerk[c].pc = "approving"
    /\ ClerkGoes(c, IF run.version = clerk[c].version /\ Proven(run) THEN "reviewed" ELSE "ended")
    /\ UNCHANGED << channel, chosen, measured, syncRun, syncJob, editor, reviewed, lapses >>

AsRead(c) == channel.status = "connected" /\ channel.term = clerk[c].term

Approvable(c) ==
    /\ AsRead(c) /\ channel.promotion = "staging" /\ channel.version = clerk[c].version
    /\ channel.lastSync = clerk[c].lastSync /\ ~channel.error /\ channel.owner = NoSync

ApproveMeasurements(c) ==
    /\ clerk[c].pc = "reviewed"
    /\ \/ /\ Approvable(c)
          /\ channel' = [channel EXCEPT !.promotion = "approved"]
          /\ reviewed' = clerk[c].lastSync
       \/ ~Approvable(c) /\ UNCHANGED << channel, reviewed >>
    /\ ClerkGoes(c, "ended")
    /\ UNCHANGED << chosen, measured, syncRun, syncJob, editor, lapses >>

ReadForExclusion(c) ==
    /\ clerk[c].pc = "idle" /\ channel.status = "connected"
    /\ clerk' = [clerk EXCEPT ![c].pc = "excluding", ![c].term = channel.term]
    /\ UNCHANGED << channel, chosen, measured, syncRun, syncJob, editor, reviewed, lapses >>

ExcludeMeasurements(c) ==
    /\ clerk[c].pc = "excluding"
    /\ \/ /\ AsRead(c) /\ Leasable
          /\ channel' = [channel EXCEPT !.promotion = "staging"] /\ reviewed' = NoSync
       \/ ~(AsRead(c) /\ Leasable) /\ UNCHANGED << channel, reviewed >>
    /\ ClerkGoes(c, "ended")
    /\ UNCHANGED << chosen, measured, syncRun, syncJob, editor, lapses >>

\* One batch, whoever holds the lease.
DisconnectChannel ==
    /\ channel.status = "connected"
    /\ channel' = [channel EXCEPT !.status = "revoked", !.promotion = "blocked",
                        !.lastSync = NoSync, !.error = FALSE, !.owner = NoSync, !.live = FALSE,
                        !.term = @ + 1, !.version = @ + 1]
    /\ chosen' = NoneChosen
    /\ measured' = [r \in Resources |-> NoSync] /\ reviewed' = NoSync
    /\ UNCHANGED << syncRun, syncJob, editor, clerk, lapses >>

\* The lease of an evicted request runs out at any time, that of another in a stall.
Evicted(p) == IF p \in Syncs THEN syncJob[p].pc = "dead" ELSE editor[p].pc = "dead"

ChannelLeaseEnds ==
    /\ channel.live
    /\ IF Evicted(channel.owner) THEN UNCHANGED lapses ELSE Lapse
    /\ channel' = [channel EXCEPT !.live = FALSE]
    /\ UNCHANGED << chosen, measured, syncRun, syncJob, editor, clerk, reviewed >>

-----------------------------------------------------------------------------
SyncStep(x) ==
    \/ ReadChannel(x) \/ LeaseForSync(x) \/ BeginRun(x) \/ FetchMeasurements(x)
    \/ RenewForWrite(x) \/ PersistBatch(x) \/ CompleteRun(x) \/ PublishRun(x)
    \/ FailRun(x) \/ MarkFailure(x) \/ SyncThrows(x) \/ ReleaseSync(x) \/ EvictSync(x)

EditStep(e) ==
    \/ ReadSelection(e) \/ LeaseForEdit(e) \/ ReplaceSelection(e) \/ AuthorizeAgain(e)
    \/ EditThrows(e) \/ ReleaseEdit(e) \/ EvictEdit(e)

ClerkStep(c) ==
    \/ ReadForApproval(c) \/ ReviewSample(c) \/ ApproveMeasurements(c)
    \/ ReadForExclusion(c) \/ ExcludeMeasurements(c)

MeasureNext ==
    \/ \E x \in Syncs : SyncStep(x)
    \/ \E e \in Editors : EditStep(e)
    \/ \E c \in Clerks : ClerkStep(c)
    \/ DisconnectChannel \/ ChannelLeaseEnds

MeasureSpec == MeasureInit /\ [][MeasureNext]_measureVars

-----------------------------------------------------------------------------
(* What people may rely on when they see measurements.                     *)

\* "Every selected resource must have current evidence from this exact sample
\* before approval" (integrations/route.ts:502): approved measurements are of the
\* sample whose approval stands, or of a refresh, which is never partial.
ApprovedAsReviewed ==
    channel.promotion = "approved" =>
        /\ reviewed # NoSync
        /\ \A r \in chosen.of :
              measured[r] = reviewed \/ (measured[r] # NoSync /\ syncRun[measured[r]].mode = "incremental")

\* The same as long as nothing was evicted, stalled or overtaken.
ApprovedAsReviewedInTime == lapses = 0 => ApprovedAsReviewed

\* Measurements are of the present selection, whatever late batch is written.
MeasuredAsChosen ==
    \A r \in Resources : measured[r] # NoSync =>
        r \in chosen.of /\ syncJob[measured[r]].from = chosen

\* A disconnected account has no selection and no measurements left.
DisconnectedKeepsNothing ==
    channel.status = "revoked" =>
        chosen.of = {} /\ \A r \in Resources : measured[r] = NoSync

\* A request that ends has given back its lease.
NoMeasureLeaseLeft ==
    /\ channel.owner \in Syncs => syncJob[channel.owner].pc # "ended"
    /\ channel.owner \in Editors => editor[channel.owner].pc # "ended"

MeasurementsAreSound ==
    /\ MeasureTypeOK /\ ApprovedAsReviewedInTime /\ MeasuredAsChosen
    /\ DisconnectedKeepsNothing /\ NoMeasureLeaseLeft
=============================================================================
