----------------------------- MODULE DoorTracks -----------------------------
(***************************************************************************)
(* What the pipeline of a video job makes of the people at a door          *)
(* (backend/app/worker/pipeline.py, event_engine.py, reliability.py): each *)
(* person the tracker follows is a track, whose zone is debounced into     *)
(* ENTRY and EXIT events; a face may be recognized and names the track; a  *)
(* track that is lost inside exits only after a grace period.              *)
(*                                                                         *)
(* One step is one detection, the end of a detector frame, or the end of   *)
(* the video.  Images are reduced to what the event engine asks of them:   *)
(* the zone of the foot point, its side of the door line, whether it is    *)
(* near the door.  A branch without a door line gets MEDIUM events, which  *)
(* all rules treat as WEAK ones.  Less than 200 rows are written, so       *)
(* nothing is committed before the end (VisionJobs has the commits).       *)
(***************************************************************************)
EXTENDS Integers, FiniteSets

CONSTANTS RawIds,         \* ids the tracker gives out, and gives out again
          Faces,          \* employees that can be recognized
          MaxFrame,       \* bound: detector frames
          StableFrames,   \* zone_stable_frames
          Cooldown, CrossingWindow,
          MinHits, MinAge,
          TrackTtl, ExitGrace

ASSUME DoorAssumption ==
  /\ StableFrames \in Nat \ {0} /\ MinHits \in Nat \ {0} /\ MinAge \in Nat
  /\ Cooldown \in Nat /\ CrossingWindow \in Nat /\ TrackTtl \in Nat /\ ExitGrace \in Nat

VARIABLES frame,    \* time
          seen,     \* ids detected in this frame
          uses,     \* [RawIds -> tracks that had the id]
          live,     \* the TrackRuntime of each id in use
          tracks,   \* the rows of finished tracks
          added,    \* event rows in the session, not flushed
          events,   \* event rows in the database
          over      \* the video has ended

doorvars == <<frame, seen, uses, live, tracks, added, events, over>>

Unknown == "UNKNOWN"
Nobody == "nobody"
Never == -1
NotLeaving == [since |-> Never, ts |-> Never]

DoorInit ==
  /\ frame = 0 /\ seen = {} /\ over = FALSE
  /\ uses = [r \in RawIds |-> 0]
  /\ live = [r \in {} |-> Nobody]
  /\ tracks = {} /\ added = {} /\ events = {}

NewTrack(key) ==
  [key |-> key, zone |-> Unknown, candidate |-> Unknown, streak |-> 0,
   side |-> 0, crossing |-> [kind |-> "none", ts |-> Never], lastEvent |-> Never,
   firstInside |-> Never, lastInside |-> Never, first |-> frame, last |-> frame, hits |-> 0,
   pending |-> {}, leaving |-> NotLeaving, employee |-> Nobody]

-----------------------------------------------------------------------------
(* The event engine.                                                        *)

Least(a, b) == IF a < b THEN a ELSE b

\* Timestamps, door line and debounced candidate zone; counts are kept only
\* as far as they are compared.  A track that is seen again is not leaving.
Looked(t, zone, side, near) ==
  LET counted == IF zone = Unknown THEN <<t.candidate, t.streak>>
                 ELSE IF zone = t.candidate THEN <<zone, Least(t.streak + 1, StableFrames)>>
                 ELSE <<zone, 1>>
      flipped == t.side # 0 /\ side # t.side
  IN  [t EXCEPT !.last = frame, !.hits = Least(@ + 1, MinHits), !.leaving = NotLeaving,
                !.side = side,
                !.crossing = IF flipped /\ near
                             THEN [kind |-> IF side = 1 THEN "entry" ELSE "exit", ts |-> frame] ELSE @,
                !.firstInside = IF zone = "INSIDE" /\ @ = Never THEN frame ELSE @,
                !.lastInside = IF zone = "INSIDE" THEN frame ELSE @,
                !.candidate = counted[1], !.streak = counted[2]]

\* is_track_stable, by the last detection
StableTrack(t) == t.hits >= MinHits \/ t.last - t.first >= MinAge

Switches(t, zone) ==
  /\ zone # Unknown
  /\ t.streak >= StableFrames /\ t.candidate # t.zone

\* Mutant: no cooldown.
CoolingNever(t) == FALSE

\* _in_cooldown
Cooling(t) == t.lastEvent # Never /\ frame - t.lastEvent < Cooldown

Crossed(t, kind) ==
  t.crossing.kind = kind /\ frame - t.crossing.ts <= CrossingWindow

Event(t, kind, ts, strength) ==
  [track |-> t.key, kind |-> kind, ts |-> ts, strength |-> strength, noticed |-> frame,
   employee |-> Nobody]

\* _commit_event: the row gets the name the track has by then.
Committed(es, t) == {[e EXCEPT !.employee = t.employee] : e \in es}

\* observe_track_point, of a track that switches zone: at most one event.
\* To be first seen inside counts as an entry, to be first seen outside as
\* nothing; a switch without a crossing counts near the door.
DoorEvents(t, near) ==
  LET kind == IF t.candidate = "INSIDE" THEN "entry" ELSE "exit"
      first == t.zone = Unknown
  IN  IF Cooling(t) \/ (first /\ kind = "exit") THEN {}
      ELSE IF Crossed(t, kind) THEN {Event(t, kind, t.crossing.ts, "STRONG")}
      ELSE IF first THEN {Event(t, kind, t.firstInside, "WEAK")}
      ELSE IF near THEN {Event(t, kind, frame, "WEAK")}
      ELSE {}

-----------------------------------------------------------------------------
(* Detections.                                                              *)

\* Mutant: the session is not flushed before the UPDATE.
NameUnflushed(new, key, who) ==
  /\ added' = new
  /\ events' = {IF e.track = key /\ e.employee = Nobody THEN [e EXCEPT !.employee = who] ELSE e :
                  e \in events}

\* The track is recognized: its rows are flushed, and named by an UPDATE.
Name(new, key, who) ==
  /\ added' = {}
  /\ events' = {IF e.track = key /\ e.employee = Nobody THEN [e EXCEPT !.employee = who] ELSE e :
                  e \in events \cup new}

\* Somebody recognized inside at the door may be one who was just lost
\* inside; more than one candidate is too ambiguous.
Continues(r, who) ==
  LET lost == {q \in DOMAIN live \ {r} :
                 /\ live[q].leaving # NotLeaving /\ live[q].employee = who
                 /\ frame - live[q].leaving.since <= ExitGrace}
  IN  IF Cardinality(lost) = 1 THEN lost ELSE {}

\* A row of vision.tracks; stable, inside and continued are history.
Row(t, continued) ==
  [key |-> t.key, employee |-> t.employee, stable |-> StableTrack(t),
   inside |-> t.zone = "INSIDE", continued |-> continued]

Detect(r, zone, side, near, who, door) ==
  LET t == Looked(IF r \in DOMAIN live THEN live[r] ELSE NewTrack(<<r, uses[r] + 1>>),
                  zone, side, near)
      fired == IF Switches(t, zone) THEN DoorEvents(t, near) ELSE {}
      ready == {e \in t.pending \cup fired : e.strength = "STRONG" \/ StableTrack(t)}
      new == added \cup Committed(ready, t)
      next == [t EXCEPT !.zone = IF Switches(t, zone) THEN t.candidate ELSE @,
                        !.lastEvent = IF fired # {} THEN frame ELSE @,
                        !.pending = (@ \cup fired) \ ready,
                        !.employee = IF who = Nobody THEN @ ELSE who]
      gone == IF who # Nobody /\ door /\ zone = "INSIDE" THEN Continues(r, who) ELSE {}
  IN  /\ ~over /\ r \notin seen
      /\ who # Nobody => t.employee = Nobody
      /\ seen' = seen \cup {r}
      /\ IF who = Nobody THEN added' = new /\ UNCHANGED events ELSE Name(new, t.key, who)
      /\ live' = [q \in (DOMAIN live \cup {r}) \ gone |-> IF q = r THEN next ELSE live[q]]
      /\ uses' = [uses EXCEPT ![r] = t.key[2]]
      /\ tracks' = tracks \cup {Row(live[q], TRUE) : q \in gone}
      /\ UNCHANGED <<frame, over>>

-----------------------------------------------------------------------------
(* Tracks that end.                                                         *)

\* should_drop_pending_entry_on_end: what an unstable track had pending is
\* dropped unless STRONG.
Kept(t) == Committed({e \in t.pending : e.strength = "STRONG" \/ StableTrack(t)}, t)

\* The track exits where it was last seen inside.
InferredExit(t) ==
  LET ts == IF t.leaving = NotLeaving THEN t.lastInside ELSE t.leaving.ts
  IN  Committed({Event(t, "exit", ts, "ENDED")}, t)

Without(rs) == [q \in DOMAIN live \ rs |-> live[q]]

\* A track not seen for longer than track_ttl_sec is finished, but one that
\* ended inside only when its grace has expired too.
EndFrame ==
  LET expired == {r \in DOMAIN live \ seen : frame - live[r].last > TrackTtl}
      waiting == {r \in expired : live[r].leaving = NotLeaving /\ live[r].zone = "INSIDE"}
      outside == {r \in expired : live[r].leaving = NotLeaving /\ live[r].zone # "INSIDE"}
      exits == {r \in expired \ (waiting \cup outside) :
                  frame - live[r].leaving.since >= ExitGrace}
  IN  /\ ~over /\ frame < MaxFrame
      /\ frame' = frame + 1 /\ seen' = {}
      /\ added' = added \cup (UNION {Kept(live[r]) : r \in outside \cup exits})
                        \cup (UNION {Kept(live[r]) : r \in {q \in waiting : StableTrack(live[q])}})
                        \cup (UNION {InferredExit(live[r]) : r \in exits})
      /\ live' = [r \in DOMAIN live \ (outside \cup exits) |->
           IF r \in waiting
           THEN [live[r] EXCEPT !.leaving = [since |-> frame, ts |-> live[r].lastInside],
                                !.pending = IF StableTrack(live[r]) THEN {} ELSE @]
           ELSE live[r]]
      /\ tracks' = tracks \cup {Row(live[r], FALSE) : r \in outside \cup exits}
      /\ UNCHANGED <<uses, events, over>>

\* Mutant: a track that waits for its grace to expire is only saved.
ExitsAtEndIfSeen(t) == t.zone = "INSIDE" /\ t.leaving = NotLeaving

\* finalize_track, and the forced exit of a track that is leaving.
ExitsAtEnd(t) == t.zone = "INSIDE" \/ t.leaving # NotLeaving

\* The video ends, or the job is cancelled.
EndVideo ==
  /\ ~over /\ over' = TRUE
  /\ events' = events \cup added \cup (UNION {Kept(live[r]) : r \in DOMAIN live})
                 \cup (UNION {InferredExit(live[r]) : r \in {q \in DOMAIN live : ExitsAtEnd(live[q])}})
  /\ added' = {}
  /\ tracks' = tracks \cup {Row(live[r], FALSE) : r \in DOMAIN live}
  /\ live' = Without(DOMAIN live)
  /\ UNCHANGED <<frame, seen, uses>>

\* Only of a track that changes its side or zone is it asked whether it is near
\* the door, and only of a face seen inside whether it is at the door.
AsksNear(r, zone, side) ==
  r \in DOMAIN live /\ (side # live[r].side \/ zone \notin {live[r].zone, Unknown})

DoorNext ==
  \/ \E r \in RawIds, zone \in {"INSIDE", "OUTSIDE", Unknown}, side \in {-1, 1} :
       \E near \in IF AsksNear(r, zone, side) THEN BOOLEAN ELSE {FALSE},
          door \in IF zone = "INSIDE" THEN BOOLEAN ELSE {FALSE} :
         \/ ~door /\ Detect(r, zone, side, near, Nobody, FALSE)
         \/ \E who \in Faces : Detect(r, zone, side, near, who, door)
  \/ EndFrame \/ EndVideo

DoorSpec == DoorInit /\ [][DoorNext]_doorvars

-----------------------------------------------------------------------------
(* Properties.                                                              *)

DoorRows == added \cup events
LiveTracks == {live[r] : r \in DOMAIN live}

\* Every event of a track that was recognized names the employee, whether it
\* was stored before, in the same frame, or after.
EventsCarryIdentity ==
  \A e \in DoorRows, t \in LiveTracks \cup tracks :
       e.track = t.key => e.employee = t.employee

\* Who was lost inside leaves exactly once: by an inferred exit after the
\* grace or at the end of the video, or not at all if another track went on
\* as the same employee.
EndedInsideExits ==
  \A t \in tracks :
    (\E e \in DoorRows : e.track = t.key /\ e.strength = "ENDED") = (t.inside /\ ~t.continued)

\* A ghost of few detections never counts as somebody who came in, unless
\* it was seen to cross the line.
NoGhostEntries ==
  \A e \in DoorRows : (e.kind = "entry" /\ e.strength = "WEAK") =>
    /\ \A t \in LiveTracks : t.key = e.track => StableTrack(t)
    /\ \A t \in tracks : t.key = e.track => t.stable

\* The inferred events, which no crossing of the line shows, are neither too
\* few nor too many.
InferredEventsHold == EndedInsideExits /\ NoGhostEntries

\* The events of a track bear times in the order in which they were noticed,
\* although crossings are dated back: the cooldown is not shorter than the
\* window in which a crossing counts.
EventsInOrder ==
  \A e, f \in DoorRows : (e.track = f.track /\ e.noticed < f.noticed) => e.ts <= f.ts

=============================================================================
