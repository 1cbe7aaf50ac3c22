-------------------------- MODULE OwnerViewsProofs --------------------------
(***************************************************************************)
(* What an owner answers is not older than the question, for every number  *)
(* of threads, processes, sessions and harnesses: the overview of a        *)
(* session (SessionViews), the rows of a list (CatalogSnapshot) and the    *)
(* answer to a deletion (SessionArchives).  And the Timeline's box matches *)
(* what its finished clauses match (QueryLanguage).  The parts share no    *)
(* state, and each has an invariant of its own.                            *)
(***************************************************************************)
EXTENDS SessionViews, CatalogSnapshot, SessionArchives, QueryLanguage, SequenceTheorems, TLAPS

-----------------------------------------------------------------------------
(***************************************************************************)
(* SessionViews.  Who builds an overview holds the flight from its walk    *)
(* until it releases it (OneFlight), so that what the flight says of its   *)
(* end is said of its holder's build.  Who looks a cached overview up read *)
(* the notes' version after it was asked, and who built one read the notes *)
(* after that (NotesRead).                                                 *)
(***************************************************************************)
ViewVersions == [{"notes", "jobs", "events", "turns"} -> Nat]
AskerRecords == [at : Places, asked : ViewVersions \union [Files -> Nat],
                 stamp : ViewVersions, got : ViewVersions]

ViewsShape ==
    /\ disk \in [Files -> Nat]
    /\ asker \in [Threads -> AskerRecords]
    /\ flight \in [owner : Threads \union {Nothing}, ended : {"no", "built", "raised"}]
    /\ overviews # Nothing => overviews.got \in ViewVersions
    /\ jobRows # Nothing => jobRows.got \in Nat
    /\ turnViews # Nothing => turnViews.turns \in Nat

\* Where a thread holds the flight, where it read the notes' version into
\* its stamp, and where it read the notes into what it builds.
Flying == Building \union Checking \union {"store", "resolve", "release"}
Stamped == {"stamp jobs", "stamp events", "look"}
Noted == {"stamp rows", "read rows", "store", "resolve"} \union Checking

OneFlight == \A t \in Threads : asker[t].at \in Flying => flight.owner = t

\* What a thread knows of the notes, now is a version on disk and how the
\* flight ended.
Knows(r, now, ended) ==
    /\ r.asked["notes"] <= now
    /\ r.at \in Stamped => r.stamp["notes"] >= r.asked["notes"]
    /\ r.at \in Noted => r.got["notes"] >= r.asked["notes"]
    /\ r.at = "release" /\ ended = "built" => r.got["notes"] >= r.asked["notes"]
    /\ r.at \in Scanning => r.got["notes"] = 0
    /\ r.at = "answered" => r.got["notes"] = 0 \/ r.got["notes"] >= r.asked["notes"]
NotesRead == \A t \in Threads : Knows(asker[t], disk["notes"], flight.ended)

ViewsInv == ViewsShape /\ OneFlight /\ NotesRead

\* The records the actions put in a thread's place are records.
LEMMA IdleIsAsker ==
    /\ Unread \in ViewVersions /\ Idle \in AskerRecords /\ Failure \in AskerRecords
    /\ Idle.at = "idle" /\ Idle.got["notes"] = 0 /\ Failure.at = "failed"
    /\ Idle.asked["notes"] = 0 /\ Failure.asked["notes"] = 0
<1>1. Unread \in ViewVersions
  BY DEF Unread, ViewVersions
<1>2. "idle" \in Places /\ "failed" \in Places
  BY DEF Places
<1> QED
  BY <1>1, <1>2 DEF Idle, Failure, AskerRecords, Unread

\* Who has asked for nothing, and who was told of a failure, knows nothing.
LEMMA KnowsNothing ==
    ASSUME NEW now \in Nat, NEW ended
    PROVE  Knows(Idle, now, ended) /\ Knows(Failure, now, ended)
  BY IdleIsAsker DEF Knows, Stamped, Noted, Scanning, Checking

\* Nor does one that asks now.
LEMMA AsksNow ==
    ASSUME NEW r, NEW now \in Nat, NEW ended, r.asked["notes"] = now, r.got["notes"] = 0,
           r.at \notin Stamped, r.at \notin Noted, r.at # "release"
    PROVE  Knows(r, now, ended)
  BY DEF Knows

\* The initial state.
LEMMA ViewsInitInv == ViewsInit => ViewsInv
<1> SUFFICES ASSUME ViewsInit PROVE ViewsInv
  OBVIOUS
<1>1. ViewsShape
  BY IdleIsAsker DEF ViewsInit, ViewsShape, NoFlight
<1>2. \A t \in Threads : asker[t] = Idle
  BY DEF ViewsInit
<1>3. OneFlight
  BY <1>2, IdleIsAsker DEF OneFlight, Flying, Building, Checking
<1>4. NotesRead
  <2>1. disk["notes"] \in Nat
    BY <1>1 DEF ViewsShape, Files
  <2>2. Knows(Idle, disk["notes"], flight.ended)
    BY <2>1, KnowsNothing
  <2> QED
    BY <1>2, <2>2 DEF NotesRead
<1> QED
  BY <1>1, <1>3, <1>4 DEF ViewsInv

-----------------------------------------------------------------------------
(***************************************************************************)
(* What the steps do to a thread's record.                                 *)
(***************************************************************************)
\* A thread that goes on with what it knows, and takes no flight, keeps the
\* invariant.
LEMMA OneThreadMoves ==
    ASSUME ViewsInv, NEW t \in Threads, NEW r \in AskerRecords,
           asker' = [asker EXCEPT ![t] = r], disk' = disk, flight' = flight,
           Knows(r, disk["notes"], flight.ended),
           r.at \in Flying => asker[t].at \in Flying
    PROVE  /\ asker' \in [Threads -> AskerRecords]
           /\ OneFlight' /\ NotesRead'
<1>1. asker' \in [Threads -> AskerRecords]
  BY DEF ViewsInv, ViewsShape
<1>2. \A u \in Threads : asker'[u] = IF u = t THEN r ELSE asker[u]
  BY DEF ViewsInv, ViewsShape
<1>3. OneFlight'
  BY <1>2 DEF ViewsInv, OneFlight
<1>4. NotesRead'
  BY <1>2 DEF ViewsInv, NotesRead
<1> QED
  BY <1>1, <1>3, <1>4

\* A record that goes there, with a file's version in its stamp or in what
\* it got, and one that starts.
StampedAs(r, there, file, now) == [r EXCEPT !.at = there, !.stamp[file] = now]
GotAs(r, there, file, now) == [r EXCEPT !.at = there, !.got[file] = now]
Starting(first, now) == [Idle EXCEPT !.at = first, !.asked = now]

LEMMA StartingRecord ==
    ASSUME NEW first \in Places, NEW now \in [Files -> Nat]
    PROVE  /\ Starting(first, now) \in AskerRecords
           /\ Starting(first, now).at = first /\ Starting(first, now).asked = now
           /\ Starting(first, now).got["notes"] = 0
<1>1. Idle \in AskerRecords /\ Idle.got["notes"] = 0
  BY IdleIsAsker
<1> QED
  BY <1>1 DEF Starting, AskerRecords

LEMMA StampedRecord ==
    ASSUME NEW r \in AskerRecords, NEW there \in Places, NEW file \in Files, NEW now \in Nat
    PROVE  /\ StampedAs(r, there, file, now) \in AskerRecords
           /\ StampedAs(r, there, file, now).at = there
           /\ StampedAs(r, there, file, now).asked = r.asked
           /\ StampedAs(r, there, file, now).got = r.got
           /\ file # "notes" => StampedAs(r, there, file, now).stamp["notes"] = r.stamp["notes"]
           /\ file = "notes" => StampedAs(r, there, file, now).stamp["notes"] = now
<1> DEFINE stamp == [r.stamp EXCEPT ![file] = now]
           new == [r EXCEPT !.at = there, !.stamp = stamp]
<1>1. stamp \in ViewVersions
  BY DEF AskerRecords, ViewVersions, Files
<1>2. /\ file # "notes" => stamp["notes"] = r.stamp["notes"]
      /\ file = "notes" => stamp["notes"] = now
  BY DEF AskerRecords, ViewVersions, Files
<1>3. new \in AskerRecords
  BY <1>1 DEF AskerRecords
<1>4. new.at = there /\ new.asked = r.asked /\ new.got = r.got /\ new.stamp = stamp
  BY DEF AskerRecords
<1>5. StampedAs(r, there, file, now) = new
  BY DEF AskerRecords, StampedAs
<1> QED
  BY <1>2, <1>3, <1>4, <1>5

LEMMA ReadRecord ==
    ASSUME NEW r \in AskerRecords, NEW there \in Places, NEW file \in Files, NEW now \in Nat
    PROVE  /\ GotAs(r, there, file, now) \in AskerRecords
           /\ GotAs(r, there, file, now).at = there
           /\ GotAs(r, there, file, now).asked = r.asked
           /\ GotAs(r, there, file, now).stamp = r.stamp
           /\ file # "notes" => GotAs(r, there, file, now).got["notes"] = r.got["notes"]
           /\ file = "notes" => GotAs(r, there, file, now).got["notes"] = now
<1> DEFINE got == [r.got EXCEPT ![file] = now]
           new == [r EXCEPT !.at = there, !.got = got]
<1>1. got \in ViewVersions
  BY DEF AskerRecords, ViewVersions, Files
<1>2. /\ file # "notes" => got["notes"] = r.got["notes"]
      /\ file = "notes" => got["notes"] = now
  BY DEF AskerRecords, ViewVersions, Files
<1>3. new \in AskerRecords
  BY <1>1 DEF AskerRecords
<1>4. new.at = there /\ new.asked = r.asked /\ new.stamp = r.stamp /\ new.got = got
  BY DEF AskerRecords
<1>5. GotAs(r, there, file, now) = new
  BY DEF AskerRecords, GotAs
<1> QED
  BY <1>2, <1>3, <1>4, <1>5

\* A record that goes elsewhere, with another stamp and other contents.
RecordAs(r, there, stamp, got) == [r EXCEPT !.at = there, !.stamp = stamp, !.got = got]
LEMMA OtherRecord ==
    ASSUME NEW r \in AskerRecords, NEW there \in Places, NEW stamp \in ViewVersions,
           NEW got \in ViewVersions
    PROVE  /\ RecordAs(r, there, stamp, got) \in AskerRecords
           /\ RecordAs(r, there, stamp, got).at = there
           /\ RecordAs(r, there, stamp, got).asked = r.asked
           /\ RecordAs(r, there, stamp, got).stamp = stamp
           /\ RecordAs(r, there, stamp, got).got = got
  BY DEF AskerRecords, RecordAs

LEMMA GivenRecord ==
    ASSUME NEW r \in AskerRecords, NEW got \in ViewVersions
    PROVE  /\ Given(r, got) \in AskerRecords /\ Given(r, got).at = "answered"
           /\ Given(r, got).asked = r.asked /\ Given(r, got).got = got
<1>1. Unread \in ViewVersions /\ "answered" \in Places
  BY IdleIsAsker DEF Places
<1> QED
  BY <1>1 DEF Given, AskerRecords

\* A step that writes a file's version into the stamp moves one record.
LEMMA StampsOne ==
    ASSUME ViewsShape, NEW t \in Threads, NEW here, NEW there, NEW file \in Files,
           Stamps(t, here, file, there)
    PROVE  asker' = [asker EXCEPT ![t] = StampedAs(asker[t], there, file, disk[file])]
  BY DEF Stamps, ViewsShape, AskerRecords, StampedAs
LEMMA ReadsOne ==
    ASSUME ViewsShape, NEW t \in Threads, NEW here, NEW there, NEW file \in Files,
           ReadsInto(t, here, file, there)
    PROVE  asker' = [asker EXCEPT ![t] = GotAs(asker[t], there, file, disk[file])]
  BY DEF ReadsInto, ViewsShape, AskerRecords, GotAs

-----------------------------------------------------------------------------
(***************************************************************************)
(* One step of a thread.                                                   *)
(***************************************************************************)
\* A request starts with what stands on disk.
LEMMA AskKeeps ==
    ASSUME ViewsInv, NEW t \in Threads, NEW first \in {"stamp notes", "parse"}, Asks(t, first)
    PROVE  ViewsInv'
<1> DEFINE r == Starting(first, disk)
<1>1. disk \in [Files -> Nat] /\ disk["notes"] \in Nat
  BY DEF ViewsInv, ViewsShape, Files
<1>2. first \in Places /\ first \notin Flying /\ first \notin Stamped /\ first \notin Noted
      /\ first # "release" /\ first # "answered"
  BY DEF Places, Flying, Stamped, Noted, Stamping, Scanning, Building, Checking
<1>3. r \in AskerRecords /\ r.at = first /\ r.asked = disk /\ r.got["notes"] = 0
  BY <1>1, <1>2, StartingRecord
<1>4. Knows(r, disk["notes"], flight.ended)
  <2>1. r.asked["notes"] = disk["notes"]
    BY <1>3
  <2>2. r.at \notin Stamped /\ r.at \notin Noted /\ r.at # "release"
    BY <1>2, <1>3
  <2> QED
    BY <1>1, <1>3, <2>1, <2>2, AsksNow
<1>5. asker' = [asker EXCEPT ![t] = r] /\ disk' = disk /\ flight' = flight
      /\ overviews' = overviews /\ jobRows' = jobRows /\ turnViews' = turnViews
  BY DEF Asks, Starting
<1>6. asker' \in [Threads -> AskerRecords] /\ OneFlight' /\ NotesRead'
  BY <1>2, <1>3, <1>4, <1>5, OneThreadMoves
<1> QED
  BY <1>5, <1>6 DEF ViewsInv, ViewsShape

\* A file is stamped: the notes first, so that the stamp is of a version
\* that stood after the request was made.
LEMMA StampKeeps ==
    ASSUME ViewsInv, NEW t \in Threads, TakesStamp(t)
    PROVE  ViewsInv'
<1>1. asker[t] \in AskerRecords /\ Knows(asker[t], disk["notes"], flight.ended)
      /\ disk["notes"] \in Nat /\ disk["jobs"] \in Nat /\ disk["events"] \in Nat
  BY DEF ViewsInv, ViewsShape, NotesRead, Files
<1>2. disk' = disk /\ flight' = flight
      /\ overviews' = overviews /\ jobRows' = jobRows /\ turnViews' = turnViews
  BY DEF TakesStamp
<1>3. "notes" \in Files /\ "jobs" \in Files /\ "events" \in Files /\ ViewsShape
  BY DEF Files, ViewsInv
<1>4. SUFFICES asker' \in [Threads -> AskerRecords] /\ OneFlight' /\ NotesRead'
  BY <1>2 DEF ViewsInv, ViewsShape
<1>5. ASSUME NEW here, NEW file \in Files, NEW there \in Places, Stamps(t, here, file, there),
             there # "release", there # "answered", there \notin Scanning,
             there \in Flying => here \in Flying,
             there \in Noted => here \in Noted,
             there \in Stamped => here \in Stamped \/ file = "notes",
             file = "notes" \/ here \in Stamped \/ there \notin Stamped
      PROVE  asker' \in [Threads -> AskerRecords] /\ OneFlight' /\ NotesRead'
  <2>1. disk[file] \in Nat /\ asker[t].at = here
    BY <1>3, <1>5 DEF ViewsShape, Stamps
  <2>2. asker' = [asker EXCEPT ![t] = StampedAs(asker[t], there, file, disk[file])]
    BY <1>3, <1>5, StampsOne
  <2>3. /\ StampedAs(asker[t], there, file, disk[file]) \in AskerRecords /\ StampedAs(asker[t], there, file, disk[file]).at = there
        /\ StampedAs(asker[t], there, file, disk[file]).asked = asker[t].asked /\ StampedAs(asker[t], there, file, disk[file]).got = asker[t].got
        /\ file # "notes" => StampedAs(asker[t], there, file, disk[file]).stamp["notes"] = asker[t].stamp["notes"]
        /\ file = "notes" => StampedAs(asker[t], there, file, disk[file]).stamp["notes"] = disk["notes"]
    BY <1>1, <1>5, <2>1, StampedRecord
  <2>4. Knows(StampedAs(asker[t], there, file, disk[file]), disk["notes"], flight.ended)
    BY <1>1, <1>5, <2>1, <2>3 DEF Knows
  <2> QED
    BY <1>1, <1>2, <1>5, <2>1, <2>2, <2>3, <2>4, OneThreadMoves
<1>6. CASE Stamps(t, "stamp notes", "notes", "stamp jobs")
  BY <1>3, <1>5, <1>6 DEF Places, Stamping, Flying, Noted, Stamped, Scanning, Building, Checking
<1>7. CASE Stamps(t, "stamp jobs", "jobs", "stamp events")
  BY <1>3, <1>5, <1>7 DEF Places, Stamping, Flying, Noted, Stamped, Scanning, Building, Checking
<1>8. CASE Stamps(t, "stamp events", "events", "look")
  BY <1>3, <1>5, <1>8 DEF Places, Flying, Noted, Stamped, Scanning, Building, Checking
<1>9. CASE Stamps(t, "check notes", "notes", "check jobs")
  BY <1>3, <1>5, <1>9 DEF Places, Flying, Noted, Stamped, Scanning, Building, Checking
<1>10. CASE Stamps(t, "check jobs", "jobs", "check events")
  BY <1>3, <1>5, <1>10 DEF Places, Flying, Noted, Stamped, Scanning, Building, Checking
<1>11. CASE Stamps(t, "check events", "events", "store")
  BY <1>3, <1>5, <1>11 DEF Places, Flying, Noted, Stamped, Scanning, Building, Checking
<1> QED
  BY <1>6, <1>7, <1>8, <1>9, <1>10, <1>11 DEF TakesStamp

\* uncached reads the events, then the notes, then stamps the job rows.
LEMMA WalkKeeps ==
    ASSUME ViewsInv, NEW t \in Threads, Walks(t)
    PROVE  ViewsInv'
<1>1. asker[t] \in AskerRecords /\ Knows(asker[t], disk["notes"], flight.ended)
      /\ disk["notes"] \in Nat /\ disk["jobs"] \in Nat /\ disk["events"] \in Nat
  BY DEF ViewsInv, ViewsShape, NotesRead, Files
<1>2. disk' = disk /\ flight' = flight
      /\ overviews' = overviews /\ jobRows' = jobRows /\ turnViews' = turnViews
  BY DEF Walks
<1>3. "notes" \in Files /\ "jobs" \in Files /\ "events" \in Files /\ ViewsShape
  BY DEF Files, ViewsInv
<1>4. SUFFICES asker' \in [Threads -> AskerRecords] /\ OneFlight' /\ NotesRead'
  BY <1>2 DEF ViewsInv, ViewsShape
<1>5. ASSUME NEW here, NEW file \in Files, NEW there \in Building,
             ReadsInto(t, here, file, there), here \in Building, there # "read rows",
             there \in Noted => file = "notes"
      PROVE  asker' \in [Threads -> AskerRecords] /\ OneFlight' /\ NotesRead'
  <2>1. disk[file] \in Nat /\ asker[t].at = here /\ there \in Places /\ file \in Files
    BY <1>3, <1>5 DEF ViewsShape, ReadsInto, Places
  <2>2. asker' = [asker EXCEPT ![t] = GotAs(asker[t], there, file, disk[file])]
    BY <1>3, <1>5, ReadsOne
  <2>3. /\ GotAs(asker[t], there, file, disk[file]) \in AskerRecords
        /\ GotAs(asker[t], there, file, disk[file]).at = there
        /\ GotAs(asker[t], there, file, disk[file]).asked = asker[t].asked
        /\ file = "notes" => GotAs(asker[t], there, file, disk[file]).got["notes"] = disk["notes"]
    BY <1>1, <2>1, ReadRecord
  <2>4. there \notin Stamped /\ there \notin Scanning /\ there # "release" /\ there # "answered"
        /\ here \in Flying
    BY <1>5 DEF Building, Stamped, Scanning, Flying
  <2>5. Knows(GotAs(asker[t], there, file, disk[file]), disk["notes"], flight.ended)
    BY <1>1, <1>5, <2>1, <2>3, <2>4 DEF Knows
  <2> QED
    BY <1>2, <2>1, <2>2, <2>3, <2>4, <2>5, OneThreadMoves
<1>6. CASE ReadsInto(t, "walk", "events", "read notes")
  BY <1>3, <1>5, <1>6 DEF Building, Noted, Checking
<1>7. CASE ReadsInto(t, "read notes", "notes", "stamp rows")
  BY <1>3, <1>5, <1>7 DEF Building
<1>8. ASSUME NEW here, NEW file \in Files, NEW there \in Building,
             Stamps(t, here, file, there), here \in Building, here \in Noted
      PROVE  asker' \in [Threads -> AskerRecords] /\ OneFlight' /\ NotesRead'
  <2>1. asker[t].at = here /\ there \in Places /\ disk[file] \in Nat
    BY <1>3, <1>8 DEF Stamps, Places, ViewsShape
  <2>2. asker' = [asker EXCEPT ![t] = StampedAs(asker[t], there, file, disk[file])]
    BY <1>3, <1>8, StampsOne
  <2>3. /\ StampedAs(asker[t], there, file, disk[file]) \in AskerRecords
        /\ StampedAs(asker[t], there, file, disk[file]).at = there
        /\ StampedAs(asker[t], there, file, disk[file]).asked = asker[t].asked
        /\ StampedAs(asker[t], there, file, disk[file]).got = asker[t].got
    BY <1>1, <1>8, <2>1, StampedRecord
  <2>4. Knows(StampedAs(asker[t], there, file, disk[file]), disk["notes"], flight.ended)
    BY <1>1, <1>8, <2>1, <2>3 DEF Knows, Stamped, Scanning, Building
  <2>5. asker[t].at \in Flying
    BY <1>8, <2>1 DEF Flying, Building
  <2> QED
    BY <1>2, <2>2, <2>3, <2>4, <2>5, OneThreadMoves
<1>9. CASE Stamps(t, "stamp rows", "jobs", "read rows")
  BY <1>3, <1>8, <1>9 DEF Building, Noted
<1> QED
  BY <1>6, <1>7, <1>9 DEF Walks

\* A thread that goes elsewhere on the same flight: what it takes along of
\* the notes is as new there as the place asks for.
LEMMA GoesElsewhere ==
    ASSUME ViewsInv, NEW t \in Threads, NEW there \in Places,
           NEW stamp \in ViewVersions, NEW got \in ViewVersions,
           asker' = [asker EXCEPT ![t] = RecordAs(asker[t], there, stamp, got)],
           disk' = disk, flight' = flight,
           there \in Flying => asker[t].at \in Flying,
           there \notin Stamped, there \notin Scanning, there # "release",
           there \in Noted \union {"answered"} => got["notes"] >= asker[t].asked["notes"]
    PROVE  asker' \in [Threads -> AskerRecords] /\ OneFlight' /\ NotesRead'
<1>1. asker[t] \in AskerRecords /\ Knows(asker[t], disk["notes"], flight.ended)
  BY DEF ViewsInv, ViewsShape, NotesRead
<1>2. /\ RecordAs(asker[t], there, stamp, got) \in AskerRecords
      /\ RecordAs(asker[t], there, stamp, got).at = there
      /\ RecordAs(asker[t], there, stamp, got).asked = asker[t].asked
      /\ RecordAs(asker[t], there, stamp, got).got = got
  BY <1>1, OtherRecord
<1>3. Knows(RecordAs(asker[t], there, stamp, got), disk["notes"], flight.ended)
  BY <1>1, <1>2 DEF Knows
<1> QED
  BY <1>2, <1>3, OneThreadMoves

\* input_stamp was taken after the request came: an overview with the notes
\* of that stamp is new enough.
LEMMA LookKeeps ==
    ASSUME ViewsInv, NEW t \in Threads, Looks(t)
    PROVE  ViewsInv'
<1>1. asker[t] \in AskerRecords /\ Knows(asker[t], disk["notes"], flight.ended)
      /\ asker[t].at = "look" /\ asker[t].stamp \in ViewVersions /\ asker[t].got \in ViewVersions
  BY DEF ViewsInv, ViewsShape, NotesRead, Looks, AskerRecords
<1>2. disk' = disk /\ flight' = flight
      /\ overviews' = overviews /\ jobRows' = jobRows /\ turnViews' = turnViews
  BY DEF Looks
<1>3. SUFFICES asker' \in [Threads -> AskerRecords] /\ OneFlight' /\ NotesRead'
  BY <1>2 DEF ViewsInv, ViewsShape
<1>4. asker \in [Threads -> AskerRecords] /\ Unread \in ViewVersions
  BY IdleIsAsker DEF ViewsInv, ViewsShape
<1>5. CASE Reusable(t)
  <2>1. overviews.got \in ViewVersions /\ overviews.got["notes"] = asker[t].stamp["notes"]
    BY <1>5 DEF Reusable, ViewsInv, ViewsShape
  <2>2. overviews.got["notes"] >= asker[t].asked["notes"]
    BY <1>1, <2>1 DEF Knows, Stamped
  <2>3. asker' = [asker EXCEPT ![t] = RecordAs(asker[t], "answered", Unread, overviews.got)]
    BY <1>4, <1>5 DEF Looks, Given, RecordAs
  <2>4. "answered" \in Places /\ "answered" \notin Flying /\ "answered" \notin Stamped
        /\ "answered" \notin Scanning /\ "answered" # "release"
    BY DEF Places, Flying, Stamped, Scanning, Building, Checking
  <2> QED
    BY <1>2, <1>4, <2>1, <2>2, <2>3, <2>4, GoesElsewhere
<1>6. CASE ~Reusable(t)
  <2>1. asker' = [asker EXCEPT ![t] = RecordAs(asker[t], "take", asker[t].stamp, asker[t].got)]
    BY <1>1, <1>4, <1>6 DEF Looks, RecordAs, AskerRecords
  <2>2. "take" \in Places /\ "take" \notin Flying /\ "take" \notin Stamped
        /\ "take" \notin Scanning /\ "take" # "release" /\ "take" \notin Noted \union {"answered"}
    BY DEF Places, Flying, Stamped, Scanning, Building, Checking, Noted
  <2> QED
    BY <1>1, <1>2, <2>1, <2>2, GoesElsewhere
<1> QED
  BY <1>5, <1>6

\* Who joined looks again from the start.
LEMMA RetryKeeps ==
    ASSUME ViewsInv, NEW t \in Threads, Retries(t)
    PROVE  ViewsInv'
<1>1. asker[t] \in AskerRecords /\ asker[t].stamp \in ViewVersions /\ asker[t].got \in ViewVersions
  BY DEF ViewsInv, ViewsShape, AskerRecords
<1>2. disk' = disk /\ flight' = flight
      /\ overviews' = overviews /\ jobRows' = jobRows /\ turnViews' = turnViews
  BY DEF Retries
<1>3. asker' = [asker EXCEPT ![t] = RecordAs(asker[t], "stamp notes", asker[t].stamp, asker[t].got)]
  BY <1>1 DEF Retries, AskerGoes, RecordAs, AskerRecords, ViewsInv, ViewsShape
<1>4. "stamp notes" \in Places /\ "stamp notes" \notin Flying /\ "stamp notes" \notin Stamped
      /\ "stamp notes" \notin Scanning /\ "stamp notes" # "release"
      /\ "stamp notes" \notin Noted \union {"answered"}
  BY DEF Places, Flying, Stamped, Stamping, Scanning, Building, Checking, Noted
<1>5. asker' \in [Threads -> AskerRecords] /\ OneFlight' /\ NotesRead'
  BY <1>1, <1>2, <1>3, <1>4, GoesElsewhere
<1> QED
  BY <1>2, <1>5 DEF ViewsInv, ViewsShape

\* The job rows are those of the cache or of the disk; the notes stay.
LEMMA RowsKeep ==
    ASSUME ViewsInv, NEW t \in Threads, ReadsRows(t)
    PROVE  ViewsInv'
<1> DEFINE rows == IF jobRows # Nothing /\ jobRows.key = RowsKey(t)
                   THEN jobRows ELSE [key |-> RowsKey(t), got |-> disk["jobs"]]
           got == [asker[t].got EXCEPT !["jobs"] = rows.got]
<1>1. asker[t] \in AskerRecords /\ Knows(asker[t], disk["notes"], flight.ended)
      /\ asker[t].at = "read rows" /\ asker[t].got \in ViewVersions
      /\ asker \in [Threads -> AskerRecords] /\ Unread \in ViewVersions
  BY IdleIsAsker DEF ViewsInv, ViewsShape, NotesRead, ReadsRows, AskerRecords
<1>2. disk' = disk /\ flight' = flight /\ overviews' = overviews /\ turnViews' = turnViews
      /\ jobRows' = rows
  BY DEF ReadsRows
<1>3. rows.got \in Nat
  BY DEF ViewsInv, ViewsShape, Files
<1>4. got \in ViewVersions /\ got["notes"] = asker[t].got["notes"]
  BY <1>1, <1>3 DEF ViewVersions
<1>5. asker' = [asker EXCEPT ![t] = RecordAs(asker[t], "check notes", Unread, got)]
  BY <1>1 DEF ReadsRows, RecordAs, AskerRecords
<1>6. "check notes" \in Places /\ "check notes" \notin Stamped
      /\ "check notes" \notin Scanning /\ "check notes" # "release" /\ asker[t].at \in Flying
  BY <1>1 DEF Places, Flying, Stamped, Scanning, Building, Checking
<1>7. got["notes"] >= asker[t].asked["notes"]
  BY <1>1, <1>4 DEF Knows, Noted
<1>8. asker' \in [Threads -> AskerRecords] /\ OneFlight' /\ NotesRead'
  BY <1>1, <1>2, <1>4, <1>5, <1>6, <1>7, GoesElsewhere
<1> QED
  BY <1>2, <1>3, <1>8 DEF ViewsInv, ViewsShape

\* The cache takes the overview or stays.
LEMMA StoreKeeps ==
    ASSUME ViewsInv, NEW t \in Threads, StoresOverview(t)
    PROVE  ViewsInv'
<1>1. asker[t] \in AskerRecords /\ Knows(asker[t], disk["notes"], flight.ended)
      /\ asker[t].at = "store" /\ asker[t].got \in ViewVersions
      /\ asker \in [Threads -> AskerRecords] /\ Unread \in ViewVersions
  BY IdleIsAsker DEF ViewsInv, ViewsShape, NotesRead, StoresOverview, AskerRecords
<1>2. disk' = disk /\ flight' = flight /\ jobRows' = jobRows /\ turnViews' = turnViews
  BY DEF StoresOverview
<1>3. overviews' # Nothing => overviews'.got \in ViewVersions
  BY <1>1 DEF StoresOverview, ViewsInv, ViewsShape
<1>4. asker' = [asker EXCEPT ![t] = RecordAs(asker[t], "resolve", Unread, asker[t].got)]
  BY <1>1 DEF StoresOverview, RecordAs, AskerRecords
<1>5. "resolve" \in Places /\ "resolve" \notin Stamped
      /\ "resolve" \notin Scanning /\ "resolve" # "release" /\ asker[t].at \in Flying
  BY <1>1 DEF Places, Flying, Stamped, Scanning
<1>6. asker[t].got["notes"] >= asker[t].asked["notes"]
  BY <1>1 DEF Knows, Noted
<1>7. asker' \in [Threads -> AskerRecords] /\ OneFlight' /\ NotesRead'
  BY <1>1, <1>2, <1>4, <1>5, <1>6, GoesElsewhere
<1> QED
  BY <1>2, <1>3, <1>7 DEF ViewsInv, ViewsShape

\* What a thread that waited does next, by how the build ended.
LEMMA AfterRecord ==
    ASSUME NEW r \in AskerRecords, NEW ended \in {"no", "built", "raised"}, NEW now \in Nat,
           NEW seen, Knows(r, now, seen)
    PROVE  /\ After(r, ended) \in AskerRecords /\ After(r, ended).at \notin Flying
           /\ \A other : Knows(After(r, ended), now, other)
<1>1. Unread \in ViewVersions /\ r.stamp \in ViewVersions /\ r.got \in ViewVersions
  BY IdleIsAsker DEF AskerRecords
<1>2. "join" \in Places /\ "retry" \in Places
  BY DEF Places
<1>3. ASSUME NEW there \in {"join", "retry"}
      PROVE  /\ [r EXCEPT !.at = there, !.stamp = Unread] \in AskerRecords
             /\ [r EXCEPT !.at = there, !.stamp = Unread].at = there
             /\ [r EXCEPT !.at = there, !.stamp = Unread].asked = r.asked
  BY <1>1, <1>2, <1>3 DEF AskerRecords
<1>4. ASSUME NEW there \in {"join", "retry"}, NEW other
      PROVE  Knows([r EXCEPT !.at = there, !.stamp = Unread], now, other)
  BY <1>3, <1>4 DEF Knows, Stamped, Noted, Scanning, Checking
<1>5. "join" \notin Flying /\ "retry" \notin Flying /\ "failed" \notin Flying
  BY DEF Flying, Building, Checking
<1>6. CASE ended = "no"
  <2>1. After(r, ended) = [r EXCEPT !.at = "join", !.stamp = Unread]
    BY <1>6 DEF After
  <2> QED
    BY <1>3, <1>4, <1>5, <2>1
<1>7. CASE ended = "built"
  <2>1. After(r, ended) = [r EXCEPT !.at = "retry", !.stamp = Unread]
    BY <1>7 DEF After
  <2> QED
    BY <1>3, <1>4, <1>5, <2>1
<1>8. CASE ended = "raised"
  <2>1. After(r, ended) = Failure
    BY <1>8 DEF After
  <2> QED
    BY <1>5, <2>1, IdleIsAsker, KnowsNothing
<1> QED
  BY <1>6, <1>7, <1>8

\* The first to come takes the flight, the others do as it ended.
LEMMA TakeKeeps ==
    ASSUME ViewsInv, NEW t \in Threads, TakesFlight(t)
    PROVE  ViewsInv'
<1>1. asker[t] \in AskerRecords /\ Knows(asker[t], disk["notes"], flight.ended)
      /\ asker[t].at = "take" /\ asker[t].got \in ViewVersions /\ disk["notes"] \in Nat
      /\ asker \in [Threads -> AskerRecords] /\ Unread \in ViewVersions
      /\ flight.ended \in {"no", "built", "raised"}
  BY IdleIsAsker DEF ViewsInv, ViewsShape, NotesRead, TakesFlight, AskerRecords, Files
<1>2. disk' = disk /\ overviews' = overviews /\ jobRows' = jobRows /\ turnViews' = turnViews
  BY DEF TakesFlight
<1>3. CASE flight.owner = Nothing
  <2> DEFINE r == RecordAs(asker[t], "walk", Unread, asker[t].got)
  <2>1. asker' = [asker EXCEPT ![t] = RecordAs(asker[t], "walk", Unread, asker[t].got)]
    BY <1>1, <1>3 DEF TakesFlight, RecordAs, AskerRecords
  <2>2. flight' = [owner |-> t, ended |-> "no"]
    BY <1>3 DEF TakesFlight
  <2>3. "walk" \in Places /\ "walk" \notin Stamped /\ "walk" \notin Noted
        /\ "walk" \notin Scanning
    BY DEF Places, Stamped, Noted, Scanning, Building, Checking
  <2>4. /\ RecordAs(asker[t], "walk", Unread, asker[t].got) \in AskerRecords
        /\ RecordAs(asker[t], "walk", Unread, asker[t].got).at = "walk"
        /\ RecordAs(asker[t], "walk", Unread, asker[t].got).asked = asker[t].asked
    BY <1>1, <2>3, OtherRecord
  <2>5. Knows(RecordAs(asker[t], "walk", Unread, asker[t].got), disk["notes"], "no")
    BY <1>1, <2>3, <2>4 DEF Knows
  <2>6. \A u \in Threads : asker[u].at \notin Flying
    BY <1>3, ViewsAssumption DEF ViewsInv, OneFlight
  <2>7. ViewsShape'
    BY <1>1, <1>2, <2>1, <2>2, <2>4 DEF ViewsInv, ViewsShape
  <2>8. OneFlight'
    BY <1>1, <2>1, <2>2, <2>6 DEF OneFlight
  <2>9. ASSUME NEW u \in Threads PROVE Knows(asker'[u], disk["notes"], "no")
    <3>1. CASE u = t
      BY <1>1, <2>1, <2>5, <3>1
    <3>2. CASE u # t
      <4>1. asker'[u] = asker[u] /\ Knows(asker[u], disk["notes"], flight.ended)
        BY <1>1, <2>1, <2>9, <3>2 DEF ViewsInv, NotesRead
      <4> QED
        BY <4>1 DEF Knows
    <3> QED
      BY <3>1, <3>2
  <2>10. NotesRead'
    BY <1>2, <2>2, <2>9 DEF NotesRead
  <2> QED
    BY <2>7, <2>8, <2>10 DEF ViewsInv
<1>4. CASE flight.owner # Nothing
  <2>1. asker' = [asker EXCEPT ![t] = After(asker[t], flight.ended)] /\ flight' = flight
    BY <1>4 DEF TakesFlight
  <2>2. /\ After(asker[t], flight.ended) \in AskerRecords
        /\ After(asker[t], flight.ended).at \notin Flying
        /\ Knows(After(asker[t], flight.ended), disk["notes"], flight.ended)
    BY <1>1, AfterRecord
  <2>3. asker' \in [Threads -> AskerRecords] /\ OneFlight' /\ NotesRead'
    BY <1>2, <2>1, <2>2, OneThreadMoves
  <2> QED
    BY <1>2, <2>1, <2>3 DEF ViewsInv, ViewsShape
<1> QED
  BY <1>3, <1>4

\* The build ends: its thread releases the flight next, and who waited goes on.
LEMMA ResolveKeeps ==
    ASSUME ViewsInv, NEW t \in Threads, NEW ended \in {"built", "raised"}, Resolved(t, ended),
           asker[t].at \in Flying, asker[t].at # "release",
           ended = "built" => asker[t].at = "resolve"
    PROVE  ViewsInv'
<1>1. asker \in [Threads -> AskerRecords] /\ disk["notes"] \in Nat
      /\ flight \in [owner : Threads \union {Nothing}, ended : {"no", "built", "raised"}]
  BY DEF ViewsInv, ViewsShape, Files
<1>2. /\ disk' = disk /\ overviews' = overviews /\ jobRows' = jobRows /\ turnViews' = turnViews
      /\ flight' = [flight EXCEPT !.ended = ended]
  BY DEF Resolved
<1>3. flight'.owner = flight.owner /\ flight'.ended = ended
      /\ flight' \in [owner : Threads \union {Nothing}, ended : {"no", "built", "raised"}]
  BY <1>1, <1>2
<1>4. asker[t] \in AskerRecords /\ Knows(asker[t], disk["notes"], flight.ended)
      /\ flight.owner = t
  BY <1>1 DEF ViewsInv, NotesRead, OneFlight
<1>5. \A u \in Threads : asker'[u] = IF u = t THEN [asker[u] EXCEPT !.at = "release"]
                                     ELSE IF asker[u].at = "join" THEN After(asker[u], ended)
                                     ELSE asker[u]
  BY DEF Resolved
<1>6. ASSUME NEW u \in Threads
      PROVE  /\ asker'[u] \in AskerRecords /\ Knows(asker'[u], disk["notes"], ended)
             /\ asker'[u].at \in Flying => u = t
  <2>1. asker[u] \in AskerRecords /\ Knows(asker[u], disk["notes"], flight.ended)
    BY <1>1 DEF ViewsInv, NotesRead
  <2>2. CASE u = t
    <3>1. asker'[u] = [asker[t] EXCEPT !.at = "release"]
      BY <1>5, <2>2
    <3>2. "release" \in Places /\ "release" \notin Stamped /\ "release" \notin Noted
          /\ "release" \notin Scanning /\ "resolve" \in Noted
      BY DEF Places, Stamped, Noted, Scanning, Building, Checking
    <3>3. /\ asker'[u] \in AskerRecords /\ asker'[u].at = "release"
          /\ asker'[u].asked = asker[t].asked /\ asker'[u].got = asker[t].got
      BY <1>4, <3>1, <3>2 DEF AskerRecords
    <3>4. ended = "built" => asker[t].got["notes"] >= asker[t].asked["notes"]
      BY <1>4, <3>2 DEF Knows
    <3> QED
      BY <1>4, <2>2, <3>2, <3>3, <3>4 DEF Knows
  <2>3. CASE u # t /\ asker[u].at = "join"
    <3>1. asker'[u] = After(asker[u], ended)
      BY <1>5, <2>3
    <3>2. /\ After(asker[u], ended) \in AskerRecords /\ After(asker[u], ended).at \notin Flying
          /\ Knows(After(asker[u], ended), disk["notes"], ended)
      BY <1>1, <2>1, AfterRecord
    <3> QED
      BY <3>1, <3>2
  <2>4. CASE u # t /\ asker[u].at # "join"
    <3>1. asker'[u] = asker[u]
      BY <1>5, <2>4
    <3>2. asker[u].at \notin Flying
      BY <1>4, <2>4 DEF ViewsInv, OneFlight
    <3>3. asker[u].at # "release"
      BY <3>2 DEF Flying
    <3>4. Knows(asker[u], disk["notes"], ended)
      BY <2>1, <3>3 DEF Knows
    <3>5. asker'[u] \in AskerRecords /\ Knows(asker'[u], disk["notes"], ended)
      BY <2>1, <3>1, <3>4
    <3>6. asker'[u].at \notin Flying
      BY <3>1, <3>2
    <3> QED
      BY <3>5, <3>6
  <2> QED
    BY <2>2, <2>3, <2>4
<1>7. asker' \in [Threads -> AskerRecords]
  BY <1>6 DEF Resolved
<1>8. ViewsShape'
  BY <1>2, <1>3, <1>7 DEF ViewsInv, ViewsShape
<1>9. OneFlight' /\ NotesRead'
  BY <1>2, <1>3, <1>4, <1>6 DEF OneFlight, NotesRead
<1> QED
  BY <1>8, <1>9 DEF ViewsInv

\* The flight leaves the table with its holder's answer.
LEMMA ReleaseKeeps ==
    ASSUME ViewsInv, NEW t \in Threads, Releases(t)
    PROVE  ViewsInv'
<1>1. asker[t] \in AskerRecords /\ Knows(asker[t], disk["notes"], flight.ended)
      /\ asker[t].at = "release" /\ asker[t].got \in ViewVersions /\ disk["notes"] \in Nat
      /\ asker \in [Threads -> AskerRecords] /\ Unread \in ViewVersions
  BY IdleIsAsker DEF ViewsInv, ViewsShape, NotesRead, Releases, AskerRecords, Files
<1>2. /\ disk' = disk /\ overviews' = overviews /\ jobRows' = jobRows /\ turnViews' = turnViews
      /\ flight' = NoFlight
      /\ asker' = [asker EXCEPT ![t] = IF flight.ended = "built" THEN Given(asker[t], asker[t].got)
                                       ELSE Failure]
  BY <1>1 DEF Releases
<1>3. NoFlight \in [owner : Threads \union {Nothing}, ended : {"no", "built", "raised"}]
      /\ NoFlight.ended = "no"
  BY DEF NoFlight
<1>4. asker'[t] \in AskerRecords /\ asker'[t].at \notin Flying
      /\ Knows(asker'[t], disk["notes"], "no")
  <2>1. CASE flight.ended = "built"
    <3>1. asker'[t] = RecordAs(asker[t], "answered", Unread, asker[t].got)
      BY <1>1, <1>2, <2>1 DEF Given, RecordAs, AskerRecords
    <3>2. "answered" \in Places /\ "answered" \notin Flying /\ "answered" \notin Stamped
          /\ "answered" \notin Scanning /\ "answered" \notin Noted
      BY DEF Places, Flying, Stamped, Noted, Scanning, Building, Checking
    <3>3. /\ asker'[t] \in AskerRecords /\ asker'[t].at = "answered"
          /\ asker'[t].asked = asker[t].asked /\ asker'[t].got = asker[t].got
      BY <1>1, <3>1, <3>2, OtherRecord
    <3> QED
      BY <1>1, <2>1, <3>2, <3>3 DEF Knows
  <2>2. CASE flight.ended # "built"
    <3>1. asker'[t] = Failure
      BY <1>1, <1>2, <2>2
    <3>2. "failed" \notin Flying
      BY DEF Flying, Building, Checking
    <3> QED
      BY <1>1, <3>1, <3>2, IdleIsAsker, KnowsNothing
  <2> QED
    BY <2>1, <2>2
<1>5. ASSUME NEW u \in Threads, u # t
      PROVE  /\ asker'[u] = asker[u] /\ asker[u].at \notin Flying
             /\ Knows(asker[u], disk["notes"], "no")
  <2>1. asker'[u] = asker[u]
    BY <1>1, <1>2, <1>5
  <2>2. asker[u].at \notin Flying
    BY <1>1, <1>5 DEF ViewsInv, OneFlight, Flying
  <2>3. Knows(asker[u], disk["notes"], flight.ended)
    BY <1>5 DEF ViewsInv, NotesRead
  <2> QED
    BY <2>1, <2>2, <2>3 DEF Knows, Flying
<1>6. ViewsShape'
  <2>1. asker' \in [Threads -> AskerRecords]
    BY <1>1, <1>2, <1>4
  <2> QED
    BY <1>2, <1>3, <2>1 DEF ViewsInv, ViewsShape
<1>7. OneFlight'
  BY <1>4, <1>5 DEF OneFlight
<1>8. \A u \in Threads : Knows(asker'[u], disk["notes"], "no")
  BY <1>4, <1>5
<1>9. NotesRead'
  BY <1>2, <1>3, <1>8 DEF NotesRead
<1> QED
  BY <1>6, <1>7, <1>9 DEF ViewsInv

\* session/turns reads no notes.
LEMMA ParseKeeps ==
    ASSUME ViewsInv, NEW t \in Threads, ParsesTurns(t)
    PROVE  ViewsInv'
<1>1. asker[t] \in AskerRecords /\ Knows(asker[t], disk["notes"], flight.ended)
  BY DEF ViewsInv, ViewsShape, NotesRead
<1>2. disk' = disk /\ flight' = flight
      /\ overviews' = overviews /\ jobRows' = jobRows /\ turnViews' = turnViews
  BY DEF ParsesTurns
<1>3. SUFFICES asker' \in [Threads -> AskerRecords] /\ OneFlight' /\ NotesRead'
  BY <1>2 DEF ViewsInv, ViewsShape
<1>4. ASSUME NEW here \in Scanning, NEW file \in Files, NEW there \in Scanning, file # "notes",
             ReadsInto(t, here, file, there)
      PROVE  asker' \in [Threads -> AskerRecords] /\ OneFlight' /\ NotesRead'
  <2>1. disk[file] \in Nat /\ asker[t].at = here /\ there \in Places /\ file \in Files
    BY <1>4 DEF ViewsInv, ViewsShape, ReadsInto, Places
  <2>2. asker' = [asker EXCEPT ![t] = GotAs(asker[t], there, file, disk[file])]
    BY <1>4, ReadsOne DEF ViewsInv
  <2>3. /\ GotAs(asker[t], there, file, disk[file]) \in AskerRecords
        /\ GotAs(asker[t], there, file, disk[file]).at = there
        /\ GotAs(asker[t], there, file, disk[file]).asked = asker[t].asked
        /\ file # "notes" => GotAs(asker[t], there, file, disk[file]).got["notes"] = asker[t].got["notes"]
    BY <1>1, <2>1, ReadRecord
  <2>4. there \notin Stamped /\ there \notin Noted /\ there \notin Flying
        /\ there # "release" /\ there # "answered"
    BY <1>4 DEF Scanning, Stamped, Noted, Flying, Building, Checking
  <2>5. Knows(GotAs(asker[t], there, file, disk[file]), disk["notes"], flight.ended)
    BY <1>1, <1>4, <2>1, <2>3, <2>4 DEF Knows
  <2> QED
    BY <1>2, <2>2, <2>3, <2>4, <2>5, OneThreadMoves
<1>5. ASSUME NEW here \in Scanning, NEW file \in Files, NEW there \in Scanning,
             Stamps(t, here, file, there)
      PROVE  asker' \in [Threads -> AskerRecords] /\ OneFlight' /\ NotesRead'
  <2>1. disk[file] \in Nat /\ asker[t].at = here /\ there \in Places /\ file \in Files
    BY <1>5 DEF ViewsInv, ViewsShape, Stamps, Places
  <2>2. asker' = [asker EXCEPT ![t] = StampedAs(asker[t], there, file, disk[file])]
    BY <1>5, StampsOne DEF ViewsInv
  <2>3. /\ StampedAs(asker[t], there, file, disk[file]) \in AskerRecords
        /\ StampedAs(asker[t], there, file, disk[file]).at = there
        /\ StampedAs(asker[t], there, file, disk[file]).asked = asker[t].asked
        /\ StampedAs(asker[t], there, file, disk[file]).got = asker[t].got
    BY <1>1, <2>1, StampedRecord
  <2>4. there \notin Stamped /\ there \notin Noted /\ there \notin Flying
        /\ there # "release" /\ there # "answered"
    BY <1>5 DEF Scanning, Stamped, Noted, Flying, Building, Checking
  <2>5. Knows(StampedAs(asker[t], there, file, disk[file]), disk["notes"], flight.ended)
    BY <1>1, <1>5, <2>1, <2>3, <2>4 DEF Knows
  <2> QED
    BY <1>2, <2>2, <2>3, <2>4, <2>5, OneThreadMoves
<1>6. CASE ReadsInto(t, "parse", "events", "stamp turns")
  BY <1>4, <1>6 DEF Scanning, Files
<1>7. CASE Stamps(t, "stamp turns", "events", "view turns")
  BY <1>5, <1>7 DEF Scanning, Files
<1> QED
  BY <1>6, <1>7 DEF ParsesTurns

LEMMA TurnsKeep ==
    ASSUME ViewsInv, NEW t \in Threads, ViewsTurns(t)
    PROVE  ViewsInv'
<1> DEFINE stamp == asker[t].stamp.events
           view == IF turnViews # Nothing /\ turnViews.stamp = stamp THEN turnViews
                   ELSE [stamp |-> stamp, turns |-> asker[t].got.events]
           got == [asker[t].got EXCEPT !["turns"] = view.turns]
           r == Given(asker[t], got)
<1>1. asker[t] \in AskerRecords /\ Knows(asker[t], disk["notes"], flight.ended)
      /\ asker[t].at = "view turns" /\ asker[t].got \in ViewVersions
      /\ asker \in [Threads -> AskerRecords] /\ Unread \in ViewVersions
  BY IdleIsAsker DEF ViewsInv, ViewsShape, NotesRead, ViewsTurns, AskerRecords
<1>2. disk' = disk /\ flight' = flight /\ overviews' = overviews /\ jobRows' = jobRows
      /\ turnViews' = view
  BY DEF ViewsTurns
<1>3. view.turns \in Nat
  BY <1>1 DEF ViewsInv, ViewsShape, ViewVersions
<1>4. got \in ViewVersions /\ got["notes"] = asker[t].got["notes"]
  BY <1>1, <1>3 DEF ViewVersions
<1>5. asker' = [asker EXCEPT ![t] = r]
  BY <1>1 DEF ViewsTurns, Given, AskerRecords
<1>6. "answered" \in Places /\ "answered" \notin Flying /\ "answered" \notin Stamped
      /\ "answered" \notin Scanning /\ "answered" \notin Noted
  BY DEF Places, Flying, Stamped, Noted, Scanning, Building, Checking
<1>7. /\ r \in AskerRecords /\ r.at = "answered"
      /\ r.asked = asker[t].asked /\ r.got = got
  BY <1>1, <1>4, GivenRecord
<1>8. got["notes"] = 0
  BY <1>1, <1>4 DEF Knows, Scanning
<1>9. Knows(r, disk["notes"], flight.ended)
  <2> HIDE DEF r, got
  <2> QED
    BY <1>1, <1>6, <1>7, <1>8 DEF Knows
<1>10. asker' \in [Threads -> AskerRecords] /\ OneFlight' /\ NotesRead'
  <2> HIDE DEF r
  <2> QED
    BY <1>2, <1>5, <1>6, <1>7, <1>9, OneThreadMoves
<1> QED
  BY <1>2, <1>3, <1>10 DEF ViewsInv, ViewsShape

-----------------------------------------------------------------------------
(***************************************************************************)
(* The session moves; then all of it together.                             *)
(***************************************************************************)
LEMMA KnowsLater ==
    ASSUME NEW r, NEW now \in Nat, NEW later \in Nat, later >= now, NEW ended,
           r.asked["notes"] \in Nat, Knows(r, now, ended)
    PROVE  Knows(r, later, ended)
<1>1. r.asked["notes"] <= later
  BY DEF Knows
<1> QED
  BY <1>1 DEF Knows

\* What is on disk only gets newer, and what was read was read.
LEMMA WorldKeeps ==
    ASSUME ViewsInv, SessionMoves \/ WritesNote \/ Drops \/ Evicts
    PROVE  ViewsInv'
<1>1. asker' = asker /\ flight' = flight
  BY DEF SessionMoves, WritesNote, Drops, Evicts, Moves
<1>2. disk' \in [Files -> Nat] /\ disk["notes"] \in Nat /\ disk'["notes"] >= disk["notes"]
  <2>1. disk \in [Files -> Nat] /\ "notes" \in Files
    BY DEF ViewsInv, ViewsShape, Files
  <2>2. ASSUME NEW file \in Files, Moves(file)
        PROVE  disk' \in [Files -> Nat] /\ disk'["notes"] >= disk["notes"]
    BY <2>1, <2>2 DEF Moves
  <2>3. CASE SessionMoves
    BY <2>1, <2>2, <2>3 DEF SessionMoves, Files
  <2>4. CASE WritesNote
    BY <2>1, <2>2, <2>4 DEF WritesNote, Files
  <2>5. CASE Drops \/ Evicts
    BY <2>1, <2>5 DEF Drops, Evicts
  <2> QED
    BY <2>1, <2>3, <2>4, <2>5
<1>3. /\ overviews' # Nothing => overviews' = overviews
      /\ jobRows' # Nothing => jobRows' = jobRows
      /\ turnViews' # Nothing => turnViews' = turnViews
  BY DEF SessionMoves, WritesNote, Drops, Evicts, Moves
<1>4. ViewsShape' /\ OneFlight'
  BY <1>1, <1>2, <1>3 DEF ViewsInv, ViewsShape, OneFlight
<1>5. ASSUME NEW t \in Threads PROVE Knows(asker[t], disk'["notes"], flight.ended)
  <2>1. Knows(asker[t], disk["notes"], flight.ended)
    BY DEF ViewsInv, NotesRead
  <2>2. asker[t].asked["notes"] \in Nat
    BY DEF ViewsInv, ViewsShape, AskerRecords, ViewVersions, Files
  <2>3. disk'["notes"] \in Nat
    BY <1>2 DEF Files
  <2> QED
    BY <1>2, <2>1, <2>2, <2>3, KnowsLater
<1>6. NotesRead'
  BY <1>1, <1>5 DEF NotesRead
<1> QED
  BY <1>4, <1>6 DEF ViewsInv

LEMMA ViewsStepKeeps == ViewsInv /\ [ViewsNext]_viewVars => ViewsInv'
<1> SUFFICES ASSUME ViewsInv, [ViewsNext]_viewVars PROVE ViewsInv'
  OBVIOUS
<1>1. ASSUME NEW t \in Threads, AsksOverview(t) \/ AsksTurns(t) PROVE ViewsInv'
  BY <1>1, AskKeeps DEF AsksOverview, AsksTurns
<1>2. ASSUME NEW t \in Threads, Resolves(t) PROVE ViewsInv'
  BY <1>2, ResolveKeeps DEF Resolves, Flying
<1>3. ASSUME NEW t \in Threads, BuildFails(t) PROVE ViewsInv'
  BY <1>3, ResolveKeeps DEF BuildFails, Flying, Building, Checking
<1>4. ASSUME NEW t \in Threads, Advances(t) PROVE ViewsInv'
  BY <1>2, <1>4, StampKeeps, LookKeeps, TakeKeeps, RetryKeeps, WalkKeeps, RowsKeep, StoreKeeps,
     ReleaseKeeps, ParseKeeps, TurnsKeep DEF Advances
<1>5. CASE UNCHANGED viewVars
  BY <1>5 DEF viewVars, ViewsInv, ViewsShape, OneFlight, NotesRead
<1> QED
  BY <1>1, <1>3, <1>4, <1>5, WorldKeeps DEF ViewsNext

\* Whoever built it and whatever was written meanwhile, an overview shows
\* no notes older than those on disk when it was asked for
\* (SessionOverview.build, for every number of threads).
THEOREM OverviewAlwaysHasTheNotes == ViewsSpec => []OverviewHasTheNotes
<1>1. ViewsInv => OverviewHasTheNotes
  <2> SUFFICES ASSUME ViewsInv, NEW t \in Threads, GotOverview(t)
               PROVE  asker[t].got.notes >= asker[t].asked.notes
    BY DEF OverviewHasTheNotes
  <2>1. Knows(asker[t], disk["notes"], flight.ended)
    BY DEF ViewsInv, NotesRead
  <2> QED
    BY <2>1 DEF Knows, GotOverview
<1> QED
  BY <1>1, ViewsInitInv, ViewsStepKeeps, PTL DEF ViewsSpec

\* No two threads build the overview of a session at once, or hold what the
\* others wait for (SessionOverview._inflight).
BuildsAlone == \A t, u \in Threads : asker[t].at \in Flying /\ asker[u].at \in Flying => t = u
THEOREM OneBuildAtATime == ViewsSpec => []BuildsAlone
<1>1. ViewsInv => BuildsAlone
  BY DEF ViewsInv, OneFlight, BuildsAlone
<1> QED
  BY <1>1, ViewsInitInv, ViewsStepKeeps, PTL DEF ViewsSpec

-----------------------------------------------------------------------------
(***************************************************************************)
(* CatalogSnapshot.  A file that is whole holds no row older than its      *)
(* stamp (Honest), whichever run wrote it and wherever earlier ones        *)
(* stopped.  A call stamps a session after it was asked, and has no row    *)
(* older than the stamp (Sound): what it builds it reads later, and what   *)
(* it takes over stood under the same stamp in a whole file.  It reads the *)
(* file twice, so that this needs nobody else to write it between.         *)
(***************************************************************************)
RowRecords == BuiltRows \union {None}
FileRecords == [form : {"absent", "torn", "older", "whole"},
                stamps : [SessionDirs -> Versions], rows : [SessionDirs -> RowRecords]]
Calling == {"read", "check", "remap", "build", "open", "write", "answered"}
BuilderRecords == [pc : Calling \union {"idle", "stamp"}, dirs : SUBSET SessionDirs,
                   todo : SUBSET SessionDirs, stamps : [SessionDirs -> Versions],
                   cached : FileRecords, rows : [SessionDirs -> RowRecords],
                   changed : BOOLEAN, asked : [SessionDirs -> Versions]]

SnapshotShape ==
    /\ store \in [SessionDirs -> BuiltRows]
    /\ snapshot \in FileRecords
    /\ builder \in [Builders -> BuilderRecords]

NotBehind(stamps, rows) == \A s \in SessionDirs : rows[s] # None => rows[s].version >= stamps[s]
Honest(file) == file.form = "whole" => NotBehind(file.stamps, file.rows)

\* A call, when the sessions stand as now says and the file is file.
Sound(me, now, file) ==
    /\ \A s \in SessionDirs : me.asked[s] <= now[s].version /\ me.stamps[s] <= now[s].version
    /\ me.pc = "stamp" => \A s \in SessionDirs : s \in me.todo \/ me.asked[s] <= me.stamps[s]
    /\ me.pc \in Calling => \A s \in SessionDirs : me.asked[s] <= me.stamps[s]
    /\ me.pc = "stamp" => me.rows = NoneBuilt
    /\ me.pc = "check" => me.cached = file
    /\ Honest(me.cached)
    /\ NotBehind(me.stamps, me.rows)

SnapshotInv ==
    /\ SnapshotShape
    /\ Honest(snapshot)
    /\ \A b \in Builders : Sound(builder[b], store, snapshot)

OneBuilder == \A a, b \in Builders : a = b

-----------------------------------------------------------------------------
\* The records a call and a file begin with.
LEMMA EmptyRecords ==
    /\ NoFile \in FileRecords /\ TornFile \in FileRecords /\ IdleBuilder \in BuilderRecords
    /\ Honest(NoFile) /\ Honest(TornFile)
    /\ NoStamps \in [SessionDirs -> Versions] /\ NoneBuilt \in [SessionDirs -> RowRecords]
<1>1. 0 \in Versions
  BY SnapshotAssumption DEF Versions
<1>2. NoStamps \in [SessionDirs -> Versions] /\ NoneBuilt \in [SessionDirs -> RowRecords]
  BY <1>1 DEF NoStamps, NoneBuilt, RowRecords
<1>3. Payload(NoStamps, NoneBuilt) \in FileRecords
  BY <1>2 DEF Payload, FileRecords
<1>4. NoFile \in FileRecords /\ NoFile.form = "absent"
  BY <1>2 DEF FileRecords, NoFile, Payload
<1>5. TornFile \in FileRecords /\ TornFile.form = "torn"
  BY <1>4 DEF TornFile, FileRecords
<1>6. IdleBuilder \in BuilderRecords
  BY <1>2, <1>4 DEF IdleBuilder, BuilderRecords, Calling
<1> QED
  BY <1>2, <1>4, <1>5, <1>6 DEF Honest

\* A call that has not begun is sound.
LEMMA IdleSound ==
    ASSUME NEW now \in [SessionDirs -> BuiltRows], NEW file
    PROVE  Sound(IdleBuilder, now, file)
<1>1. /\ IdleBuilder.pc = "idle" /\ IdleBuilder.stamps = NoStamps /\ IdleBuilder.asked = NoStamps
      /\ IdleBuilder.rows = NoneBuilt /\ IdleBuilder.cached = NoFile
  BY DEF IdleBuilder
<1>2. \A s \in SessionDirs : NoStamps[s] = 0 /\ NoneBuilt[s] = None /\ now[s].version >= 0
  BY SnapshotAssumption DEF NoStamps, NoneBuilt, BuiltRows, Versions
<1>3. "idle" \notin Calling
  BY DEF Calling
<1> QED
  BY <1>1, <1>2, <1>3, EmptyRecords DEF Sound, NotBehind

LEMMA SnapshotInitInv == SnapshotInit => SnapshotInv
<1> SUFFICES ASSUME SnapshotInit PROVE SnapshotInv
  OBVIOUS
<1>1. store \in [SessionDirs -> BuiltRows]
  BY SnapshotAssumption DEF SnapshotInit, BuiltRows, Versions
<1>2. snapshot \in FileRecords /\ Honest(snapshot)
  <2>1. CASE snapshot = NoFile
    BY <2>1, EmptyRecords
  <2>2. CASE snapshot # NoFile
    <3> DEFINE stamps == [s \in SessionDirs |-> store[s].version]
               rows == [s \in SessionDirs |-> IF s \in There THEN [version |-> 0, live |-> FALSE] ELSE None]
    <3>1. snapshot = [form |-> "older", stamps |-> stamps, rows |-> rows]
      BY <2>2 DEF SnapshotInit
    <3>2. stamps \in [SessionDirs -> Versions]
      BY <1>1 DEF BuiltRows
    <3>3. rows \in [SessionDirs -> RowRecords]
      BY SnapshotAssumption DEF RowRecords, BuiltRows, Versions
    <3> HIDE DEF stamps, rows
    <3> QED
      BY <3>1, <3>2, <3>3 DEF FileRecords, Honest
  <2> QED
    BY <2>1, <2>2
<1>3. builder \in [Builders -> BuilderRecords] /\ \A b \in Builders : builder[b] = IdleBuilder
  BY EmptyRecords DEF SnapshotInit
<1> QED
  BY <1>1, <1>2, <1>3, IdleSound DEF SnapshotInv, SnapshotShape

-----------------------------------------------------------------------------
\* The one who lists takes a step.
LEMMA BuilderMoves ==
    ASSUME SnapshotInv, OneBuilder, NEW b \in Builders, NEW you \in BuilderRecords,
           BuilderGoes(b, you), store' = store, snapshot' \in FileRecords, Honest(snapshot'),
           Sound(you, store, snapshot')
    PROVE  SnapshotInv'
<1>1. builder' = [builder EXCEPT ![b] = you] /\ builder \in [Builders -> BuilderRecords]
  BY DEF BuilderGoes, SnapshotInv, SnapshotShape
<1>2. SnapshotShape'
  BY <1>1 DEF SnapshotInv, SnapshotShape
<1>3. \A u \in Builders : u = b /\ builder'[u] = you
  BY <1>1 DEF OneBuilder
<1> QED
  BY <1>2, <1>3 DEF SnapshotInv

\* The sessions move: versions only grow.
LEMMA StoreMoves ==
    ASSUME SnapshotInv, NEW s \in SessionDirs, Writes(s) \/ Settles(s)
    PROVE  SnapshotInv'
<1>1. store \in [SessionDirs -> BuiltRows] /\ builder \in [Builders -> BuilderRecords]
  BY DEF SnapshotInv, SnapshotShape
<1>2. store' \in [SessionDirs -> BuiltRows]
      /\ \A d \in SessionDirs : store'[d].version >= store[d].version
  <2>1. CASE Writes(s)
    <3>1. PICK live \in BOOLEAN :
             store' = [store EXCEPT ![s] = [version |-> @.version + 1, live |-> live]]
      BY <2>1 DEF Writes
    <3>2. store[s].version + 1 \in Versions /\ \A d \in SessionDirs : store[d].version \in Nat
      BY <1>1, <2>1, SnapshotAssumption DEF Writes, BuiltRows, Versions
    <3>3. [version |-> store[s].version + 1, live |-> live] \in BuiltRows
      BY <3>2 DEF BuiltRows
    <3>4. store' \in [SessionDirs -> BuiltRows]
      BY <1>1, <3>1, <3>3
    <3>5. \A d \in SessionDirs : store'[d].version >= store[d].version
      BY <1>1, <3>1, <3>2
    <3> QED
      BY <3>4, <3>5
  <2>2. CASE Settles(s)
    <3>1. store' = [store EXCEPT ![s] = [store[s] EXCEPT !.live = FALSE]]
      BY <2>2 DEF Settles
    <3>2. [store[s] EXCEPT !.live = FALSE] \in BuiltRows
          /\ [store[s] EXCEPT !.live = FALSE].version = store[s].version
          /\ \A d \in SessionDirs : store[d].version \in Nat
      <4>1. store[s] \in BuiltRows
        BY <1>1
      <4>2. \A d \in SessionDirs : store[d].version \in Nat
        BY <1>1, SnapshotAssumption DEF BuiltRows, Versions
      <4> QED
        BY <4>1, <4>2 DEF BuiltRows
    <3>3. store' \in [SessionDirs -> BuiltRows]
      BY <1>1, <3>1, <3>2
    <3>4. \A d \in SessionDirs : store'[d].version >= store[d].version
      BY <1>1, <3>1, <3>2
    <3> QED
      BY <3>3, <3>4
  <2> QED
    BY <2>1, <2>2
<1>3. builder' = builder /\ snapshot' = snapshot
  BY DEF Writes, Settles
<1>4. ASSUME NEW b \in Builders PROVE Sound(builder[b], store', snapshot)
  <2>1. Sound(builder[b], store, snapshot) /\ builder[b] \in BuilderRecords
    BY <1>1 DEF SnapshotInv
  <2>2. \A d \in SessionDirs : /\ builder[b].asked[d] \in Nat /\ builder[b].stamps[d] \in Nat
                               /\ store[d].version \in Nat /\ store'[d].version \in Nat
    BY <1>1, <1>2, <2>1, SnapshotAssumption DEF BuilderRecords, BuiltRows, Versions
  <2>3. \A d \in SessionDirs : /\ builder[b].asked[d] <= store'[d].version
                               /\ builder[b].stamps[d] <= store'[d].version
    BY <1>2, <2>1, <2>2 DEF Sound
  <2> QED
    BY <2>1, <2>3 DEF Sound
<1> QED
  BY <1>2, <1>3, <1>4 DEF SnapshotInv, SnapshotShape

\* load_or_rebuild_catalog begins: nothing is stamped, nothing built.
LEMMA ListsKeeps ==
    ASSUME SnapshotInv, OneBuilder, NEW b \in Builders, ListsDirs(b)
    PROVE  SnapshotInv'
<1> DEFINE asked == [s \in SessionDirs |-> store[s].version]
           you == [IdleBuilder EXCEPT !.pc = "stamp", !.dirs = There, !.todo = There, !.asked = asked]
<1>1. store \in [SessionDirs -> BuiltRows] /\ snapshot \in FileRecords /\ Honest(snapshot)
  BY DEF SnapshotInv, SnapshotShape
<1>2. BuilderGoes(b, you) /\ store' = store /\ snapshot' = snapshot
  BY DEF ListsDirs
<1>3. asked \in [SessionDirs -> Versions] /\ There \subseteq SessionDirs
      /\ \A s \in SessionDirs : asked[s] = store[s].version /\ store[s].version \in Nat
  BY <1>1, SnapshotAssumption DEF BuiltRows, There, Versions
<1>4. /\ you \in BuilderRecords /\ you.pc = "stamp" /\ you.todo = There /\ you.asked = asked
      /\ you.stamps = NoStamps /\ you.rows = NoneBuilt /\ you.cached = NoFile
  <2>1. IdleBuilder \in BuilderRecords
    BY EmptyRecords
  <2>2. /\ IdleBuilder.stamps = NoStamps /\ IdleBuilder.rows = NoneBuilt
        /\ IdleBuilder.cached = NoFile
    BY DEF IdleBuilder
  <2> HIDE DEF asked
  <2> QED
    BY <1>3, <2>1, <2>2 DEF BuilderRecords
<1>5. \A s \in SessionDirs : /\ NoStamps[s] = 0 /\ NoneBuilt[s] = None
                             /\ s \notin There => store[s].version = 0
  BY <1>3 DEF NoStamps, NoneBuilt, There
<1>6. Sound(you, store, snapshot)
  <2> HIDE DEF you, asked
  <2>1. "stamp" \notin Calling /\ "stamp" # "check"
    BY DEF Calling
  <2>2. NotBehind(you.stamps, you.rows)
    BY <1>4, <1>5 DEF NotBehind
  <2>3. \A s \in SessionDirs : /\ you.asked[s] <= store[s].version /\ you.stamps[s] <= store[s].version
                               /\ s \in you.todo \/ you.asked[s] <= you.stamps[s]
    BY <1>3, <1>4, <1>5
  <2> QED
    BY <1>4, <2>1, <2>2, <2>3, EmptyRecords DEF Sound
<1> HIDE DEF you
<1> QED
  BY <1>1, <1>2, <1>4, <1>6, BuilderMoves

\* A session is stamped with the version it has now, which is not older
\* than when the list was asked for.
LEMMA StampsKeep ==
    ASSUME SnapshotInv, OneBuilder, NEW b \in Builders, TakesStamps(b)
    PROVE  SnapshotInv'
<1> DEFINE me == builder[b]
<1>1. /\ store \in [SessionDirs -> BuiltRows] /\ snapshot \in FileRecords /\ Honest(snapshot)
      /\ me \in BuilderRecords /\ Sound(me, store, snapshot) /\ me.pc = "stamp"
      /\ store' = store /\ snapshot' = snapshot
  BY DEF SnapshotInv, SnapshotShape, TakesStamps
<1>2. CASE me.todo = {}
  <2> DEFINE you == [me EXCEPT !.pc = "read"]
  <2>1. BuilderGoes(b, you)
    BY <1>2 DEF TakesStamps
  <2>2. /\ you \in BuilderRecords /\ you.pc = "read" /\ you.asked = me.asked
        /\ you.stamps = me.stamps /\ you.rows = me.rows /\ you.cached = me.cached
    BY <1>1 DEF BuilderRecords, Calling
  <2>3. Sound(you, store, snapshot)
    <3> HIDE DEF you
    <3> QED
      BY <1>1, <1>2, <2>2 DEF Sound
  <2> HIDE DEF you
  <2> QED
    BY <1>1, <2>1, <2>2, <2>3, BuilderMoves
<1>3. CASE me.todo # {}
  <2>1. PICK s \in me.todo :
           BuilderGoes(b, [me EXCEPT !.todo = @ \ {s}, !.stamps[s] = store[s].version])
    BY <1>3 DEF TakesStamps
  <2> DEFINE stamps == [me.stamps EXCEPT ![s] = store[s].version]
             you == [me EXCEPT !.todo = me.todo \ {s}, !.stamps = stamps]
  <2>2. s \in SessionDirs /\ me.todo \subseteq SessionDirs /\ me.stamps \in [SessionDirs -> Versions]
    BY <1>1 DEF BuilderRecords
  <2>3. stamps \in [SessionDirs -> Versions]
        /\ \A d \in SessionDirs : stamps[d] = IF d = s THEN store[d].version ELSE me.stamps[d]
    BY <1>1, <2>2 DEF BuiltRows
  <2>4. BuilderGoes(b, you)
    BY <1>1, <2>1 DEF BuilderRecords
  <2>5. /\ you \in BuilderRecords /\ you.pc = me.pc /\ you.asked = me.asked /\ you.todo = me.todo \ {s}
        /\ you.stamps = stamps /\ you.rows = me.rows /\ you.cached = me.cached
    <3> HIDE DEF stamps
    <3> QED
      BY <1>1, <2>2, <2>3 DEF BuilderRecords
  <2>6. \A d \in SessionDirs : store[d].version \in Nat /\ NoneBuilt[d] = None
    BY <1>1, SnapshotAssumption DEF BuiltRows, Versions, NoneBuilt
  <2>7. Sound(you, store, snapshot)
    <3> HIDE DEF you, stamps
    <3>1. "stamp" \notin Calling /\ "stamp" # "check"
      BY DEF Calling
    <3>2. NotBehind(you.stamps, you.rows)
      BY <1>1, <2>5, <2>6 DEF NotBehind, Sound
    <3>3. \A d \in SessionDirs :
             /\ you.asked[d] <= store[d].version /\ you.stamps[d] <= store[d].version
             /\ d \in you.todo \/ you.asked[d] <= you.stamps[d]
      BY <1>1, <2>3, <2>5, <2>6 DEF Sound
    <3> QED
      BY <1>1, <2>5, <3>1, <3>2, <3>3 DEF Sound
  <2> HIDE DEF you
  <2> QED
    BY <1>1, <2>4, <2>5, <2>7, BuilderMoves
<1> QED
  BY <1>2, <1>3

\* The file is read.
LEMMA ReadKeeps ==
    ASSUME SnapshotInv, OneBuilder, NEW b \in Builders, ReadsFile(b)
    PROVE  SnapshotInv'
<1> DEFINE me == builder[b]
           you == [me EXCEPT !.pc = "check", !.cached = snapshot]
<1>1. /\ snapshot \in FileRecords /\ Honest(snapshot)
      /\ me \in BuilderRecords /\ Sound(me, store, snapshot) /\ me.pc = "read"
      /\ store' = store /\ snapshot' = snapshot /\ BuilderGoes(b, you)
  BY DEF SnapshotInv, SnapshotShape, ReadsFile
<1>2. /\ you \in BuilderRecords /\ you.pc = "check" /\ you.asked = me.asked
      /\ you.stamps = me.stamps /\ you.rows = me.rows /\ you.cached = snapshot
  BY <1>1 DEF BuilderRecords, Calling
<1>3. Sound(you, store, snapshot)
  <2> HIDE DEF you
  <2> QED
    BY <1>1, <1>2 DEF Sound, Calling
<1> HIDE DEF you
<1> QED
  BY <1>1, <1>2, <1>3, BuilderMoves

\* The rows are those of the file, if it is whole and has the same stamps.
LEMMA CheckKeeps ==
    ASSUME SnapshotInv, OneBuilder, NEW b \in Builders, Checks(b)
    PROVE  SnapshotInv'
<1> DEFINE me == builder[b]
<1>1. /\ snapshot \in FileRecords /\ Honest(snapshot)
      /\ me \in BuilderRecords /\ Sound(me, store, snapshot) /\ me.pc = "check"
      /\ store' = store /\ snapshot' = snapshot /\ me.dirs \subseteq SessionDirs
      /\ me.cached = snapshot
  BY DEF SnapshotInv, SnapshotShape, Checks, BuilderRecords, Sound
<1>2. CASE Readable(me.cached) /\ ~Stale(b)
  <2> DEFINE todo == {s \in me.dirs : NeedsRebuild(me.cached.rows[s])}
             you == [me EXCEPT !.pc = "remap", !.rows = me.cached.rows, !.todo = todo]
  <2>1. BuilderGoes(b, you)
    BY <1>2 DEF Checks
  <2>2. snapshot.form = "whole" /\ snapshot.stamps = me.stamps
        /\ snapshot.rows \in [SessionDirs -> RowRecords] /\ todo \subseteq SessionDirs
    BY <1>1, <1>2 DEF Stale, FileRecords
  <2>3. /\ you \in BuilderRecords /\ you.pc = "remap" /\ you.asked = me.asked
        /\ you.stamps = me.stamps /\ you.rows = snapshot.rows /\ you.cached = me.cached
    <3> HIDE DEF todo
    <3> QED
      BY <1>1, <2>2 DEF BuilderRecords, Calling
  <2>4. Sound(you, store, snapshot)
    <3> HIDE DEF you
    <3> QED
      BY <1>1, <2>2, <2>3 DEF Sound, Calling, Honest
  <2> HIDE DEF you
  <2> QED
    BY <1>1, <2>1, <2>3, <2>4, BuilderMoves
<1>3. CASE ~(Readable(me.cached) /\ ~Stale(b))
  <2> DEFINE you == [me EXCEPT !.pc = "build", !.todo = me.dirs]
  <2>1. BuilderGoes(b, you)
    BY <1>3 DEF Checks
  <2>2. /\ you \in BuilderRecords /\ you.pc = "build" /\ you.asked = me.asked
        /\ you.stamps = me.stamps /\ you.rows = me.rows /\ you.cached = me.cached
    BY <1>1 DEF BuilderRecords, Calling
  <2>3. Sound(you, store, snapshot)
    <3> HIDE DEF you
    <3> QED
      BY <1>1, <2>2 DEF Sound, Calling
  <2> HIDE DEF you
  <2> QED
    BY <1>1, <2>1, <2>2, <2>3, BuilderMoves
<1> QED
  BY <1>2, <1>3

\* A row that is put in place of another is not behind its stamp.
LEMMA RowReplaced ==
    ASSUME NEW stamps, NEW rows \in [SessionDirs -> RowRecords], NEW s \in SessionDirs,
           NEW row \in RowRecords, NotBehind(stamps, rows), row # None => row.version >= stamps[s]
    PROVE  /\ [rows EXCEPT ![s] = row] \in [SessionDirs -> RowRecords]
           /\ NotBehind(stamps, [rows EXCEPT ![s] = row])
  BY DEF NotBehind

\* build_row reads the session as it is now.
LEMMA BuiltIsNow ==
    ASSUME NEW s \in SessionDirs, store \in [SessionDirs -> BuiltRows], NEW row \in Built(s)
    PROVE  row \in RowRecords /\ (row # None => row.version = store[s].version)
  BY DEF Built, RowRecords, BuiltRows

\* Rows of the file that were live are taken anew.
LEMMA RemapKeeps ==
    ASSUME SnapshotInv, OneBuilder, NEW b \in Builders, Remaps(b)
    PROVE  SnapshotInv'
<1> DEFINE me == builder[b]
<1>1. /\ snapshot \in FileRecords /\ Honest(snapshot) /\ store \in [SessionDirs -> BuiltRows]
      /\ me \in BuilderRecords /\ Sound(me, store, snapshot) /\ me.pc = "remap"
      /\ store' = store /\ snapshot' = snapshot /\ me.todo \subseteq SessionDirs
      /\ me.rows \in [SessionDirs -> RowRecords] /\ me.changed \in BOOLEAN
  BY DEF SnapshotInv, SnapshotShape, Remaps, BuilderRecords
<1>2. CASE me.todo = {}
  <2>1. PICK next \in {"open", "answered"} : BuilderGoes(b, [me EXCEPT !.pc = next])
    BY <1>2 DEF Remaps
  <2> DEFINE you == [me EXCEPT !.pc = next]
  <2>2. /\ you \in BuilderRecords /\ you.pc = next /\ you.asked = me.asked
        /\ you.stamps = me.stamps /\ you.rows = me.rows /\ you.cached = me.cached
    BY <1>1 DEF BuilderRecords, Calling
  <2>3. Sound(you, store, snapshot)
    <3> HIDE DEF you
    <3> QED
      BY <1>1, <2>2 DEF Sound, Calling
  <2>4. BuilderGoes(b, you)
    BY <2>1
  <2> HIDE DEF you
  <2> QED
    BY <1>1, <2>2, <2>3, <2>4, BuilderMoves
<1>3. CASE me.todo # {}
  <2>1. PICK s \in me.todo, new \in UNION {Built(x) : x \in me.todo} :
           /\ new \in Built(s)
           /\ IF new = None
              THEN BuilderGoes(b, [me EXCEPT !.todo = @ \ {s}])
              ELSE \E differs \in Chrome(new, me.rows[s]) :
                      BuilderGoes(b, [me EXCEPT !.todo = @ \ {s}, !.changed = @ \/ differs,
                                         !.rows[s] = IF differs THEN new ELSE @])
    BY <1>3 DEF Remaps
  <2>2. s \in SessionDirs /\ new \in RowRecords /\ (new # None => new.version = store[s].version)
    BY <1>1, <2>1, BuiltIsNow
  <2>3. PICK row \in RowRecords, changed \in BOOLEAN :
           /\ row = me.rows[s] \/ (row = new /\ new # None)
           /\ BuilderGoes(b, [me EXCEPT !.todo = me.todo \ {s}, !.changed = changed,
                                        !.rows = [me.rows EXCEPT ![s] = row]])
    <3>1. me.rows[s] \in RowRecords /\ [me.rows EXCEPT ![s] = me.rows[s]] = me.rows
      BY <1>1, <2>2
    <3>2. CASE new = None
      <4>1. BuilderGoes(b, [me EXCEPT !.todo = me.todo \ {s}])
        BY <2>1, <3>2
      <4>2. [me EXCEPT !.todo = me.todo \ {s}]
              = [me EXCEPT !.todo = me.todo \ {s}, !.changed = me.changed,
                           !.rows = [me.rows EXCEPT ![s] = me.rows[s]]]
        BY <1>1, <3>1 DEF BuilderRecords
      <4> QED
        BY <1>1, <3>1, <4>1, <4>2
    <3>3. CASE new # None
      <4>1. PICK differs \in Chrome(new, me.rows[s]) :
               BuilderGoes(b, [me EXCEPT !.todo = @ \ {s}, !.changed = @ \/ differs,
                                  !.rows[s] = IF differs THEN new ELSE @])
        BY <2>1, <3>3
      <4>2. differs \in BOOLEAN
        BY <4>1 DEF Chrome
      <4> DEFINE row == IF differs THEN new ELSE me.rows[s]
                 changed == me.changed \/ differs
      <4>3. row \in RowRecords /\ (row = me.rows[s] \/ row = new) /\ changed \in BOOLEAN
        BY <1>1, <2>2, <3>1, <4>2
      <4>4. BuilderGoes(b, [me EXCEPT !.todo = me.todo \ {s}, !.changed = changed,
                                        !.rows = [me.rows EXCEPT ![s] = row]])
        BY <1>1, <4>1 DEF BuilderRecords
      <4> QED
        BY <3>3, <4>3, <4>4
    <3> QED
      BY <3>2, <3>3
  <2> DEFINE rows == [me.rows EXCEPT ![s] = row]
             you == [me EXCEPT !.todo = me.todo \ {s}, !.changed = changed, !.rows = rows]
  <2>4. row # None => row.version >= me.stamps[s]
    <3>1. me.stamps[s] \in Nat /\ store[s].version \in Nat
      BY <1>1, <2>2, SnapshotAssumption DEF BuilderRecords, BuiltRows, Versions
    <3>2. me.stamps[s] <= store[s].version
      BY <1>1, <2>2 DEF Sound
    <3>3. me.rows[s] # None => me.rows[s].version >= me.stamps[s]
      BY <1>1, <2>2 DEF Sound, NotBehind
    <3> QED
      BY <2>2, <2>3, <3>1, <3>2, <3>3
  <2>5. rows \in [SessionDirs -> RowRecords] /\ NotBehind(me.stamps, rows)
    BY <1>1, <2>2, <2>4, RowReplaced DEF Sound
  <2>6. BuilderGoes(b, you)
    BY <2>3
  <2>7. /\ you \in BuilderRecords /\ you.pc = "remap" /\ you.asked = me.asked
        /\ you.stamps = me.stamps /\ you.rows = rows /\ you.cached = me.cached
    <3> HIDE DEF rows
    <3> QED
      BY <1>1, <2>5 DEF BuilderRecords
  <2>8. Sound(you, store, snapshot)
    <3> HIDE DEF you, rows
    <3> QED
      BY <1>1, <2>5, <2>7 DEF Sound, Calling
  <2> HIDE DEF you
  <2> QED
    BY <1>1, <2>6, <2>7, <2>8, BuilderMoves
<1> QED
  BY <1>2, <1>3

\* A row is kept under the stamp it was built under, or built now.
LEMMA BuildKeeps ==
    ASSUME SnapshotInv, OneBuilder, NEW b \in Builders, Builds(b)
    PROVE  SnapshotInv'
<1> DEFINE me == builder[b]
<1>1. /\ snapshot \in FileRecords /\ Honest(snapshot) /\ store \in [SessionDirs -> BuiltRows]
      /\ me \in BuilderRecords /\ Sound(me, store, snapshot) /\ me.pc = "build"
      /\ store' = store /\ snapshot' = snapshot /\ me.todo \subseteq SessionDirs
      /\ me.rows \in [SessionDirs -> RowRecords] /\ me.cached \in FileRecords
  BY DEF SnapshotInv, SnapshotShape, Builds, BuilderRecords
<1>2. CASE me.todo = {}
  <2> DEFINE you == [me EXCEPT !.pc = "open"]
  <2>1. BuilderGoes(b, you)
    BY <1>2 DEF Builds
  <2>2. /\ you \in BuilderRecords /\ you.pc = "open" /\ you.asked = me.asked
        /\ you.stamps = me.stamps /\ you.rows = me.rows /\ you.cached = me.cached
    BY <1>1 DEF BuilderRecords, Calling
  <2>3. Sound(you, store, snapshot)
    <3> HIDE DEF you
    <3> QED
      BY <1>1, <2>2 DEF Sound, Calling
  <2> HIDE DEF you
  <2> QED
    BY <1>1, <2>1, <2>2, <2>3, BuilderMoves
<1>3. CASE me.todo # {}
  <2>1. PICK s \in me.todo, new \in UNION {Built(x) : x \in me.todo} :
           LET old == me.cached.rows[s]
               kept == RowReusable(me, s) /\ (new = None \/ ~NeedsRebuild(old))
           IN /\ new \in Built(s)
              /\ BuilderGoes(b, [me EXCEPT !.todo = @ \ {s}, !.rows[s] = IF kept THEN old ELSE new])
    BY <1>3 DEF Builds
  <2>2. /\ s \in SessionDirs /\ new \in RowRecords /\ (new # None => new.version = store[s].version)
        /\ me.cached.rows[s] \in RowRecords
    BY <1>1, <2>1, BuiltIsNow DEF FileRecords
  <2>3. PICK row \in RowRecords :
           /\ row = new \/ (RowReusable(me, s) /\ row = me.cached.rows[s])
           /\ BuilderGoes(b, [me EXCEPT !.todo = me.todo \ {s}, !.rows = [me.rows EXCEPT ![s] = row]])
    <3> DEFINE row == IF RowReusable(me, s) /\ (new = None \/ ~NeedsRebuild(me.cached.rows[s]))
                      THEN me.cached.rows[s] ELSE new
    <3>1. row \in RowRecords /\ (row = new \/ (RowReusable(me, s) /\ row = me.cached.rows[s]))
      BY <2>2
    <3>2. BuilderGoes(b, [me EXCEPT !.todo = me.todo \ {s}, !.rows = [me.rows EXCEPT ![s] = row]])
      BY <1>1, <2>1 DEF BuilderRecords
    <3> QED
      BY <3>1, <3>2
  <2> DEFINE rows == [me.rows EXCEPT ![s] = row]
             you == [me EXCEPT !.todo = me.todo \ {s}, !.rows = rows]
  <2>4. row # None => row.version >= me.stamps[s]
    <3>1. CASE row = new
      <4>1. me.stamps[s] \in Nat /\ store[s].version \in Nat
        BY <1>1, <2>2, SnapshotAssumption DEF BuilderRecords, BuiltRows, Versions
      <4>2. me.stamps[s] <= store[s].version
        BY <1>1, <2>2 DEF Sound
      <4> QED
        BY <2>2, <3>1, <4>1, <4>2
    <3>2. CASE RowReusable(me, s) /\ row = me.cached.rows[s]
      <4>1. NotBehind(me.cached.stamps, me.cached.rows) /\ me.cached.stamps[s] = me.stamps[s]
        BY <1>1, <3>2 DEF RowReusable, Sound, Honest
      <4> QED
        BY <2>2, <3>2, <4>1 DEF NotBehind
    <3> QED
      BY <2>3, <3>1, <3>2
  <2>5. rows \in [SessionDirs -> RowRecords] /\ NotBehind(me.stamps, rows)
    BY <1>1, <2>2, <2>4, RowReplaced DEF Sound
  <2>6. BuilderGoes(b, you)
    BY <2>3
  <2>7. /\ you \in BuilderRecords /\ you.pc = "build" /\ you.asked = me.asked
        /\ you.stamps = me.stamps /\ you.rows = rows /\ you.cached = me.cached
    <3> HIDE DEF rows
    <3> QED
      BY <1>1, <2>5 DEF BuilderRecords
  <2>8. Sound(you, store, snapshot)
    <3> HIDE DEF you, rows
    <3> QED
      BY <1>1, <2>5, <2>7 DEF Sound, Calling
  <2> HIDE DEF you
  <2> QED
    BY <1>1, <2>6, <2>7, <2>8, BuilderMoves
<1> QED
  BY <1>2, <1>3

\* The file is cut off, then whole or in the way of another.
LEMMA OpenKeeps ==
    ASSUME SnapshotInv, OneBuilder, NEW b \in Builders, Opens(b)
    PROVE  SnapshotInv'
<1> DEFINE me == builder[b]
           you == [me EXCEPT !.pc = "write"]
<1>1. /\ me \in BuilderRecords /\ Sound(me, store, snapshot) /\ me.pc = "open"
      /\ store' = store /\ snapshot' = TornFile /\ BuilderGoes(b, you)
  BY DEF SnapshotInv, SnapshotShape, Opens
<1>2. /\ you \in BuilderRecords /\ you.pc = "write" /\ you.asked = me.asked
      /\ you.stamps = me.stamps /\ you.rows = me.rows /\ you.cached = me.cached
  BY <1>1 DEF BuilderRecords, Calling
<1>3. Sound(you, store, TornFile)
  <2> HIDE DEF you
  <2> QED
    BY <1>1, <1>2 DEF Sound, Calling
<1> HIDE DEF you
<1> QED
  BY <1>1, <1>2, <1>3, EmptyRecords, BuilderMoves

LEMMA SaveKeeps ==
    ASSUME SnapshotInv, OneBuilder, NEW b \in Builders, Saves(b)
    PROVE  SnapshotInv'
<1> DEFINE me == builder[b]
           you == [me EXCEPT !.pc = "answered"]
           file == Payload(me.stamps, me.rows)
<1>1. /\ me \in BuilderRecords /\ Sound(me, store, snapshot) /\ me.pc = "write"
      /\ store' = store /\ (snapshot' = file \/ snapshot' = TornFile) /\ BuilderGoes(b, you)
  BY DEF SnapshotInv, SnapshotShape, Saves
<1>2. /\ you \in BuilderRecords /\ you.pc = "answered" /\ you.asked = me.asked
      /\ you.stamps = me.stamps /\ you.rows = me.rows /\ you.cached = me.cached
  BY <1>1 DEF BuilderRecords, Calling
<1>3. file \in FileRecords /\ Honest(file)
  BY <1>1 DEF Payload, FileRecords, BuilderRecords, Honest, Sound
<1>4. Sound(you, store, snapshot')
  <2> HIDE DEF you, file
  <2> QED
    BY <1>1, <1>2 DEF Sound, Calling
<1>5. snapshot' \in FileRecords /\ Honest(snapshot')
  BY <1>1, <1>3, EmptyRecords
<1> HIDE DEF you
<1> QED
  BY <1>1, <1>2, <1>4, <1>5, BuilderMoves

LEMMA RestKeeps ==
    ASSUME SnapshotInv, OneBuilder, NEW b \in Builders, Returns(b) \/ Stops(b)
    PROVE  SnapshotInv'
<1>1. /\ store \in [SessionDirs -> BuiltRows] /\ snapshot \in FileRecords /\ Honest(snapshot)
      /\ store' = store /\ snapshot' = snapshot /\ BuilderGoes(b, IdleBuilder)
  BY DEF SnapshotInv, SnapshotShape, Returns, Stops
<1> QED
  BY <1>1, EmptyRecords, IdleSound, BuilderMoves

LEMMA SnapshotStepKeeps ==
    ASSUME OneBuilder, SnapshotInv, [SnapshotNext]_snapshotVars
    PROVE  SnapshotInv'
<1>1. CASE UNCHANGED snapshotVars
  BY <1>1 DEF snapshotVars, SnapshotInv, SnapshotShape
<1>2. ASSUME NEW s \in SessionDirs, Writes(s) \/ Settles(s) PROVE SnapshotInv'
  BY <1>2, StoreMoves
<1>3. ASSUME NEW b \in Builders, BuilderStep(b) \/ Stops(b) PROVE SnapshotInv'
  BY <1>3, ListsKeeps, StampsKeep, ReadKeeps, CheckKeeps, RemapKeeps, BuildKeeps, OpenKeeps,
     SaveKeeps, RestKeeps DEF BuilderStep
<1> QED
  BY <1>1, <1>2, <1>3 DEF SnapshotNext

\* One process that lists a root never answers with a session as it was
\* before the list was asked for, wherever earlier ones were stopped
\* (load_or_rebuild_catalog, for every number of sessions).
THEOREM ListAlwaysCurrent ==
    ASSUME OneBuilder
    PROVE  SnapshotSpec => []ListIsCurrent
<1>1. SnapshotInv => ListIsCurrent
  <2> SUFFICES ASSUME SnapshotInv, NEW b \in Builders, NEW s \in SessionDirs,
                      builder[b].pc = "answered", builder[b].rows[s] # None
               PROVE  builder[b].rows[s].version >= builder[b].asked[s]
    BY DEF ListIsCurrent
  <2>1. Sound(builder[b], store, snapshot) /\ builder[b] \in BuilderRecords
    BY DEF SnapshotInv, SnapshotShape
  <2>2. /\ builder[b].asked[s] \in Nat /\ builder[b].stamps[s] \in Nat
        /\ builder[b].rows[s].version \in Nat
    BY <2>1, SnapshotAssumption DEF BuilderRecords, RowRecords, BuiltRows, Versions
  <2>3. builder[b].asked[s] <= builder[b].stamps[s]
    BY <2>1 DEF Sound, Calling
  <2>4. builder[b].rows[s].version >= builder[b].stamps[s]
    BY <2>1 DEF Sound, NotBehind
  <2> QED
    BY <2>2, <2>3, <2>4
<1>2. SnapshotInv /\ [SnapshotNext]_snapshotVars => SnapshotInv'
  BY SnapshotStepKeeps
<1> QED
  BY <1>1, <1>2, SnapshotInitInv, PTL DEF SnapshotSpec

-----------------------------------------------------------------------------
(***************************************************************************)
(* SessionArchives, deletion.  While no agent wrote during a deletion, a   *)
(* plane of the copy that still shows something is in a set that is still  *)
(* to be removed (RemovesAll): every adapter removes what it keeps, finds  *)
(* or borrows (AdaptersRemoveAll).  Nothing changes the planes of a copy   *)
(* after its deletion was reported, without taking the report back.        *)
(***************************************************************************)
StoreKinds == {"claude", "codex", "gemini", "pi", "grok", "cursor", "antigravity",
               "opencode", "copilot"}
Removable(h, p) == p \in FilesOf[h].planes \union FilesOf[h].sees \union FilesOf[h].borrows

\* Every adapter removes all that it keeps in the host's store, finds of an
\* import or looks up in the host's tree.
LEMMA AdaptersRemoveAll ==
    ASSUME NEW h \in StoreKinds
    PROVE  /\ AdapterOf[h].removes \in Seq(SUBSET Planes)
           /\ \A p \in Planes : Removable(h, p) =>
                  \E i \in 1 .. Len(AdapterOf[h].removes) : p \in AdapterOf[h].removes[i]
<1>1. CASE h \in {"codex", "gemini", "pi"}
  <2>1. FilesOf[h] = OneFile /\ AdapterOf[h] = Sole
    BY <1>1 DEF FilesOf, AdapterOf, CodexFiles, GeminiFiles, PiFiles, Codex, Gemini, Pi
  <2> QED
    BY <2>1 DEF OneFile, Sole, Removable, Planes
<1>2. CASE h = "claude"
  <2>1. FilesOf[h] = ClaudeFiles /\ AdapterOf[h] = Claude
    BY <1>2 DEF FilesOf, AdapterOf
  <2> QED
    BY <2>1 DEF ClaudeFiles, Claude, OneFile, Removable, Planes
<1>3. CASE h = "grok"
  <2>1. FilesOf[h] = GrokFiles /\ AdapterOf[h] = Grok
    BY <1>3 DEF FilesOf, AdapterOf
  <2> QED
    BY <2>1 DEF GrokFiles, Grok, Removable, Planes
<1>4. CASE h = "cursor"
  <2>1. FilesOf[h] = CursorFiles /\ AdapterOf[h] = Cursor
    BY <1>4 DEF FilesOf, AdapterOf
  <2> QED
    BY <2>1 DEF CursorFiles, Cursor, OneFile, Removable, Planes
<1>5. CASE h = "antigravity"
  <2>1. FilesOf[h] = AntigravityFiles /\ AdapterOf[h] = Antigravity
    BY <1>5 DEF FilesOf, AdapterOf
  <2> QED
    BY <2>1 DEF AntigravityFiles, Antigravity, OneFile, Removable, Planes
<1>6. CASE h = "opencode"
  <2>1. FilesOf[h] = OpenCodeFiles /\ AdapterOf[h] = OpenCode
    BY <1>6 DEF FilesOf, AdapterOf
  <2> QED
    BY <2>1 DEF OpenCodeFiles, OpenCode, Removable, Planes
<1>7. CASE h = "copilot"
  <2>1. FilesOf[h] = CopilotFiles /\ AdapterOf[h] = Copilot
    BY <1>7 DEF FilesOf, AdapterOf
  <2> QED
    BY <2>1 DEF CopilotFiles, Copilot, OpenCodeFiles, Removable, Planes
<1> QED
  BY <1>1, <1>2, <1>3, <1>4, <1>5, <1>6, <1>7 DEF StoreKinds

ImportSteps == {"clear", "move", "copy", "bind", "notes"}
ArchiveRecords == [planes : [Planes -> Nat], notes : Nat]
OperationRecords == [op : {"none", "export", "import", "delete"}, side : {"host", "imports"},
                     todo : Seq(Planes \union ImportSteps), left : Seq(SUBSET Planes),
                     holds : [Planes -> Nat], archive : ArchiveRecords \union {NoArchive},
                     quiet : BOOLEAN]

ArchivesShape ==
    /\ harness \in StoreKinds
    /\ host \in [Planes -> Nat] /\ imports \in [Planes -> Nat] /\ notes \in Nat
    /\ archives \subseteq ArchiveRecords
    /\ operation \in OperationRecords
    /\ operation.op = "import" => operation.archive \in ArchiveRecords
    /\ writes \in Nat
    /\ restored \in ArchiveRecords \union {NoArchive}
    /\ told \in [side : {"host", "imports"}, says : {"nothing", "error", "missing", "deleted"}]

RemovesAll ==
    /\ \A p \in Planes : host[p] # 0 => p \in Store.planes
    /\ operation.op = "delete" /\ operation.quiet =>
           \A p \in Planes : Read(operation.side)[p] # 0 =>
               \E i \in 1 .. Len(operation.left) : p \in operation.left[i]
    /\ told.says = "deleted" =>
           /\ operation.op \in {"none", "export"}
           /\ \A p \in Planes : Read(told.side)[p] = 0

DeletionInv == ArchivesShape /\ RemovesAll

\* Each store keeps planes and each adapter packs some.
LEMMA StoresHavePlanes ==
    ASSUME NEW h \in StoreKinds
    PROVE  /\ FilesOf[h].planes \subseteq Planes /\ FilesOf[h].key \in Planes
           /\ AdapterOf[h].packs \in Seq(Planes) /\ AdapterOf[h].packs # <<>>
<1>1. CASE h \in {"codex", "gemini", "pi"}
  <2>1. FilesOf[h] = OneFile /\ AdapterOf[h] = Sole
    BY <1>1 DEF FilesOf, AdapterOf, CodexFiles, GeminiFiles, PiFiles, Codex, Gemini, Pi
  <2> QED
    BY <2>1 DEF OneFile, Sole, Planes
<1>2. CASE h = "claude"
  <2>1. FilesOf[h] = ClaudeFiles /\ AdapterOf[h] = Claude
    BY <1>2 DEF FilesOf, AdapterOf
  <2> QED
    BY <2>1 DEF ClaudeFiles, Claude, OneFile, Planes
<1>3. CASE h = "grok"
  <2>1. FilesOf[h] = GrokFiles /\ AdapterOf[h] = Grok
    BY <1>3 DEF FilesOf, AdapterOf
  <2> QED
    BY <2>1 DEF GrokFiles, Grok, Planes
<1>4. CASE h = "cursor"
  <2>1. FilesOf[h] = CursorFiles /\ AdapterOf[h] = Cursor
    BY <1>4 DEF FilesOf, AdapterOf
  <2> QED
    BY <2>1 DEF CursorFiles, Cursor, OneFile, Planes
<1>5. CASE h = "antigravity"
  <2>1. FilesOf[h] = AntigravityFiles /\ AdapterOf[h] = Antigravity
    BY <1>5 DEF FilesOf, AdapterOf
  <2> QED
    BY <2>1 DEF AntigravityFiles, Antigravity, OneFile, Planes
<1>6. CASE h = "opencode"
  <2>1. FilesOf[h] = OpenCodeFiles /\ AdapterOf[h] = OpenCode
    BY <1>6 DEF FilesOf, AdapterOf
  <2> QED
    BY <2>1 DEF OpenCodeFiles, OpenCode, Planes
<1>7. CASE h = "copilot"
  <2>1. FilesOf[h] = CopilotFiles /\ AdapterOf[h] = Copilot
    BY <1>7 DEF FilesOf, AdapterOf
  <2> QED
    BY <2>1 DEF CopilotFiles, Copilot, OpenCodeFiles, Planes
<1> QED
  BY <1>1, <1>2, <1>3, <1>4, <1>5, <1>6, <1>7 DEF StoreKinds

\* What an adapter reads of each copy.
LEMMA ReadOfHost == Read("host") = host
  BY DEF Read
LEMMA ReadOfImports ==
    ASSUME NEW p \in Planes
    PROVE  Read("imports")[p] = IF p \in Store.borrows THEN host[p]
                                ELSE IF p \in Store.sees THEN imports[p] ELSE 0
  BY DEF Read
LEMMA ReadIsNat ==
    ASSUME host \in [Planes -> Nat], imports \in [Planes -> Nat], NEW side \in {"host", "imports"},
           NEW p \in Planes
    PROVE  Read(side)[p] \in Nat
  BY ReadOfHost, ReadOfImports

\* A reading is of something the adapter removes.
LEMMA ReadIsRemovable ==
    ASSUME NEW side \in {"host", "imports"}, NEW p \in Planes, Read(side)[p] # 0,
           side = "host" => p \in Store.planes
    PROVE  Removable(harness, p)
  BY ReadOfHost, ReadOfImports DEF Removable, Store

\* The records an operation begins and ends with.
LEMMA NoOperationIsOne ==
    /\ NoPlanes \in [Planes -> Nat] /\ NoOperation \in OperationRecords
    /\ NoOperation.op = "none" /\ \A p \in Planes : NoPlanes[p] = 0
<1>1. NoPlanes \in [Planes -> Nat] /\ \A p \in Planes : NoPlanes[p] = 0
  BY DEF NoPlanes
<1>2. <<>> \in Seq(Planes \union ImportSteps) /\ <<>> \in Seq(SUBSET Planes)
  OBVIOUS
<1> QED
  BY <1>1, <1>2 DEF NoOperation, OperationRecords

LEMMA ArchivesInitInv == ArchivesInit => DeletionInv
<1> SUFFICES ASSUME ArchivesInit PROVE DeletionInv
  OBVIOUS
<1>1. harness \in StoreKinds
  BY ArchivesAssumption DEF ArchivesInit, StoreKinds
<1>2. host \in [Planes -> Nat] /\ \A p \in Planes : host[p] # 0 => p \in Store.planes
  BY DEF ArchivesInit
<1>3. ArchivesShape
  BY <1>1, <1>2, NoOperationIsOne DEF ArchivesInit, ArchivesShape, NothingTold
<1>4. RemovesAll
  BY <1>2, NoOperationIsOne DEF ArchivesInit, RemovesAll, NothingTold
<1> QED
  BY <1>3, <1>4 DEF DeletionInv

-----------------------------------------------------------------------------
\* A step that deletes nothing and takes back a report when it changes a copy.
LEMMA NotDeleting ==
    ASSUME DeletionInv, ArchivesShape', harness' = harness,
           \A p \in Planes : host'[p] # 0 => p \in Store.planes,
           operation'.op # "delete",
           told'.says = "deleted" =>
               told' = told /\ host' = host /\ imports' = imports /\ operation'.op \in {"none", "export"}
    PROVE  DeletionInv'
<1>1. Store' = Store
  BY DEF Store
<1>2. ASSUME told'.says = "deleted", NEW p \in Planes
      PROVE  Read(told.side)'[p] = 0
  <2>1. Read(told.side)' = Read(told.side)
    BY <1>1, <1>2 DEF Read
  <2> QED
    BY <1>2, <2>1 DEF DeletionInv, RemovesAll
<1>3. RemovesAll'
  BY <1>1, <1>2 DEF RemovesAll
<1> QED
  BY <1>3 DEF DeletionInv

\* The agent and the operator.
LEMMA AgentKeepsDeletion ==
    ASSUME DeletionInv, NEW p \in Planes, AgentWrites(p)
    PROVE  DeletionInv'
<1>1. /\ host' = [host EXCEPT ![p] = host[p] + 1] /\ p \in Store.planes
      /\ operation' = [operation EXCEPT !.quiet = FALSE] /\ told' = NothingTold /\ writes' = writes + 1
      /\ UNCHANGED <<harness, imports, notes, archives, restored>>
  BY DEF AgentWrites
<1>2. host \in [Planes -> Nat] /\ operation \in OperationRecords /\ ArchivesShape
  BY DEF DeletionInv, ArchivesShape
<1>3. operation' \in OperationRecords /\ operation'.quiet = FALSE /\ operation'.op = operation.op
      /\ operation'.archive = operation.archive
  BY <1>1, <1>2 DEF OperationRecords
<1>4. host' \in [Planes -> Nat] /\ \A q \in Planes : host'[q] # 0 => q \in Store.planes
  BY <1>1, <1>2 DEF DeletionInv, RemovesAll
<1>5. told' \in [side : {"host", "imports"}, says : {"nothing", "error", "missing", "deleted"}]
      /\ told'.says = "nothing"
  BY <1>1 DEF NothingTold
<1>6. ArchivesShape'
  BY <1>1, <1>2, <1>3, <1>4, <1>5 DEF ArchivesShape
<1>7. RemovesAll'
  BY <1>1, <1>3, <1>4, <1>5 DEF RemovesAll, Store
<1> QED
  BY <1>6, <1>7 DEF DeletionInv

LEMMA NotesKeepDeletion ==
    ASSUME DeletionInv, OperatorNotes
    PROVE  DeletionInv'
<1>1. /\ notes' \in Nat /\ writes' \in Nat
      /\ UNCHANGED <<harness, host, imports, archives, operation, restored, told>>
  BY DEF OperatorNotes, DeletionInv, ArchivesShape
<1> QED
  BY <1>1 DEF DeletionInv, ArchivesShape, RemovesAll, Read, Store

\* What breaks off is reported as an error.
LEMMA BreakKeepsDeletion ==
    ASSUME DeletionInv, Breaks
    PROVE  DeletionInv'
<1>1. /\ operation' = NoOperation /\ ArchivesShape
      /\ told' = IF operation.op = "delete" THEN [side |-> operation.side, says |-> "error"] ELSE told
      /\ UNCHANGED <<harness, notes, archives, writes, restored>>
  BY DEF Breaks, OperationEnds, DeletionInv
<1>2. /\ host' \in [Planes -> Nat] /\ imports' \in [Planes -> Nat]
      /\ \A p \in Planes : host'[p] # 0 => host[p] # 0
      /\ operation.op # "delete" => host' = host /\ imports' = imports
  <2>1. CASE UNCHANGED <<host, imports>>
    BY <1>1, <2>1 DEF ArchivesShape
  <2>2. CASE ~UNCHANGED <<host, imports>>
    <3>1. operation.op = "delete"
      BY <2>2 DEF Breaks
    <3>2. PICK gone \in SUBSET Head(operation.left) :
             IF operation.side = "host"
             THEN host' = [p \in Planes |-> IF p \in gone THEN 0 ELSE host[p]] /\ UNCHANGED imports
             ELSE imports' = [p \in Planes |-> IF p \in gone THEN 0 ELSE imports[p]] /\ UNCHANGED host
      BY <2>2 DEF Breaks
    <3> QED
      BY <1>1, <3>1, <3>2 DEF ArchivesShape
  <2> QED
    BY <2>1, <2>2
<1>3. operation \in OperationRecords /\ operation.side \in {"host", "imports"}
  BY <1>1 DEF ArchivesShape, OperationRecords
<1>4. told' \in [side : {"host", "imports"}, says : {"nothing", "error", "missing", "deleted"}]
      /\ (told'.says = "deleted" => told' = told /\ operation.op # "delete")
  BY <1>1, <1>3 DEF ArchivesShape
<1>5. ArchivesShape'
  BY <1>1, <1>2, <1>4, NoOperationIsOne DEF ArchivesShape
<1> QED
  BY <1>1, <1>2, <1>4, <1>5, NoOperationIsOne, NotDeleting DEF DeletionInv, RemovesAll

-----------------------------------------------------------------------------
\* Records of an operation.
Begun(op, side, todo) == [NoOperation EXCEPT !.op = op, !.side = side, !.todo = todo]
LEMMA BegunIsOne ==
    ASSUME NEW op \in {"export", "import"}, NEW side \in {"host", "imports"},
           NEW todo \in Seq(Planes \union ImportSteps)
    PROVE  /\ Begun(op, side, todo) \in OperationRecords /\ Begun(op, side, todo).op = op
           /\ Begun(op, side, todo).side = side /\ Begun(op, side, todo).todo = todo
           /\ Begun(op, side, todo).holds = NoPlanes
<1>1. NoOperation \in OperationRecords /\ NoOperation.holds = NoPlanes
  BY NoOperationIsOne DEF NoOperation
<1> QED
  BY <1>1 DEF Begun, OperationRecords

\* A step within an operation that is not a deletion changes what is left to
\* do and what it holds.
LEMMA GoneOn ==
    ASSUME NEW r \in OperationRecords, r.todo # <<>>, NEW holds \in [Planes -> Nat]
    PROVE  /\ [r EXCEPT !.todo = Tail(r.todo), !.holds = holds] \in OperationRecords
           /\ [r EXCEPT !.todo = Tail(r.todo), !.holds = holds].op = r.op
           /\ [r EXCEPT !.todo = Tail(r.todo)] \in OperationRecords
           /\ [r EXCEPT !.todo = Tail(r.todo)].op = r.op
<1>1. r.todo \in Seq(Planes \union ImportSteps) /\ Tail(r.todo) \in Seq(Planes \union ImportSteps)
  BY HeadTailProperties DEF OperationRecords
<1> QED
  BY <1>1 DEF OperationRecords

LEMMA ExportKeepsDeletion ==
    ASSUME DeletionInv,
           Packs \/ Bundles \/ \E side \in {"host", "imports"} : StartsExport(side)
    PROVE  DeletionInv'
<1>1. /\ UNCHANGED <<harness, host, imports, notes, writes, restored, told>>
      /\ ArchivesShape /\ \A p \in Planes : host[p] # 0 => p \in Store.planes
  BY DEF Packs, Bundles, StartsExport, DeletionInv, RemovesAll
<1>2. operation'.op \in {"none", "export"} /\ operation' \in OperationRecords
      /\ archives' \subseteq ArchiveRecords
  <2>1. CASE \E side \in {"host", "imports"} : StartsExport(side)
    <3>1. PICK side \in {"host", "imports"} : StartsExport(side)
      BY <2>1
    <3>2. operation' = Begun("export", side, Adapter.packs) /\ archives' = archives
      BY <3>1 DEF StartsExport, Begun
    <3>3. Adapter.packs \in Seq(Planes \union ImportSteps)
      BY <1>1, StoresHavePlanes DEF ArchivesShape, Adapter
    <3> QED
      BY <1>1, <3>2, <3>3, BegunIsOne DEF ArchivesShape
  <2>2. CASE Packs
    <3>1. operation.op = "export" /\ operation.todo # <<>> /\ archives' = archives
          /\ operation \in OperationRecords
      BY <1>1, <2>2 DEF Packs, ArchivesShape
    <3>2. CASE operation' = NoOperation
      BY <1>1, <3>1, <3>2, NoOperationIsOne DEF ArchivesShape
    <3>3. CASE operation' # NoOperation
      <4> DEFINE p == Head(operation.todo)
                 holds == [operation.holds EXCEPT ![p] = Read(operation.side)[p]]
      <4>1. operation' = [operation EXCEPT !.todo = Tail(operation.todo), !.holds = holds]
        BY <2>2, <3>1, <3>3 DEF Packs, OperationEnds, OperationRecords
      <4>2. holds \in [Planes -> Nat]
        <5>1. operation.holds \in [Planes -> Nat] /\ operation.side \in {"host", "imports"}
          BY <3>1 DEF OperationRecords
        <5>2. p \in Planes => Read(operation.side)[p] \in Nat
          BY <1>1, <5>1, ReadIsNat DEF ArchivesShape
        <5> HIDE DEF p
        <5> QED
          BY <5>1, <5>2
      <4> HIDE DEF holds
      <4> QED
        BY <1>1, <3>1, <4>1, <4>2, GoneOn DEF ArchivesShape
    <3> QED
      BY <3>2, <3>3
  <2>3. CASE Bundles
    <3>1. operation' = NoOperation /\ archives' = archives \cup {[planes |-> operation.holds, notes |-> notes]}
      BY <2>3 DEF Bundles, OperationEnds
    <3>2. operation.holds \in [Planes -> Nat] /\ notes \in Nat
      BY <1>1 DEF ArchivesShape, OperationRecords
    <3>3. [planes |-> operation.holds, notes |-> notes] \in ArchiveRecords
      BY <3>2 DEF ArchiveRecords
    <3> QED
      BY <1>1, <3>1, <3>3, NoOperationIsOne DEF ArchivesShape
  <2> QED
    BY <2>1, <2>2, <2>3
<1>3. ArchivesShape'
  BY <1>1, <1>2 DEF ArchivesShape
<1> QED
  BY <1>1, <1>2, <1>3, NotDeleting

-----------------------------------------------------------------------------
\* An import starts without a report, and none is made before it ends.
BundleSteps == <<"clear", "move", "bind", "notes">>
CopySteps == <<"clear", "copy", "bind">>
ImportOf(a, todo) == [NoOperation EXCEPT !.op = "import", !.side = "imports", !.archive = a, !.todo = todo]
LEMMA ImportOfIsOne ==
    ASSUME NEW a \in ArchiveRecords, NEW todo \in {BundleSteps, CopySteps}
    PROVE  /\ ImportOf(a, todo) \in OperationRecords /\ ImportOf(a, todo).op = "import"
           /\ ImportOf(a, todo).side = "imports" /\ ImportOf(a, todo).archive = a
           /\ ImportOf(a, todo).todo = todo
<1>1. NoOperation \in OperationRecords
  BY NoOperationIsOne
<1>2. BundleSteps \in Seq(Planes \union ImportSteps) /\ CopySteps \in Seq(Planes \union ImportSteps)
  BY DEF BundleSteps, CopySteps, ImportSteps
<1> QED
  BY <1>1, <1>2 DEF ImportOf, OperationRecords

LEMMA StartsImportAs ==
    ASSUME ArchivesShape, NEW kind \in {"bundle", "native", "directory"}, StartsImport(kind)
    PROVE  \E a \in ArchiveRecords, todo \in {BundleSteps, CopySteps} :
               /\ operation' = ImportOf(a, todo)
               /\ kind # "directory" => a \in archives
               /\ kind = "directory" => a.planes = host /\ Store.store = "directory" /\ Listed("host")
<1>1. PICK a \in IF kind = "directory" THEN {[planes |-> host, notes |-> 0]} ELSE archives :
         /\ kind = "directory" => Store.store = "directory" /\ Listed("host")
         /\ operation' = ImportOf(a, IF kind = "bundle" THEN BundleSteps ELSE CopySteps)
  BY DEF StartsImport, ImportOf, BundleSteps, CopySteps
<1>2. a \in ArchiveRecords /\ (kind # "directory" => a \in archives)
      /\ (kind = "directory" => a.planes = host)
  BY <1>1 DEF ArchivesShape, ArchiveRecords
<1> QED
  BY <1>1, <1>2

LEMMA ImportStartKeepsDeletion ==
    ASSUME DeletionInv, NEW kind \in {"bundle", "native", "directory"}, StartsImport(kind)
    PROVE  DeletionInv'
<1>1. /\ restored' = NoArchive /\ told' = NothingTold
      /\ UNCHANGED <<harness, host, imports, notes, archives, writes>>
  BY DEF StartsImport
<1>2. operation' \in OperationRecords /\ operation'.op = "import"
      /\ operation'.archive \in ArchiveRecords
  BY StartsImportAs, ImportOfIsOne DEF DeletionInv
<1>3. told' \in [side : {"host", "imports"}, says : {"nothing", "error", "missing", "deleted"}]
      /\ told'.says = "nothing"
  BY <1>1 DEF NothingTold
<1>4. ArchivesShape'
  BY <1>1, <1>2, <1>3 DEF DeletionInv, ArchivesShape
<1>5. \A p \in Planes : host'[p] # 0 => p \in Store.planes
  BY <1>1 DEF DeletionInv, RemovesAll
<1> QED
  BY <1>1, <1>2, <1>3, <1>4, <1>5, NotDeleting

\* A step of an import goes on or ends it.
LEMMA ImportGoesOn ==
    ASSUME operation \in OperationRecords, NEW s, Step(s), operation' = NoOperation \/ StepsOn
    PROVE  /\ operation' \in OperationRecords /\ operation'.op \in {"none", "import"}
           /\ operation.op = "import"
           /\ operation'.op = "import" => operation'.archive = operation.archive
<1>1. operation.op = "import" /\ operation.todo # <<>>
  BY DEF Step
<1>2. CASE operation' = NoOperation
  BY <1>1, <1>2, NoOperationIsOne
<1>3. CASE StepsOn
  <2>1. operation' = [operation EXCEPT !.todo = Tail(operation.todo)]
    BY <1>3 DEF StepsOn
  <2> QED
    BY <1>1, <2>1, GoneOn DEF OperationRecords
<1> QED
  BY <1>2, <1>3

\* The planes an archive puts in place of an import.
LEMMA MovedIn ==
    ASSUME ArchivesShape, operation.archive \in ArchiveRecords
    PROVE  /\ operation.archive.planes \in [Planes -> Nat]
           /\ [p \in Planes |->
                   IF \/ operation.archive.planes[p] = 0
                      \/ p \in Store.adds /\ imports[p] > operation.archive.planes[p]
                   THEN imports[p]
                   ELSE operation.archive.planes[p]] \in [Planes -> Nat]
<1>1. operation.archive.planes \in [Planes -> Nat] /\ imports \in [Planes -> Nat]
  BY DEF ArchivesShape, ArchiveRecords
<1> QED
  BY <1>1

LEMMA ImportKeepsDeletion ==
    ASSUME DeletionInv, Clears \/ MovesIn \/ Copies \/ Binds \/ RestoresNotes
    PROVE  DeletionInv'
<1>1. /\ UNCHANGED <<harness, host, archives, writes, told>>
      /\ ArchivesShape /\ operation \in OperationRecords
      /\ \A p \in Planes : host[p] # 0 => p \in Store.planes
  BY DEF Clears, MovesIn, Copies, Binds, RestoresNotes, DeletionInv, RemovesAll, ArchivesShape
<1>2. PICK s \in ImportSteps : Step(s) /\ (operation' = NoOperation \/ StepsOn)
  BY DEF Clears, MovesIn, Copies, Binds, RestoresNotes, Succeeds, OperationEnds, ImportSteps
<1>3. /\ operation' \in OperationRecords /\ operation'.op \in {"none", "import"}
      /\ operation.op = "import" /\ operation.archive \in ArchiveRecords
      /\ operation'.op = "import" => operation'.archive = operation.archive
  BY <1>1, <1>2, ImportGoesOn DEF ArchivesShape
<1>4. told.says # "deleted"
  BY <1>3 DEF DeletionInv, RemovesAll
<1>5. imports' \in [Planes -> Nat]
  <2>1. operation.archive.planes \in [Planes -> Nat] /\ imports \in [Planes -> Nat]
        /\ NoPlanes \in [Planes -> Nat]
    BY <1>1, <1>3, NoOperationIsOne DEF ArchivesShape, ArchiveRecords
  <2>2. CASE Clears
    BY <2>1, <2>2 DEF Clears
  <2>3. CASE MovesIn
    BY <1>1, <1>3, <2>1, <2>3, MovedIn DEF MovesIn
  <2>4. CASE Copies
    BY <2>1, <2>4 DEF Copies
  <2>5. CASE Binds \/ RestoresNotes
    BY <2>1, <2>5 DEF Binds, RestoresNotes
  <2> QED
    BY <2>2, <2>3, <2>4, <2>5
<1>6. notes' \in Nat
  BY <1>1, <1>3 DEF Clears, MovesIn, Copies, Binds, RestoresNotes, ArchivesShape, ArchiveRecords
<1>7. restored' \in ArchiveRecords \union {NoArchive}
  BY <1>1, <1>3 DEF Clears, MovesIn, Copies, Binds, RestoresNotes, Succeeds, ArchivesShape
<1>8. ArchivesShape'
  BY <1>1, <1>3, <1>5, <1>6, <1>7 DEF ArchivesShape
<1> QED
  BY <1>1, <1>3, <1>4, <1>8, NotDeleting

-----------------------------------------------------------------------------
\* A deletion has all its sets before it.
Deleting(side, left) == [NoOperation EXCEPT !.op = "delete", !.side = side, !.left = left]
LEMMA DeletingIsOne ==
    ASSUME NEW side \in {"host", "imports"}, NEW left \in Seq(SUBSET Planes)
    PROVE  /\ Deleting(side, left) \in OperationRecords /\ Deleting(side, left).op = "delete"
           /\ Deleting(side, left).side = side /\ Deleting(side, left).left = left
<1>1. NoOperation \in OperationRecords
  BY NoOperationIsOne
<1> QED
  BY <1>1 DEF Deleting, OperationRecords

LEMMA DeleteStartKeepsDeletion ==
    ASSUME DeletionInv, NEW side \in {"host", "imports"}, NEW by \in {"path", "id"},
           StartsDelete(side, by)
    PROVE  DeletionInv'
<1>1. /\ UNCHANGED <<harness, host, imports, notes, archives, writes>>
      /\ ArchivesShape /\ restored' \in {NoArchive, restored}
      /\ \A p \in Planes : host[p] # 0 => p \in Store.planes
  BY DEF StartsDelete, DeletionInv, RemovesAll
<1>2. told' \in [side : {"host", "imports"}, says : {"nothing", "error", "missing", "deleted"}]
      /\ told'.says # "deleted"
  BY DEF StartsDelete, NothingTold
<1>3. Store' = Store
  BY <1>1 DEF Store
<1>4. CASE operation' = operation
  <2>1. operation = NoOperation
    BY DEF StartsDelete
  <2>2. ArchivesShape'
    BY <1>1, <1>2, <1>4 DEF ArchivesShape
  <2> QED
    BY <1>1, <1>2, <1>4, <2>1, <2>2, NoOperationIsOne, NotDeleting
<1>5. CASE operation' # operation
  <2>1. operation' = Deleting(side, Adapter.removes)
    BY <1>5 DEF StartsDelete, Deleting
  <2>2. /\ Adapter.removes \in Seq(SUBSET Planes)
        /\ \A p \in Planes : Removable(harness, p) =>
               \E i \in 1 .. Len(Adapter.removes) : p \in Adapter.removes[i]
    BY <1>1, AdaptersRemoveAll DEF ArchivesShape, Adapter
  <2>3. /\ operation' \in OperationRecords /\ operation'.op = "delete"
        /\ operation'.side = side /\ operation'.left = Adapter.removes
    BY <2>1, <2>2, DeletingIsOne
  <2>4. ASSUME NEW p \in Planes, Read(side)'[p] # 0
        PROVE  \E i \in 1 .. Len(operation'.left) : p \in operation'.left[i]
    <3>1. Read(side)' = Read(side)
      BY <1>1, <1>3 DEF Read
    <3>2. Removable(harness, p)
      BY <1>1, <2>4, <3>1, ReadIsRemovable, ReadOfHost
    <3> QED
      BY <2>2, <2>3, <3>2
  <2>5. ArchivesShape'
    BY <1>1, <1>2, <2>3 DEF ArchivesShape
  <2>6. RemovesAll'
    BY <1>1, <1>2, <1>3, <2>3, <2>4 DEF RemovesAll
  <2> QED
    BY <2>5, <2>6 DEF DeletionInv
<1> QED
  BY <1>4, <1>5

\* One set is removed, and what still shows is in the others.
LEMMA RemoveKeepsDeletion ==
    ASSUME DeletionInv, Removes
    PROVE  DeletionInv'
<1> DEFINE set == Head(operation.left)
           OfHost(p) == p \in set /\ (operation.side = "host" \/ p \in Store.borrows)
           OfImports(p) == p \in set /\ operation.side = "imports" /\ p \in Store.sees
<1>1. /\ UNCHANGED <<harness, notes, archives, writes, restored, told>>
      /\ operation.op = "delete" /\ operation.left # <<>>
      /\ operation' = [operation EXCEPT !.left = Tail(operation.left)]
      /\ host' = [p \in Planes |-> IF OfHost(p) THEN 0 ELSE host[p]]
      /\ imports' = [p \in Planes |-> IF OfImports(p) THEN 0 ELSE imports[p]]
      /\ ArchivesShape /\ operation \in OperationRecords
  BY DEF Removes, DeletionInv, ArchivesShape
<1>2. operation.left \in Seq(SUBSET Planes) /\ Tail(operation.left) \in Seq(SUBSET Planes)
      /\ Len(Tail(operation.left)) = Len(operation.left) - 1
      /\ \A i \in 1 .. Len(Tail(operation.left)) : Tail(operation.left)[i] = operation.left[i + 1]
      /\ set = operation.left[1]
  BY <1>1, HeadTailProperties DEF OperationRecords
<1>3. /\ operation' \in OperationRecords /\ operation'.op = "delete" /\ operation'.side = operation.side
      /\ operation'.left = Tail(operation.left) /\ operation'.quiet = operation.quiet
  BY <1>1, <1>2 DEF OperationRecords
<1>4. Store' = Store
  BY <1>1 DEF Store
<1>5. operation.side \in {"host", "imports"} /\ Len(operation.left) \in Nat
  BY <1>1, <1>2, LenProperties DEF OperationRecords
<1>6. host' \in [Planes -> Nat] /\ imports' \in [Planes -> Nat]
  BY <1>1 DEF ArchivesShape
<1>7. ASSUME NEW p \in Planes, Read(operation.side)'[p] # 0
      PROVE  Read(operation.side)[p] # 0 /\ p \notin set
  <2>1. CASE operation.side = "host"
    <3>1. Read(operation.side)'[p] = host'[p] /\ Read(operation.side)[p] = host[p]
      BY <1>3, <2>1 DEF Read
    <3> QED
      BY <1>1, <1>7, <2>1, <3>1
  <2>2. CASE operation.side = "imports"
    <3>1. Read(operation.side)'[p] = IF p \in Store.borrows THEN host'[p]
                                     ELSE IF p \in Store.sees THEN imports'[p] ELSE 0
      BY <1>3, <1>4, <2>2 DEF Read
    <3>2. Read(operation.side)[p] = IF p \in Store.borrows THEN host[p]
                                    ELSE IF p \in Store.sees THEN imports[p] ELSE 0
      BY <2>2, ReadOfImports
    <3>3. host'[p] = IF OfHost(p) THEN 0 ELSE host[p]
      BY <1>1
    <3>4. imports'[p] = IF OfImports(p) THEN 0 ELSE imports[p]
      BY <1>1
    <3> QED
      BY <1>7, <2>2, <3>1, <3>2, <3>3, <3>4
  <2> QED
    BY <1>5, <2>1, <2>2
<1>8. ASSUME operation.quiet, NEW p \in Planes, Read(operation.side)'[p] # 0
      PROVE  \E i \in 1 .. Len(operation'.left) : p \in operation'.left[i]
  <2>1. Read(operation.side)[p] # 0 /\ p \notin set
    BY <1>7, <1>8
  <2>2. PICK i \in 1 .. Len(operation.left) : p \in operation.left[i]
    BY <1>1, <1>8, <2>1 DEF DeletionInv, RemovesAll
  <2>3. i # 1 /\ i - 1 \in 1 .. Len(Tail(operation.left)) /\ (i - 1) + 1 = i
    BY <1>2, <1>5, <2>1, <2>2
  <2>4. p \in Tail(operation.left)[i - 1]
    BY <1>2, <2>2, <2>3
  <2> QED
    BY <1>3, <2>3, <2>4
<1>9. told.says # "deleted" /\ \A p \in Planes : host'[p] # 0 => p \in Store.planes
  BY <1>1 DEF DeletionInv, RemovesAll
<1>10. ArchivesShape'
  BY <1>1, <1>3, <1>6 DEF ArchivesShape
<1>11. RemovesAll'
  BY <1>1, <1>3, <1>4, <1>8, <1>9 DEF RemovesAll
<1> QED
  BY <1>10, <1>11 DEF DeletionInv

\* With nothing left to remove, nothing shows.
LEMMA AnswerKeepsDeletion ==
    ASSUME DeletionInv, AnswersDelete
    PROVE  DeletionInv'
<1>1. /\ UNCHANGED <<harness, host, imports, notes, archives, writes, restored>>
      /\ operation.op = "delete" /\ operation.left = <<>> /\ operation' = NoOperation
      /\ told' = IF operation.quiet THEN [side |-> operation.side, says |-> "deleted"] ELSE NothingTold
      /\ ArchivesShape /\ operation.side \in {"host", "imports"}
  BY DEF AnswersDelete, OperationEnds, DeletionInv, ArchivesShape, OperationRecords
<1>2. Store' = Store /\ Len(operation.left) = 0
  BY <1>1 DEF Store
<1>3. told' \in [side : {"host", "imports"}, says : {"nothing", "error", "missing", "deleted"}]
      /\ (told'.says = "deleted" => operation.quiet /\ told'.side = operation.side)
  BY <1>1 DEF NothingTold
<1>4. ASSUME told'.says = "deleted", NEW p \in Planes
      PROVE  Read(told.side)'[p] = 0
  <2>1. Read(told.side)' = Read(operation.side)
    BY <1>1, <1>2, <1>3, <1>4 DEF Read
  <2>2. ~ \E i \in 1 .. Len(operation.left) : p \in operation.left[i]
    BY <1>2
  <2>3. Read(operation.side)[p] = 0
    BY <1>1, <1>3, <1>4, <2>2 DEF DeletionInv, RemovesAll
  <2> QED
    BY <2>1, <2>3
<1>5. ArchivesShape'
  BY <1>1, <1>3, NoOperationIsOne DEF ArchivesShape
<1>6. RemovesAll'
  BY <1>1, <1>2, <1>4, NoOperationIsOne DEF RemovesAll, DeletionInv
<1> QED
  BY <1>5, <1>6 DEF DeletionInv

LEMMA ArchivesStepKeepsDeletion == DeletionInv /\ [ArchivesNext]_archiveVars => DeletionInv'
<1> SUFFICES ASSUME DeletionInv, [ArchivesNext]_archiveVars PROVE DeletionInv'
  OBVIOUS
<1>1. CASE UNCHANGED archiveVars
  BY <1>1 DEF archiveVars, DeletionInv, ArchivesShape, RemovesAll, Read, Store
<1>2. CASE ArchivesNext
  <2>1. CASE \E p \in Planes : AgentWrites(p)
    BY <2>1, AgentKeepsDeletion
  <2>2. CASE OperatorNotes \/ Breaks
    BY <2>2, NotesKeepDeletion, BreakKeepsDeletion
  <2>3. CASE Packs \/ Bundles \/ \E side \in {"host", "imports"} : StartsExport(side)
    BY <2>3, ExportKeepsDeletion
  <2>4. CASE \E kind \in {"bundle", "native", "directory"} : StartsImport(kind)
    BY <2>4, ImportStartKeepsDeletion
  <2>5. CASE Clears \/ MovesIn \/ Copies \/ Binds \/ RestoresNotes
    BY <2>5, ImportKeepsDeletion
  <2>6. CASE \E side \in {"host", "imports"}, by \in {"path", "id"} : StartsDelete(side, by)
    BY <2>6, DeleteStartKeepsDeletion
  <2>7. CASE Removes \/ AnswersDelete
    BY <2>7, RemoveKeepsDeletion, AnswerKeepsDeletion
  <2> QED
    BY <1>2, <2>1, <2>2, <2>3, <2>4, <2>5, <2>6, <2>7 DEF ArchivesNext
<1> QED
  BY <1>1, <1>2

\* A deletion that reports no error left nothing that its adapter reads, in
\* the store of any of the nine harnesses (delete_session_dirs, for every
\* number of writes, archives and operations that break off).
THEOREM DeletedIsGone == ArchivesSpec => []AnsweredDeletesAreGone
<1>1. DeletionInv => AnsweredDeletesAreGone
  BY DEF DeletionInv, RemovesAll, AnsweredDeletesAreGone
<1> QED
  BY <1>1, ArchivesInitInv, ArchivesStepKeepsDeletion, PTL DEF ArchivesSpec

-----------------------------------------------------------------------------
(***************************************************************************)
(* SessionArchives, import.  A store of which an import is a file or a     *)
(* directory of its own (Plain) has a trace to be listed by; what is       *)
(* exported of it was listed, so every archive holds a trace (Traced).     *)
(* Between the steps of an import the planes in the import store are none, *)
(* or the archive's (InPlace), and after one that succeeded they stay.     *)
(***************************************************************************)
Plain == Store.store # "database" /\ Store.borrows = {}
Remainders == {<<"clear", "move", "bind", "notes">>, <<"move", "bind", "notes">>,
             <<"bind", "notes">>, <<"notes">>,
             <<"clear", "copy", "bind">>, <<"copy", "bind">>, <<"bind">>}

HasTrace(planes) == planes["trace"] > 0
Traced ==
    /\ \A a \in archives : HasTrace(a.planes)
    /\ operation.op = "export" =>
           /\ HasTrace(Read(operation.side))
           /\ HasTrace(operation.holds) \/ \E i \in 1 .. Len(operation.todo) : operation.todo[i] = "trace"
    /\ operation.op = "import" => HasTrace(operation.archive.planes)

InPlace ==
    /\ operation.op = "import" =>
           /\ operation.todo \in Remainders
           /\ operation.todo = <<"move", "bind", "notes">> => imports = NoPlanes
           /\ operation.todo \in {<<"bind", "notes">>, <<"notes">>} => imports = operation.archive.planes
           /\ operation.todo = <<"bind">> /\ Store.store = "directory" => imports = operation.archive.planes
    /\ restored # NoArchive =>
           /\ HasTrace(imports) /\ imports["trace"] = restored.planes["trace"]
           /\ operation.op # "import" /\ ~(operation.op = "delete" /\ operation.side = "imports")

ImportInv == DeletionInv /\ (Plain => Traced /\ InPlace)

\* The plain stores.
LEMMA PlainStores ==
    ASSUME NEW h \in StoreKinds, FilesOf[h].store # "database", FilesOf[h].borrows = {}
    PROVE  /\ FilesOf[h].key = "trace" /\ FilesOf[h].lists /\ "trace" \in FilesOf[h].sees
           /\ \E i \in 1 .. Len(AdapterOf[h].packs) : AdapterOf[h].packs[i] = "trace"
<1>1. CASE h \in {"codex", "gemini", "pi"}
  <2>1. FilesOf[h] = OneFile /\ AdapterOf[h] = Sole
    BY <1>1 DEF FilesOf, AdapterOf, CodexFiles, GeminiFiles, PiFiles, Codex, Gemini, Pi
  <2> QED
    BY <2>1 DEF OneFile, Sole
<1>2. CASE h = "claude"
  <2>1. FilesOf[h] = ClaudeFiles /\ AdapterOf[h] = Claude
    BY <1>2 DEF FilesOf, AdapterOf
  <2> QED
    BY <2>1 DEF ClaudeFiles, Claude, OneFile
<1>3. CASE h = "grok"
  <2>1. FilesOf[h] = GrokFiles /\ AdapterOf[h] = Grok
    BY <1>3 DEF FilesOf, AdapterOf
  <2> QED
    BY <2>1 DEF GrokFiles, Grok
<1>4. CASE h \in {"cursor", "antigravity", "opencode", "copilot"}
  <2>1. FilesOf[h] \in {CursorFiles, AntigravityFiles, OpenCodeFiles, CopilotFiles}
    BY <1>4 DEF FilesOf
  <2>2. CursorFiles.borrows # {} /\ AntigravityFiles.borrows # {}
    BY DEF CursorFiles, AntigravityFiles, OneFile
  <2>3. OpenCodeFiles.store = "database" /\ CopilotFiles.store = "database"
    BY DEF OpenCodeFiles, CopilotFiles
  <2> QED
    BY <2>1, <2>2, <2>3
<1> QED
  BY <1>1, <1>2, <1>3, <1>4 DEF StoreKinds

\* Of a plain store, an import shows its own trace, and a listed copy has one.
LEMMA PlainReads ==
    ASSUME ArchivesShape, Plain, NEW side \in {"host", "imports"}
    PROVE  /\ Read("imports")["trace"] = imports["trace"]
           /\ Read(side)["trace"] = IF side = "host" THEN host["trace"] ELSE imports["trace"]
           /\ Listed(side) => HasTrace(Read(side))
           /\ HasTrace(imports) => Found("imports")
<1>1. Store.key = "trace" /\ Store.lists /\ "trace" \in Store.sees /\ Store.borrows = {}
  BY PlainStores DEF Plain, Store, ArchivesShape
<1>2. "trace" \in Planes
  BY DEF Planes
<1>3. Read("imports")["trace"] = imports["trace"]
  BY <1>1, <1>2, ReadOfImports
<1> QED
  BY <1>1, <1>3, ReadOfHost DEF Listed, Found, HasTrace

\* The tails of the steps of an import.
LEMMA SuffixTails ==
    ASSUME NEW todo \in Remainders, todo # <<>>
    PROVE  /\ Head(todo) = "clear" => Tail(todo) \in {<<"move", "bind", "notes">>, <<"copy", "bind">>}
           /\ Head(todo) = "move" => todo = <<"move", "bind", "notes">> /\ Tail(todo) = <<"bind", "notes">>
           /\ Head(todo) = "copy" => Tail(todo) = <<"bind">>
           /\ Head(todo) = "bind" => \/ todo = <<"bind">> /\ Len(todo) = 1
                                     \/ todo = <<"bind", "notes">> /\ Len(todo) = 2 /\ Tail(todo) = <<"notes">>
           /\ Head(todo) = "notes" => todo = <<"notes">>
<1>1. CASE todo = <<"clear", "move", "bind", "notes">>
  BY <1>1
<1>2. CASE todo = <<"move", "bind", "notes">>
  BY <1>2
<1>3. CASE todo = <<"bind", "notes">>
  BY <1>3
<1>4. CASE todo = <<"notes">>
  BY <1>4
<1>5. CASE todo = <<"clear", "copy", "bind">>
  BY <1>5
<1>6. CASE todo = <<"copy", "bind">>
  BY <1>6
<1>7. CASE todo = <<"bind">>
  BY <1>7
<1> QED
  BY <1>1, <1>2, <1>3, <1>4, <1>5, <1>6, <1>7 DEF Remainders

-----------------------------------------------------------------------------
\* A step that ends what is under way, if anything, and leaves the imports.
LEMMA StillInPlace ==
    ASSUME Traced, InPlace, archives' = archives, restored' \in {restored, NoArchive},
           operation'.op \notin {"export", "import"},
           restored' # NoArchive =>
               imports' = imports /\ ~(operation'.op = "delete" /\ operation'.side = "imports")
    PROVE  Traced' /\ InPlace'
  BY DEF Traced, InPlace, HasTrace

\* The agent only adds to the host's planes.
LEMMA AgentKeepsImports ==
    ASSUME ImportInv, Plain, NEW p \in Planes, AgentWrites(p), ArchivesShape'
    PROVE  Traced' /\ InPlace'
<1>1. /\ host' = [host EXCEPT ![p] = host[p] + 1] /\ operation' = [operation EXCEPT !.quiet = FALSE]
      /\ UNCHANGED <<harness, imports, archives, restored>>
  BY DEF AgentWrites
<1>2. ArchivesShape /\ operation \in OperationRecords /\ host \in [Planes -> Nat] /\ "trace" \in Planes
  BY DEF ImportInv, DeletionInv, ArchivesShape, Planes
<1>3. /\ operation'.op = operation.op /\ operation'.side = operation.side
      /\ operation'.todo = operation.todo /\ operation'.holds = operation.holds
      /\ operation'.archive = operation.archive /\ operation.side \in {"host", "imports"}
  BY <1>1, <1>2 DEF OperationRecords
<1>4. Store' = Store /\ Plain'
  BY <1>1 DEF Store, Plain
<1>5. host'["trace"] >= host["trace"] /\ host["trace"] \in Nat /\ host'["trace"] \in Nat
  BY <1>1, <1>2
<1>6. HasTrace(Read(operation.side)) => HasTrace(Read(operation.side)')
  <2>1. Read(operation.side)["trace"]
          = IF operation.side = "host" THEN host["trace"] ELSE imports["trace"]
    BY <1>2, <1>3, PlainReads
  <2>2. Read(operation.side)'["trace"]
          = IF operation.side = "host" THEN host'["trace"] ELSE imports'["trace"]
    <3>1. CASE operation.side = "host"
      BY <1>3, <3>1 DEF Read
    <3>2. CASE operation.side = "imports"
      <4>1. Read(operation.side)'["trace"] = IF "trace" \in Store.borrows THEN host'["trace"]
                                 ELSE IF "trace" \in Store.sees THEN imports'["trace"] ELSE 0
        BY <1>2, <1>3, <1>4, <3>2 DEF Read
      <4>2. "trace" \in Store.sees /\ "trace" \notin Store.borrows
        BY <1>2, PlainStores DEF Plain, Store, ArchivesShape
      <4> QED
        BY <3>2, <4>1, <4>2
    <3> QED
      BY <1>3, <3>1, <3>2
  <2> QED
    BY <1>1, <1>5, <2>1, <2>2 DEF HasTrace
<1>7. Traced'
  BY <1>1, <1>3, <1>6 DEF ImportInv, Traced
<1>8. InPlace'
  BY <1>1, <1>3, <1>4 DEF ImportInv, InPlace
<1> QED
  BY <1>7, <1>8

LEMMA NotesKeepImports ==
    ASSUME ImportInv, Plain, OperatorNotes
    PROVE  Traced' /\ InPlace'
<1>1. UNCHANGED <<harness, host, imports, archives, operation, restored>>
  BY DEF OperatorNotes
<1> QED
  BY <1>1 DEF ImportInv, Traced, InPlace, Read, Store, HasTrace

\* What breaks off in the middle of an import or of a deletion of one has no
\* import to speak of.
LEMMA BreakKeepsImports ==
    ASSUME ImportInv, Plain, Breaks
    PROVE  Traced' /\ InPlace'
<1>1. /\ operation' = NoOperation /\ archives' = archives /\ restored' = restored
      /\ imports' # imports => operation.op = "delete" /\ operation.side = "imports"
  BY DEF Breaks, OperationEnds, ImportInv, DeletionInv, ArchivesShape, OperationRecords
<1>2. restored # NoArchive => imports' = imports
  BY <1>1 DEF ImportInv, InPlace
<1> QED
  BY <1>1, <1>2, NoOperationIsOne, StillInPlace DEF ImportInv

-----------------------------------------------------------------------------
\* An export is of a copy with a trace, and holds it when all is packed.
LEMMA ExportStartKeepsImports ==
    ASSUME ImportInv, Plain, NEW side \in {"host", "imports"}, StartsExport(side)
    PROVE  Traced' /\ InPlace'
<1>1. /\ UNCHANGED <<harness, host, imports, archives, restored>> /\ ArchivesShape
      /\ Listed(side) /\ operation' = Begun("export", side, Adapter.packs)
  BY DEF StartsExport, Begun, ImportInv, DeletionInv
<1>2. Adapter.packs \in Seq(Planes \union ImportSteps)
      /\ \E i \in 1 .. Len(Adapter.packs) : Adapter.packs[i] = "trace"
  <2>1. harness \in StoreKinds /\ Store.store # "database" /\ Store.borrows = {}
    BY <1>1 DEF ArchivesShape, Plain
  <2>2. Adapter.packs \in Seq(Planes \union ImportSteps)
    BY <2>1, StoresHavePlanes DEF Adapter
  <2>3. \E i \in 1 .. Len(Adapter.packs) : Adapter.packs[i] = "trace"
    BY <2>1, PlainStores DEF Adapter, Store
  <2> QED
    BY <2>2, <2>3
<1>3. operation'.op = "export" /\ operation'.side = side /\ operation'.todo = Adapter.packs
  BY <1>1, <1>2, BegunIsOne
<1>4. HasTrace(Read(side)) /\ Read(side)' = Read(side)
  BY <1>1, PlainReads DEF Read, Store
<1>5. Traced'
  BY <1>1, <1>2, <1>3, <1>4 DEF ImportInv, Traced
<1>6. InPlace'
  BY <1>1, <1>3 DEF ImportInv, InPlace
<1> QED
  BY <1>5, <1>6

LEMMA PackKeepsImports ==
    ASSUME ImportInv, Plain, Packs
    PROVE  Traced' /\ InPlace'
<1>1. /\ UNCHANGED <<harness, host, imports, archives, restored>> /\ ArchivesShape
      /\ operation.op = "export" /\ operation.todo # <<>> /\ operation \in OperationRecords
  BY DEF Packs, ImportInv, DeletionInv, ArchivesShape
<1>2. CASE operation' = NoOperation
  BY <1>1, <1>2, NoOperationIsOne, StillInPlace DEF ImportInv
<1>3. CASE operation' # NoOperation
  <2> DEFINE p == Head(operation.todo)
             holds == [operation.holds EXCEPT ![p] = Read(operation.side)[p]]
  <2>1. operation' = [operation EXCEPT !.todo = Tail(operation.todo), !.holds = holds]
    BY <1>1, <1>3 DEF Packs, OperationEnds, OperationRecords
  <2>2. /\ operation.todo \in Seq(Planes \union ImportSteps) /\ Len(operation.todo) \in Nat
        /\ p = operation.todo[1] /\ Len(Tail(operation.todo)) = Len(operation.todo) - 1
        /\ \A i \in 1 .. Len(Tail(operation.todo)) : Tail(operation.todo)[i] = operation.todo[i + 1]
    BY <1>1, HeadTailProperties, LenProperties DEF OperationRecords
  <2>3. /\ operation'.op = "export" /\ operation'.side = operation.side
        /\ operation'.todo = Tail(operation.todo) /\ operation'.holds = holds
    <3> HIDE DEF holds
    <3> QED
      BY <1>1, <2>1 DEF OperationRecords
  <2>4. HasTrace(Read(operation.side)) /\ Read(operation.side)' = Read(operation.side)
    BY <1>1, <2>3 DEF ImportInv, Traced, Read, Store
  <2>5. operation.holds \in [Planes -> Nat] /\ "trace" \in Planes
    BY <1>1 DEF OperationRecords, Planes
  <2>6. p = "trace" => HasTrace(holds)
    BY <2>4, <2>5 DEF HasTrace
  <2>7. p # "trace" /\ HasTrace(operation.holds) => HasTrace(holds)
    BY <2>5 DEF HasTrace
  <2>8. ASSUME p # "trace", NEW i \in 1 .. Len(operation.todo), operation.todo[i] = "trace"
        PROVE  \E j \in 1 .. Len(operation'.todo) : operation'.todo[j] = "trace"
    <3>1. i # 1 /\ i - 1 \in 1 .. Len(Tail(operation.todo)) /\ (i - 1) + 1 = i
      BY <2>2, <2>8
    <3>2. Tail(operation.todo)[i - 1] = "trace"
      BY <2>2, <2>8, <3>1
    <3> QED
      BY <2>3, <3>1, <3>2
  <2>9. HasTrace(holds) \/ \E j \in 1 .. Len(operation'.todo) : operation'.todo[j] = "trace"
    <3> HIDE DEF holds, p
    <3> QED
      BY <1>1, <2>6, <2>7, <2>8 DEF ImportInv, Traced
  <2>10. Traced'
    BY <1>1, <2>3, <2>4, <2>9 DEF ImportInv, Traced
  <2>11. InPlace'
    BY <1>1, <2>3 DEF ImportInv, InPlace
  <2> QED
    BY <2>10, <2>11
<1> QED
  BY <1>2, <1>3

LEMMA BundleKeepsImports ==
    ASSUME ImportInv, Plain, Bundles
    PROVE  Traced' /\ InPlace'
<1>1. /\ UNCHANGED <<harness, host, imports, restored>> /\ operation' = NoOperation
      /\ operation.op = "export" /\ operation.todo = <<>>
      /\ archives' = archives \cup {[planes |-> operation.holds, notes |-> notes]}
  BY DEF Bundles, OperationEnds
<1>2. HasTrace(operation.holds)
  BY <1>1 DEF ImportInv, Traced
<1>3. \A a \in archives' : HasTrace(a.planes)
  BY <1>1, <1>2 DEF ImportInv, Traced
<1>4. Traced'
  BY <1>1, <1>3, NoOperationIsOne DEF Traced
<1>5. InPlace'
  BY <1>1, NoOperationIsOne DEF ImportInv, InPlace
<1> QED
  BY <1>4, <1>5

-----------------------------------------------------------------------------
\* An import is of something with a trace.
LEMMA ImportStartKeepsImports ==
    ASSUME ImportInv, Plain, NEW kind \in {"bundle", "native", "directory"}, StartsImport(kind)
    PROVE  Traced' /\ InPlace'
<1>1. /\ UNCHANGED <<harness, host, imports, archives>> /\ restored' = NoArchive /\ ArchivesShape
  BY DEF StartsImport, ImportInv, DeletionInv
<1>2. PICK a \in ArchiveRecords, todo \in {BundleSteps, CopySteps} :
         /\ operation' = ImportOf(a, todo)
         /\ kind # "directory" => a \in archives
         /\ kind = "directory" => a.planes = host /\ Store.store = "directory" /\ Listed("host")
  BY <1>1, StartsImportAs
<1>3. operation'.op = "import" /\ operation'.archive = a /\ operation'.todo = todo
  BY <1>2, ImportOfIsOne
<1>4. HasTrace(a.planes)
  <2>1. CASE kind = "directory"
    <3>1. HasTrace(Read("host"))
      BY <1>1, <1>2, <2>1, PlainReads
    <3> QED
      BY <1>2, <2>1, <3>1, ReadOfHost
  <2>2. CASE kind # "directory"
    BY <1>2, <2>2 DEF ImportInv, Traced
  <2> QED
    BY <2>1, <2>2
<1>5. Traced'
  BY <1>1, <1>3, <1>4 DEF ImportInv, Traced
<1>6. todo \in Remainders /\ todo \notin {<<"move", "bind", "notes">>, <<"bind", "notes">>, <<"notes">>, <<"bind">>}
  <2>1. CASE todo = BundleSteps
    BY <2>1 DEF BundleSteps, Remainders
  <2>2. CASE todo = CopySteps
    BY <2>2 DEF CopySteps, Remainders
  <2> QED
    BY <2>1, <2>2
<1>7. InPlace'
  BY <1>1, <1>3, <1>6 DEF InPlace
<1> QED
  BY <1>5, <1>7

\* The step of an import that is due, and what it leaves to do.
LEMMA StepIsDue ==
    ASSUME ImportInv, Plain, NEW s, Step(s)
    PROVE  /\ operation \in OperationRecords /\ operation.op = "import"
           /\ operation.todo \in Remainders /\ operation.todo # <<>> /\ Head(operation.todo) = s
           /\ HasTrace(operation.archive.planes) /\ restored = NoArchive
  BY DEF ImportInv, DeletionInv, ArchivesShape, Step, Traced, InPlace
LEMMA StepDone ==
    ASSUME operation \in OperationRecords, operation.todo # <<>>, StepsOn
    PROVE  /\ operation'.op = operation.op /\ operation'.todo = Tail(operation.todo)
           /\ operation'.archive = operation.archive
<1>1. operation' = [operation EXCEPT !.todo = Tail(operation.todo)]
  BY DEF StepsOn
<1> QED
  BY <1>1 DEF OperationRecords

LEMMA ClearKeepsImports ==
    ASSUME ImportInv, Plain, Clears
    PROVE  Traced' /\ InPlace'
<1>1. /\ Step("clear") /\ StepsOn /\ imports' = NoPlanes
      /\ UNCHANGED <<harness, host, archives, restored>>
  BY DEF Clears, Plain
<1>2. /\ operation \in OperationRecords /\ operation.op = "import"
      /\ operation.todo \in Remainders /\ operation.todo # <<>> /\ Head(operation.todo) = "clear"
      /\ HasTrace(operation.archive.planes) /\ restored = NoArchive
  BY <1>1, StepIsDue
<1>3. /\ operation'.op = "import" /\ operation'.archive = operation.archive
      /\ operation'.todo \in {<<"move", "bind", "notes">>, <<"copy", "bind">>}
  BY <1>1, <1>2, StepDone, SuffixTails
<1>4. Traced'
  BY <1>1, <1>2, <1>3 DEF ImportInv, Traced
<1>5. operation'.todo \in Remainders
      /\ operation'.todo \notin {<<"bind", "notes">>, <<"notes">>, <<"bind">>}
  <2>1. CASE operation'.todo = <<"move", "bind", "notes">>
    BY <2>1 DEF Remainders
  <2>2. CASE operation'.todo = <<"copy", "bind">>
    BY <2>2 DEF Remainders
  <2> QED
    BY <1>3, <2>1, <2>2
<1>6. InPlace'
  BY <1>1, <1>2, <1>5 DEF InPlace
<1> QED
  BY <1>4, <1>6

LEMMA MoveKeepsImports ==
    ASSUME ImportInv, Plain, MovesIn
    PROVE  Traced' /\ InPlace'
<1>1. Step("move") /\ StepsOn /\ UNCHANGED <<harness, host, archives, restored>> /\ ArchivesShape
  BY DEF MovesIn, ImportInv, DeletionInv
<1>2. /\ operation \in OperationRecords /\ operation.op = "import"
      /\ operation.todo \in Remainders /\ operation.todo # <<>> /\ Head(operation.todo) = "move"
      /\ HasTrace(operation.archive.planes) /\ restored = NoArchive
  BY <1>1, StepIsDue
<1>3. /\ operation'.op = "import" /\ operation'.archive = operation.archive
      /\ operation'.todo = <<"bind", "notes">> /\ operation.todo = <<"move", "bind", "notes">>
  BY <1>1, <1>2, StepDone, SuffixTails
<1>4. imports = NoPlanes /\ Store.key \in Planes
  BY <1>1, <1>2, <1>3, StoresHavePlanes DEF ImportInv, InPlace, ArchivesShape, Store
<1>5. imports[Store.key] = 0
  BY <1>4, NoOperationIsOne
<1>6. imports' = operation.archive.planes
  BY <1>5 DEF MovesIn, Plain
<1>7. Traced'
  BY <1>1, <1>2, <1>3 DEF ImportInv, Traced
<1>8. operation'.todo \in Remainders /\ operation'.todo # <<"move", "bind", "notes">>
      /\ operation'.todo # <<"bind">>
  BY <1>3 DEF Remainders
<1>9. InPlace'
  BY <1>1, <1>2, <1>3, <1>6, <1>8 DEF InPlace
<1> QED
  BY <1>7, <1>9

LEMMA CopyKeepsImports ==
    ASSUME ImportInv, Plain, Copies
    PROVE  Traced' /\ InPlace'
<1>1. /\ Step("copy") /\ StepsOn /\ UNCHANGED <<harness, host, archives, restored>>
      /\ Store.store = "directory" => imports' = operation.archive.planes
  BY DEF Copies
<1>2. /\ operation \in OperationRecords /\ operation.op = "import"
      /\ operation.todo \in Remainders /\ operation.todo # <<>> /\ Head(operation.todo) = "copy"
      /\ HasTrace(operation.archive.planes) /\ restored = NoArchive
  BY <1>1, StepIsDue
<1>3. /\ operation'.op = "import" /\ operation'.archive = operation.archive
      /\ operation'.todo = <<"bind">>
  BY <1>1, <1>2, StepDone, SuffixTails
<1>4. Traced'
  BY <1>1, <1>2, <1>3 DEF ImportInv, Traced
<1>5. operation'.todo \in Remainders
      /\ operation'.todo \notin {<<"move", "bind", "notes">>, <<"bind", "notes">>, <<"notes">>}
  BY <1>3 DEF Remainders
<1>6. Store' = Store
  BY <1>1 DEF Store
<1>7. InPlace'
  BY <1>1, <1>2, <1>3, <1>5, <1>6 DEF InPlace
<1> QED
  BY <1>4, <1>7

LEMMA BindKeepsImports ==
    ASSUME ImportInv, Plain, Binds
    PROVE  Traced' /\ InPlace'
<1>1. Step("bind") /\ UNCHANGED <<harness, host, imports, archives>>
  BY DEF Binds
<1>2. /\ operation \in OperationRecords /\ operation.op = "import"
      /\ operation.todo \in Remainders /\ operation.todo # <<>> /\ Head(operation.todo) = "bind"
      /\ HasTrace(operation.archive.planes) /\ restored = NoArchive
  BY <1>1, StepIsDue
<1>3. CASE operation' = NoOperation /\ restored' = restored
  BY <1>1, <1>3, NoOperationIsOne, StillInPlace DEF ImportInv
<1>4. CASE Len(operation.todo) = 1 /\ Store.store = "directory" /\ Succeeds
  <2>1. operation.todo = <<"bind">>
    BY <1>2, <1>4, SuffixTails
  <2>2. imports = operation.archive.planes
    BY <1>2, <1>4, <2>1 DEF ImportInv, InPlace
  <2>3. operation' = NoOperation /\ restored' = operation.archive
    BY <1>4 DEF Succeeds, OperationEnds
  <2>4. Traced'
    BY <1>1, <2>3, NoOperationIsOne DEF ImportInv, Traced
  <2>5. InPlace'
    BY <1>1, <1>2, <2>2, <2>3, NoOperationIsOne DEF InPlace
  <2> QED
    BY <2>4, <2>5
<1>5. CASE Len(operation.todo) # 1 /\ StepsOn /\ restored' = restored
  <2>1. operation.todo = <<"bind", "notes">> /\ Tail(operation.todo) = <<"notes">>
    BY <1>2, <1>5, SuffixTails
  <2>2. imports = operation.archive.planes
    BY <1>2, <2>1 DEF ImportInv, InPlace
  <2>3. /\ operation'.op = "import" /\ operation'.archive = operation.archive
        /\ operation'.todo = <<"notes">>
    BY <1>2, <1>5, <2>1, StepDone
  <2>4. Traced'
    BY <1>1, <1>2, <2>3 DEF ImportInv, Traced
  <2>5. operation'.todo \in Remainders
        /\ operation'.todo \notin {<<"move", "bind", "notes">>, <<"bind">>}
    BY <2>3 DEF Remainders
  <2>6. InPlace'
    BY <1>1, <1>2, <1>5, <2>2, <2>3, <2>5 DEF InPlace
  <2> QED
    BY <2>4, <2>6
<1> QED
  BY <1>3, <1>4, <1>5 DEF Binds, OperationEnds

LEMMA NotesStepKeepsImports ==
    ASSUME ImportInv, Plain, RestoresNotes
    PROVE  Traced' /\ InPlace'
<1>1. /\ Step("notes") /\ UNCHANGED <<harness, host, imports, archives>>
      /\ operation' = NoOperation /\ restored' = operation.archive
  BY DEF RestoresNotes, Succeeds, OperationEnds
<1>2. /\ operation.op = "import" /\ operation.todo = <<"notes">>
      /\ HasTrace(operation.archive.planes)
  BY <1>1, StepIsDue, SuffixTails
<1>3. imports = operation.archive.planes
  BY <1>2 DEF ImportInv, InPlace
<1>4. Traced'
  BY <1>1, NoOperationIsOne DEF ImportInv, Traced
<1>5. InPlace'
  BY <1>1, <1>2, <1>3, NoOperationIsOne DEF InPlace
<1> QED
  BY <1>4, <1>5

-----------------------------------------------------------------------------
\* A deletion of the import forgets it, and one of the host's leaves it.
LEMMA DeletionKeepsImports ==
    ASSUME ImportInv, Plain,
           \/ \E side \in {"host", "imports"}, by \in {"path", "id"} : StartsDelete(side, by)
           \/ Removes \/ AnswersDelete
    PROVE  Traced' /\ InPlace'
<1>1. CASE \E side \in {"host", "imports"}, by \in {"path", "id"} : StartsDelete(side, by)
  <2>1. PICK side \in {"host", "imports"}, by \in {"path", "id"} : StartsDelete(side, by)
    BY <1>1
  <2>2. /\ archives' = archives /\ imports' = imports /\ operation = NoOperation
        /\ operation' = operation \/ operation' = Deleting(side, Adapter.removes)
        /\ restored' = IF side = "imports" THEN NoArchive ELSE restored
    BY <2>1 DEF StartsDelete, Deleting
  <2>3. Adapter.removes \in Seq(SUBSET Planes)
    BY AdaptersRemoveAll DEF ImportInv, DeletionInv, ArchivesShape, Adapter
  <2>4. /\ operation'.op \in {"none", "delete"}
        /\ operation'.op = "delete" => operation'.side = side
    BY <2>2, <2>3, DeletingIsOne, NoOperationIsOne
  <2> QED
    BY <2>2, <2>4, StillInPlace DEF ImportInv
<1>2. CASE Removes
  <2>1. /\ archives' = archives /\ restored' = restored /\ operation.op = "delete"
        /\ operation' = [operation EXCEPT !.left = Tail(operation.left)]
        /\ imports' = [p \in Planes |-> IF p \in Head(operation.left) /\ operation.side = "imports"
                                                                     /\ p \in Store.sees
                                        THEN 0 ELSE imports[p]]
    BY <1>2 DEF Removes
  <2>2. operation \in OperationRecords /\ imports \in [Planes -> Nat]
    BY DEF ImportInv, DeletionInv, ArchivesShape
  <2>3. operation'.op = "delete" /\ operation'.side = operation.side
    BY <2>1, <2>2 DEF OperationRecords
  <2>4. restored # NoArchive => operation.side # "imports"
    BY <2>1 DEF ImportInv, InPlace
  <2>5. restored # NoArchive => imports' = imports
    BY <2>1, <2>2, <2>4
  <2> QED
    BY <2>1, <2>3, <2>4, <2>5, StillInPlace DEF ImportInv
<1>3. CASE AnswersDelete
  <2>1. archives' = archives /\ restored' = restored /\ operation' = NoOperation /\ imports' = imports
    BY <1>3 DEF AnswersDelete, OperationEnds
  <2> QED
    BY <2>1, NoOperationIsOne, StillInPlace DEF ImportInv
<1> QED
  BY <1>1, <1>2, <1>3

LEMMA ArchivesStepKeepsImports == ImportInv /\ [ArchivesNext]_archiveVars => ImportInv'
<1> SUFFICES ASSUME ImportInv, [ArchivesNext]_archiveVars PROVE ImportInv'
  OBVIOUS
<1>1. DeletionInv'
  BY ArchivesStepKeepsDeletion DEF ImportInv
<1>2. harness' = harness
  BY DEF ArchivesNext, archiveVars, AgentWrites, OperatorNotes, Breaks, Packs, Bundles, StartsExport,
         StartsImport, Clears, MovesIn, Copies, Binds, RestoresNotes, StartsDelete, Removes, AnswersDelete
<1>3. SUFFICES ASSUME Plain PROVE Traced' /\ InPlace'
  BY <1>1, <1>2 DEF ImportInv, Plain, Store
<1>4. CASE UNCHANGED archiveVars
  BY <1>3, <1>4 DEF archiveVars, ImportInv, Traced, InPlace, Read, Store, HasTrace
<1>5. CASE ArchivesNext
  <2>1. CASE \E p \in Planes : AgentWrites(p)
    BY <1>3, <1>1, <2>1, AgentKeepsImports DEF DeletionInv
  <2>2. CASE OperatorNotes \/ Breaks
    BY <1>3, <2>2, NotesKeepImports, BreakKeepsImports
  <2>3. CASE Packs \/ Bundles \/ \E side \in {"host", "imports"} : StartsExport(side)
    BY <1>3, <2>3, ExportStartKeepsImports, PackKeepsImports, BundleKeepsImports
  <2>4. CASE \E kind \in {"bundle", "native", "directory"} : StartsImport(kind)
    BY <1>3, <2>4, ImportStartKeepsImports
  <2>5. CASE Clears \/ MovesIn \/ Copies \/ Binds \/ RestoresNotes
    BY <1>3, <2>5, ClearKeepsImports, MoveKeepsImports, CopyKeepsImports, BindKeepsImports,
       NotesStepKeepsImports
  <2>6. CASE \/ \E side \in {"host", "imports"}, by \in {"path", "id"} : StartsDelete(side, by)
             \/ Removes \/ AnswersDelete
    BY <1>3, <2>6, DeletionKeepsImports
  <2> QED
    BY <1>5, <2>1, <2>2, <2>3, <2>4, <2>5, <2>6 DEF ArchivesNext
<1> QED
  BY <1>4, <1>5

\* An import that succeeded shows the trace its archive holds, whatever was
\* imported before or broke off on the way (import_session, for every store
\* whose import is a file or a directory of its own).
THEOREM ImportShowsItsArchive == ArchivesSpec => []ImportedIsArchived
<1>1. ImportInv => ImportedIsArchived
  BY PlainReads DEF ImportInv, DeletionInv, InPlace, Plain, ImportedIsArchived
<1>2. ArchivesInit => ImportInv
  <2> SUFFICES ASSUME ArchivesInit PROVE ImportInv
    OBVIOUS
  <2>1. archives = {} /\ operation = NoOperation /\ restored = NoArchive
    BY DEF ArchivesInit
  <2>2. Traced /\ InPlace
    BY <2>1, NoOperationIsOne DEF Traced, InPlace
  <2> QED
    BY <2>2, ArchivesInitInv DEF ImportInv
<1> QED
  BY <1>1, <1>2, ArchivesStepKeepsImports, PTL DEF ArchivesSpec

-----------------------------------------------------------------------------
(***************************************************************************)
(* QueryLanguage, typing.  In the Timeline's box every value of is: and    *)
(* has: is closed, so that whatever is half typed is unfinished, and the   *)
(* loop of finished_prefix ends where the clauses that parse end.          *)
(***************************************************************************)
TimelineTokens == Tokens("timeline")

BoxInv ==
    /\ box = [scope |-> box.scope, text |-> box.text, seen |-> box.seen]
    /\ box.scope = "timeline" => box.text \in Seq(TimelineTokens)

LEMMA ClosedInTheTimeline == Closed("is") = {"tool"} /\ Closed("has") = {"error"}
<1> DEFINE naming(field) == {i \in DOMAIN Chain : ClosedValues[Chain[i]][field] # {}}
<1>1. DOMAIN Chain = 1 .. 3 /\ Chain[1] = "timeline"
  BY DEF Chain
<1>2. ASSUME NEW field \in {"is", "has"}
      PROVE  Closed(field) = ClosedValues["timeline"][field]
  <2>1. 1 \in naming(field) /\ \A i \in naming(field) : i \in 1 .. 3
    BY <1>1 DEF ClosedValues
  <2> HIDE DEF naming
  <2>2. Min(naming(field)) = 1
    BY <2>1 DEF Min
  <2> QED
    BY <1>1, <2>2 DEF Closed, naming
<1> QED
  BY <1>2 DEF ClosedValues

FieldTokens == {Token("field", c[1], c[2], p) : c \in Clauses["timeline"],
                                                p \in {"none", "part", "whole"}}
JoinTokens == {Token("join", j, NoValue, p) : j \in Joins, p \in {"none", "whole"}}
OtherTokens == {Token("join", "AND", NoValue, "part"), Token("word", "w", NoValue, "whole")}

LEMMA TimelineTokensAre == TimelineTokens = FieldTokens \union JoinTokens \union OtherTokens
BY DEF TimelineTokens, Tokens, FieldTokens, JoinTokens, OtherTokens

LEMMA FieldTokenIs ==
    ASSUME NEW t \in FieldTokens
    PROVE  \E c \in Clauses["timeline"], p \in {"none", "part", "whole"} :
               t = Token("field", c[1], c[2], p)
BY DEF FieldTokens

LEMMA JoinTokenIs ==
    ASSUME NEW t \in JoinTokens
    PROVE  \E j \in Joins, p \in {"none", "whole"} : t = Token("join", j, NoValue, p)
BY DEF JoinTokens

LEMMA ClauseIs ==
    ASSUME NEW c \in Clauses["timeline"]
    PROVE  \/ c[1] = "is" /\ c[2] = "tool"
           \/ c[1] = "has" /\ c[2] = "error"
           \/ c[1] = "user" /\ c[2] = "w"
<1>1. c \in {<<"is", "tool">>, <<"has", "error">>, <<"user", "w">>}
  BY DEF Clauses
<1> QED
  BY <1>1

LEMMA TokenOfTimeline ==
    ASSUME NEW t \in TimelineTokens
    PROVE  /\ t.kind \in {"field", "join", "word"} /\ t.typed \in {"none", "part", "whole"}
           /\ t.kind = "field" => \/ t.name = "is" /\ t.value = "tool"
                                  \/ t.name = "has" /\ t.value = "error"
                                  \/ t.name = "user" /\ t.value = "w"
<1>1. CASE t \in FieldTokens
  <2>1. PICK c \in Clauses["timeline"], p \in {"none", "part", "whole"} :
             t = Token("field", c[1], c[2], p)
    BY <1>1, FieldTokenIs
  <2>2. t.kind = "field" /\ t.name = c[1] /\ t.value = c[2] /\ t.typed = p
    BY <2>1 DEF Token
  <2> QED
    BY <2>2, ClauseIs
<1>2. CASE t \in JoinTokens
  <2>1. PICK j \in Joins, p \in {"none", "whole"} : t = Token("join", j, NoValue, p)
    BY <1>2, JoinTokenIs
  <2> QED
    BY <2>1 DEF Token
<1>3. CASE t \in OtherTokens
  BY <1>3 DEF Token, OtherTokens
<1>4. t \in FieldTokens \/ t \in JoinTokens \/ t \in OtherTokens
  BY TimelineTokensAre
<1> QED
  BY <1>1, <1>2, <1>3, <1>4

LEMMA HalfTypedIsUnfinished ==
    ASSUME NEW t \in TimelineTokens, HalfTyped(t)
    PROVE  Unfinished(t)
BY TokenOfTimeline, ClosedInTheTimeline DEF HalfTyped, Unfinished

LEMMA WholeIsFinished ==
    ASSUME NEW t \in TimelineTokens, t.typed = "whole", ~IsJoin(t)
    PROVE  ~Unfinished(t)
BY DEF Unfinished, IsJoin

LEMMA PrefixIs ==
    ASSUME NEW T, NEW text \in Seq(T), NEW k \in 0 .. Len(text),
           k # 0 => ~Unfinished(text[k]), \A i \in k + 1 .. Len(text) : Unfinished(text[i])
    PROVE  FinishedPrefix(text) = SubSeq(text, 1, k)
<1> DEFINE S == {0} \union {i \in DOMAIN text : ~Unfinished(text[i])}
<1>1. k \in S /\ \A i \in S : i \in Nat /\ i <= k
  OBVIOUS
<1>0. S \subseteq Int
  BY <1>1
<1> HIDE DEF S
<1>2. Max(S) = k
  <2>1. k \in Int /\ \A i \in S : k >= i
    BY <1>0, <1>1
  <2>2. \A x \in S : (\A i \in S : x >= i) => x = k
    BY <1>0, <1>1, <2>1
  <2> QED
    BY <1>1, <2>1, <2>2 DEF Max
<1> QED
  BY <1>2 DEF FinishedPrefix, S

LEMMA FinishedIsMatched ==
    ASSUME NEW text \in Seq(TimelineTokens), NEW seen, NEW k \in 0 .. Len(text),
           IsFinished(SubSeq(text, 1, k)), \A i \in k + 1 .. Len(text) : HalfTyped(text[i])
    PROVE  Matches(text, seen) = (k = 0 \/ Holds(SubSeq(text, 1, k), seen))
<1> DEFINE finished == SubSeq(text, 1, k)
<1>1. \A i \in 1 .. Len(text) : text[i] \in TimelineTokens
  OBVIOUS
<1>2. \A i \in k + 1 .. Len(text) : Unfinished(text[i])
  BY <1>1, HalfTypedIsUnfinished
<1>3. k \in Nat /\ Len(finished) = k /\ \A i \in 1 .. k : finished[i] = text[i]
  OBVIOUS
<1>4. k # 0 => Parses(finished) /\ ~Unfinished(text[k])
  <2> SUFFICES ASSUME k # 0 PROVE Parses(finished) /\ ~Unfinished(text[k])
    OBVIOUS
  <2>1. finished # <<>> /\ k \in 1 .. k /\ k \in 1 .. Len(text) /\ k \in DOMAIN finished
    BY <1>3
  <2>2. Parses(finished) /\ \A t \in ToSet(finished) : t.typed = "whole"
    BY <2>1 DEF IsFinished
  <2>3. finished[k] \in ToSet(finished)
    BY <2>1 DEF ToSet
  <2>4. ~IsJoin(finished[k])
    BY <1>3, <2>2 DEF Parses, Last
  <2> HIDE DEF finished
  <2>5. text[k].typed = "whole" /\ ~IsJoin(text[k])
    BY <1>3, <2>1, <2>2, <2>3, <2>4
  <2> QED
    BY <1>1, <2>1, <2>2, <2>5, WholeIsFinished
<1>5. FinishedPrefix(text) = finished
  BY <1>2, <1>4, PrefixIs
<1>6. finished = <<>> <=> k = 0
  BY <1>3
<1> HIDE DEF finished
<1>7. CASE k = 0
  BY <1>5, <1>6, <1>7 DEF Matches
<1>8. CASE k # 0
  BY <1>4, <1>5, <1>6, <1>8 DEF Matches, finished
<1> QED
  BY <1>7, <1>8

LEMMA TypedKeeps ==
    ASSUME BoxInv, NEW text, Typed(text), box.scope = "timeline" => text \in Seq(TimelineTokens)
    PROVE  BoxInv'
<1>1. box' = [box EXCEPT !.text = text]
  BY DEF Typed
<1>2. box'.scope = box.scope /\ box'.text = text /\ box'.seen = box.seen
  BY <1>1 DEF BoxInv
<1>3. box' = [scope |-> box'.scope, text |-> box'.text, seen |-> box'.seen]
  BY <1>1, <1>2 DEF BoxInv
<1> QED
  BY <1>2, <1>3 DEF BoxInv

LEMMA HintIsAToken ==
    ASSUME NEW t \in TimelineTokens, t.kind = "field"
    PROVE  [t EXCEPT !.typed = "whole"] \in TimelineTokens
<1>1. t \in FieldTokens
  <2>1. CASE t \in JoinTokens
    <3>1. PICK j \in Joins, p \in {"none", "whole"} : t = Token("join", j, NoValue, p)
      BY <2>1, JoinTokenIs
    <3> QED
      BY <3>1 DEF Token
  <2>2. CASE t \in OtherTokens
    BY <2>2 DEF Token, OtherTokens
  <2> QED
    BY <2>1, <2>2, TimelineTokensAre
<1>2. PICK c \in Clauses["timeline"], p \in {"none", "part", "whole"} :
           t = Token("field", c[1], c[2], p)
  BY <1>1, FieldTokenIs
<1>3. [t EXCEPT !.typed = "whole"] = Token("field", c[1], c[2], "whole")
  BY <1>2 DEF Token
<1>4. Token("field", c[1], c[2], "whole") \in FieldTokens
  BY DEF FieldTokens
<1> QED
  BY <1>3, <1>4, TimelineTokensAre

\* While a clause is typed in the Timeline's box, or the operator before it,
\* finished_prefix cuts the text back to exactly the clauses that were whole
\* before, whatever they are and however many: the box goes on matching what
\* they match.
THEOREM TimelineAlwaysKeepsMatches == QuerySpec => []TimelineKeepsMatches
<1>1. QueryInit => BoxInv
  <2> SUFFICES ASSUME QueryInit PROVE BoxInv
    OBVIOUS
  <2>1. \E scope, seen : box = [scope |-> scope, text |-> <<>>, seen |-> seen]
    BY DEF QueryInit
  <2> QED
    BY <2>1 DEF BoxInv
<1>2. BoxInv /\ [QueryNext]_queryVars => BoxInv'
  <2> SUFFICES ASSUME BoxInv, [QueryNext]_queryVars PROVE BoxInv'
    OBVIOUS
  <2>1. CASE TypesToken
    <3>1. PICK t \in Tokens(box.scope) : Typed(Append(box.text, t))
      BY <2>1 DEF TypesToken
    <3>2. box.scope = "timeline" => Append(box.text, t) \in Seq(TimelineTokens)
      BY DEF BoxInv, TimelineTokens
    <3> QED
      BY <3>1, <3>2, TypedKeeps
  <2>2. CASE TakesHint
    <3> DEFINE hint == [Last(box.text) EXCEPT !.typed = "whole"]
    <3>1. /\ box.text # <<>> /\ Last(box.text).kind = "field"
          /\ Typed(Append(Front(box.text), hint))
      BY <2>2 DEF TakesHint
    <3>2. ASSUME box.scope = "timeline"
          PROVE  Append(Front(box.text), hint) \in Seq(TimelineTokens)
      <4>1. /\ Front(box.text) \in Seq(TimelineTokens) /\ Last(box.text) \in TimelineTokens
        BY <3>1, <3>2 DEF BoxInv, Front, Last
      <4>2. hint \in TimelineTokens
        BY <3>1, <4>1, HintIsAToken
      <4> HIDE DEF hint
      <4> QED
        BY <4>1, <4>2
    <3> QED
      BY <3>1, <3>2, TypedKeeps
  <2>3. CASE Erases
    <3>1. box.text # <<>> /\ Typed(Front(box.text))
      BY <2>3 DEF Erases
    <3>2. box.scope = "timeline" => Front(box.text) \in Seq(TimelineTokens)
      BY <3>1 DEF BoxInv, Front
    <3> QED
      BY <3>1, <3>2, TypedKeeps
  <2>4. CASE UNCHANGED box
    BY <2>4 DEF BoxInv
  <2> QED
    BY <2>1, <2>2, <2>3, <2>4
       DEF QueryNext, queryVars, Leaves, OwnerRebuilds, OwnerAnswers, TerminalShows
<1>3. BoxInv => TimelineKeepsMatches
  <2> SUFFICES ASSUME BoxInv, box.scope = "timeline", NEW k \in 0 .. Len(box.text),
                      IsFinished(SubSeq(box.text, 1, k)),
                      \A i \in k + 1 .. Len(box.text) : HalfTyped(box.text[i])
               PROVE  Matches(box.text, box.seen)
                        = (k = 0 \/ Holds(SubSeq(box.text, 1, k), box.seen))
    BY DEF TimelineKeepsMatches, BoxKeepsMatches
  <2> QED
    BY FinishedIsMatched DEF BoxInv
<1> QED
  BY <1>1, <1>2, <1>3, PTL DEF QuerySpec
=============================================================================
