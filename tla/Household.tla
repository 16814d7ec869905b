------------------------------- MODULE Household -------------------------------
(***************************************************************************)
(* The committed rows that the dashboard and the activity summaries read,  *)
(* and the transactions that change them: the assignment of devices to     *)
(* people (backend/app/api/people.py) in detail, the others as the         *)
(* modules of their components leave them.                                 *)
(*                                                                         *)
(* db is [activity, seen, unknown, links, source, baselines].  activity    *)
(* gives for a lookup its device when it is ATTRIBUTED, Review when it     *)
(* needs review, Ignored when a parent has put it aside, or NoRow.         *)
(***************************************************************************)
EXTENDS Activity

CONSTANTS
  Lookup,         \* dns_query: [id, at, domain, blocked], one record for each
  Device, Person, Source,
  Parent,         \* who assigns devices
  NoRow, Review, Ignored,
  Start,          \* databases to start from
  MaxChanges,     \* bound on commits, ticks and assignments begun
  MaxTime         \* bound on the clock

ASSUME HouseholdAssumption ==
  /\ MaxChanges \in Nat /\ MaxTime \in Nat
  /\ \A S \in {Lookup, Device, Source} : IsFiniteSet(S)
  /\ \A r \in Lookup : r.at \in Nat
  /\ {NoRow, Review, Ignored} \cap Device = {}
  /\ None \notin Person \cup Device

VARIABLES
  now, db,
  assigning,  \* the assignment a parent has begun: [person, device, read]
  changes     \* how many there have been

householdVars == <<now, db, assigning, changes>>

Fate == Device \cup {NoRow, Review, Ignored}

\* A row of person_device; its id is its place in db.links.
Link == [person : Person, device : Device, active : BOOLEAN, unread : SUBSET Nat]

\* No device starts with two owners.
ASSUME StartAssumption ==
  \A database \in Start :
    /\ {"activity", "links", "unknown"} \subseteq DOMAIN database
    /\ database.activity \in [Lookup -> Fate] /\ database.links \in Seq(Link)
    /\ database.unknown \in [Device -> BOOLEAN]
    /\ \A i, j \in DOMAIN database.links :
         i # j => ~(/\ database.links[i].active /\ database.links[j].active
                    /\ database.links[i].device = database.links[j].device)

\* Active person_device rows of a device.
ActiveLinks(d) == {i \in DOMAIN db.links : db.links[i].device = d /\ db.links[i].active}

Change(database) == changes < MaxChanges /\ changes' = changes + 1 /\ db' = database

-----------------------------------------------------------------------------
\* assign_device reads the active links of the device.
AssignRead(c, p, d) ==
  /\ assigning[c] = None
  /\ Change(db)
  /\ assigning' = [assigning EXCEPT ![c] = [person |-> p, device |-> d,
                                            read |-> ActiveLinks(d)]]
  /\ UNCHANGED now

\* Mutant: only a link of the same person is ended.
EndedOwn(links, a) ==
  [i \in DOMAIN links |-> [links[i] EXCEPT !.active = @ /\ (i \in a.read => links[i].person # a.person)]]

\* Every link that was read is ended.
Ended(links, a) ==
  [i \in DOMAIN links |-> [links[i] EXCEPT !.active = @ /\ i \notin a.read]]

\* unread is a note of the model: the links of the device that were committed
\* after the request had read them, and not ended since.
NewLink(a) ==
  [person |-> a.person, device |-> a.device, active |-> TRUE,
   unread |-> ActiveLinks(a.device) \ a.read]

\* assign_device: a link to the same person is all that was asked for.
AssignCommit(c) ==
  LET a == assigning[c]
  IN /\ a # None
     /\ IF \E i \in a.read : db.links[i].person = a.person
        THEN db' = db
        ELSE db' = [db EXCEPT !.links = Append(Ended(@, a), NewLink(a))]
     /\ assigning' = [assigning EXCEPT ![c] = None]
     /\ UNCHANGED <<now, changes>>

\* unassign_device; with two active rows of one person scalar_one_or_none
\* raises and nothing is changed.
Unassign(p, d) ==
  /\ \E i \in ActiveLinks(d) :
       /\ {k \in ActiveLinks(d) : db.links[k].person = p} = {i}
       /\ Change([db EXCEPT !.links[i].active = FALSE])
  /\ UNCHANGED <<now, assigning>>

-----------------------------------------------------------------------------
\* The correlation decides a lookup, or a parent does (module Correlation).
Decide(r) ==
  /\ \E fate \in CASE db.activity[r] = NoRow   -> Device \cup {Review}
                   [] db.activity[r] = Review  -> Device \cup {Ignored}
                   [] db.activity[r] = Ignored -> {}
                   [] OTHER                    -> (Device \ {db.activity[r]}) \cup {Review} :
       Change([db EXCEPT !.activity[r] = fate])
  /\ UNCHANGED <<now, assigning>>

\* A poll sees a device and may learn its MAC; a device that is known stays so,
\* since nothing takes a strong identifier from it (module DeviceIdentity).
Sight(d) ==
  /\ \E unknown \in {db.unknown[d], FALSE} : Change([db EXCEPT !.seen[d] = now, !.unknown[d] = unknown])
  /\ UNCHANGED <<now, assigning>>

\* A cycle of a source ends (module SourceHealth).
Cycle(s) ==
  /\ \/ Change([db EXCEPT !.source[s] = [success |-> now, failures |-> 0]])
     \/ Change([db EXCEPT !.source[s].failures = @ + 1])
  /\ UNCHANGED <<now, assigning>>

Tick ==
  /\ now < MaxTime /\ now' = now + 1
  /\ Change(db)
  /\ UNCHANGED assigning

HouseholdInit ==
  /\ now = MaxTime - 1 /\ db \in Start
  /\ assigning = [c \in Parent |-> None] /\ changes = 0

Assignment ==
  \/ \E c \in Parent : AssignCommit(c) \/ \E p \in Person, d \in Device : AssignRead(c, p, d)
  \/ \E p \in Person, d \in Device : Unassign(p, d)

Ingest ==
  \/ \E r \in Lookup : Decide(r)
  \/ \E d \in Device : Sight(d)
  \/ \E s \in Source : Cycle(s)
  \/ Tick

-----------------------------------------------------------------------------
\* A device belongs to two people only if the later assignment had read the
\* links before the earlier one was committed (assign_device has no lock, and
\* person_device no constraint for it).
OneOwnerUnlessOverlap ==
  \A i, j \in DOMAIN db.links : LET earlier == db.links[i] later == db.links[j] IN
    i < j /\ earlier.active /\ later.active /\ earlier.device = later.device => i \in later.unread
=============================================================================
