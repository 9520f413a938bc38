------------------------------ MODULE AuditLog ------------------------------
(***************************************************************************)
(* The audit log of LocalStore (crates/bitbygit-store/src/lib.rs:          *)
(* append_audit, list_audit_entries).  An entry is one line of five        *)
(* fields, the time stamp first and the message last.  A write that fails, *)
(* or a process that dies in it, leaves any part of the line, which        *)
(* nothing ends: the next entry is written onto it.                        *)
(***************************************************************************)
EXTENDS Lists

CONSTANTS
  MaxEntries, \* bound: entries written, numbered in the order of the calls
  Corrupt,    \* a terminated line that does not parse, a log that has one
  Partial     \* an entry read from an unterminated line

ASSUME AuditAssumption ==
  /\ MaxEntries \in Nat
  /\ Corrupt # Partial
  /\ Corrupt \notin 1..MaxEntries
  /\ Partial \notin 1..MaxEntries

VARIABLES
  lines,        \* the terminated lines: the entry each parses to, or Corrupt
  tail,         \* what follows them
  calls,      \* number of calls so far
  acknowledged  \* history: the entries whose append succeeded, in order

auditVars == <<lines, tail, calls, acknowledged>>

\* An unterminated rest ends within the time stamp, or behind it without being an
\* entry, or it is long enough to parse as one.
Tails == {"none", "stamp", "fields", "entry"}

AuditInit ==
  /\ lines = <<>>
  /\ tail = "none"
  /\ calls = 0
  /\ acknowledged = <<>>

\* A whole line behind the rest of another: two time stamps run together are a
\* number, if not too large; any other rest makes too many fields.
Joined(rest, entry) ==
  CASE rest = "none"  -> {entry}
    [] rest = "stamp" -> {entry, Corrupt}
    [] OTHER          -> {Corrupt}

\* Part of a line behind the rest of another.
JoinedTails(rest) ==
  CASE rest = "none"  -> Tails
    [] rest = "stamp" -> {"stamp", "fields", "entry"}
    [] OTHER          -> {"fields", "entry"}

AppendAudit ==
  /\ calls < MaxEntries
  /\ calls' = calls + 1
  /\ \E line \in Joined(tail, calls') : lines' = Append(lines, line)
  /\ tail' = "none"
  /\ acknowledged' = Append(acknowledged, calls')

\* The caller is told of the failure, or is no more; the line may be there.
AppendFails ==
  /\ calls < MaxEntries
  /\ calls' = calls + 1
  /\ \/ tail' \in JoinedTails(tail) /\ lines' = lines
     \/ /\ \E line \in Joined(tail, calls') : lines' = Append(lines, line)
        /\ tail' = "none"
  /\ UNCHANGED acknowledged

AuditNext == AppendAudit \/ AppendFails

AuditSpec == AuditInit /\ [][AuditNext]_auditVars

-----------------------------------------------------------------------------
(***************************************************************************)
(* Reading the log: one terminated line that does not parse refuses all of *)
(* it; an unterminated one is an entry or is ignored.                      *)
(***************************************************************************)
\* Faulty variant, for trying the properties: any line that does not parse ends
\* the listing, as an unterminated one does.
ListingsBroken ==
  {SubSeq(lines, 1, n) :
     n \in {n \in 0..Len(lines) : /\ \A i \in 1..n : lines[i] # Corrupt
                                  /\ n < Len(lines) => lines[n + 1] = Corrupt}}

Listings ==
  IF \E i \in DOMAIN lines : lines[i] = Corrupt THEN {}
  ELSE {lines} \cup (IF tail = "entry" THEN {Append(lines, Partial)} ELSE {})

\* A log that can be listed lists every entry whose append succeeded, in the order
\* of the calls, whatever failed in between and whatever else it lists: evidence
\* is refused or complete, never silently short (parse_audit_entries).
ListingComplete ==
  \A listing \in Listings :
    Sublist(listing, {acknowledged[i] : i \in DOMAIN acknowledged}) = acknowledged

\* Entries whose append succeeded are persisted and listed
\* (audit_entries_are_persisted in the store's tests).
AuditEntriesPersist == acknowledged # <<>> => Listings # {}

=============================================================================
