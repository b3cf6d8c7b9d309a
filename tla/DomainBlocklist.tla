---------------------------- MODULE DomainBlocklist ----------------------------
(***************************************************************************)
(* The blocklist of referring domains: the blocked_domains table, the set  *)
(* in memory that the middleware asks about every request for an endpoint, *)
(* and the admin's calls, which write a row, read the table back and       *)
(* replace the set, in three steps without a lock around them.             *)
(***************************************************************************)
EXTENDS FiniteSets

CONSTANTS
    Domain,        \* referring hosts
    Placeholder,   \* "direct" and "unknown", which stand for no host
    Admin          \* slots for admin calls

ASSUME PlaceholderAssumption == Placeholder \subseteq Domain
ASSUME DomainAssumption == Domain # {}

VARIABLES
    rows,           \* blocked_domains
    blockedHosts,   \* DomainStatsService.blockedHosts
    call            \* the SetBlocked calls in flight

blocklistVars == <<rows, blockedHosts, call>>

\* snap is the table as reloadBlockedDomains read it. alone is history: no
\* other call has been in flight during this one.
Call == [pc : {"idle", "write", "read", "install"}, domain : Domain,
         blocked : BOOLEAN, snap : SUBSET Domain, alone : BOOLEAN]
NoCall == [pc |-> "idle", domain |-> CHOOSE d \in Domain : TRUE,
           blocked |-> FALSE, snap |-> {}, alone |-> FALSE]

BlocklistInit ==
    /\ rows = {}
    /\ blockedHosts = {}
    /\ call = [a \in Admin |-> NoCall]

Busy(a) == call[a].pc # "idle"
Ends(a) == call' = [call EXCEPT ![a] = NoCall]

\* What the middleware and the rankings ask.
IsBlocked(d) == d \in blockedHosts

-----------------------------------------------------------------------------
\* Mutant: any domain may be blocked.
MutSetBlockedAny(a, d, blocked) ==
    LET others == {b \in Admin : b # a /\ Busy(b)}
    IN  /\ ~Busy(a)
        /\ call' = [b \in Admin |->
               IF b = a THEN [pc |-> "write", domain |-> d, blocked |-> blocked,
                              snap |-> {}, alone |-> others = {}]
               ELSE IF b \in others THEN [call[b] EXCEPT !.alone = FALSE]
               ELSE call[b]]
        /\ UNCHANGED <<rows, blockedHosts>>

\* A call on a placeholder returns at once.
SetBlocked(a, d, blocked) ==
    LET others == {b \in Admin : b # a /\ Busy(b)}
    IN  /\ ~Busy(a) /\ d \notin Placeholder
        /\ call' = [b \in Admin |->
               IF b = a THEN [pc |-> "write", domain |-> d, blocked |-> blocked,
                              snap |-> {}, alone |-> others = {}]
               ELSE IF b \in others THEN [call[b] EXCEPT !.alone = FALSE]
               ELSE call[b]]
        /\ UNCHANGED <<rows, blockedHosts>>

\* Upsert or delete the row.
WriteRow(a) ==
    LET d == call[a].domain
    IN  /\ call[a].pc = "write"
        /\ rows' = IF call[a].blocked THEN rows \cup {d} ELSE rows \ {d}
        /\ call' = [call EXCEPT ![a].pc = "read"]
        /\ UNCHANGED blockedHosts

\* Mutant: the new set starts from the old one.
MutReadRowsAdds(a) ==
    /\ call[a].pc = "read"
    /\ call' = [call EXCEPT ![a].pc = "install", ![a].snap = blockedHosts \cup rows]
    /\ UNCHANGED <<rows, blockedHosts>>

ReadRows(a) ==
    /\ call[a].pc = "read"
    /\ call' = [call EXCEPT ![a].pc = "install", ![a].snap = rows]
    /\ UNCHANGED <<rows, blockedHosts>>

Install(a) ==
    /\ call[a].pc = "install"
    /\ blockedHosts' = call[a].snap
    /\ Ends(a)
    /\ UNCHANGED rows

\* Writing the row or reading the table back fails: the admin gets an error,
\* and in the second case the row stays changed and the memory does not.
CallFails(a) ==
    /\ call[a].pc \in {"write", "read"}
    /\ Ends(a)
    /\ UNCHANGED <<rows, blockedHosts>>

\* A new process loads the table, or starts with no blocklist if it cannot.
Restart ==
    /\ \/ blockedHosts' = rows
       \/ blockedHosts' = {}
    /\ call' = [a \in Admin |-> NoCall]
    /\ UNCHANGED rows

BlocklistNext ==
    \/ \E a \in Admin :
          \/ \E d \in Domain, blocked \in BOOLEAN : SetBlocked(a, d, blocked)
          \/ WriteRow(a) \/ ReadRows(a) \/ Install(a) \/ CallFails(a)
    \/ Restart

BlocklistSpec == BlocklistInit /\ [][BlocklistNext]_blocklistVars

-----------------------------------------------------------------------------
(* Properties.                                                             *)

BlocklistOK ==
    /\ rows \subseteq Domain \ Placeholder
    /\ blockedHosts \subseteq Domain
    /\ call \in [Admin -> Call]

\* Visitors without a referrer are never refused, whatever rows the table has
\* had and whichever copy of it is in memory.
PlaceholdersPass == \A d \in Placeholder : ~IsBlocked(d)

\* A call that no other overlaps leaves the table in memory, also after failed
\* or overlapping calls had left something else there.
CallsAloneSync ==
    [][\A a \in Admin : Install(a) /\ call[a].alone => blockedHosts' = rows']_blocklistVars
=============================================================================
