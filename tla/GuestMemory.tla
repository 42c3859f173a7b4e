---------------------------- MODULE GuestMemory ----------------------------
(***************************************************************************)
(* What suspend and resume promise about a guest's memory, without files,  *)
(* processes or commands: there is at most one copy of it, which is either *)
(* live in a hypervisor or saved on disk.  Only the live copy executes,    *)
(* only the newest copy is ever live when it does, and a copy moves        *)
(* between the two places or is lost, but is never duplicated.             *)
(***************************************************************************)
EXTENDS Naturals

VARIABLES
    holder,   \* where the copy is: "none", "live" or "saved"
    content,  \* the version the copy holds
    latest    \* the version last executed

Init == holder = "none" /\ content = 0 /\ latest = 1

Boot ==
    /\ holder = "none"
    /\ holder' = "live" /\ content' = latest
    /\ UNCHANGED latest

Execute ==
    /\ holder = "live" /\ content = latest
    /\ latest' = latest + 1 /\ content' = latest + 1
    /\ UNCHANGED holder

Commit ==
    /\ holder = "live"
    /\ holder' = "saved"
    /\ UNCHANGED <<content, latest>>

Restore ==
    /\ holder = "saved"
    /\ holder' = "live"
    /\ UNCHANGED <<content, latest>>

Lose ==
    /\ holder # "none"
    /\ holder' = "none" /\ content' = 0
    /\ UNCHANGED latest

Next == Boot \/ Execute \/ Commit \/ Restore \/ Lose

Spec == Init /\ [][Next]_<<holder, content, latest>>
=============================================================================
