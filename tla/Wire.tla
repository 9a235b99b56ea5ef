------------------------------- MODULE Wire --------------------------------
(***************************************************************************)
(* The computations of the program on bytes: the headers of a frame that   *)
(* serve reads (module Headers), the reply create_dhcp builds (Reply), the *)
(* checksums of what is sent (Checksum) and the MAC addresses of rows      *)
(* (MACText).  They share nothing, so each is followed on its own, from    *)
(* the state in which none has begun.                                      *)
(***************************************************************************)
EXTENDS Headers, Reply, Checksum, MACText

wireVars == <<headerVars, replyVars, sumVars, textVars>>

WireInit == HeadersInit /\ ReplyInit /\ ChecksumInit /\ TextInit

CheckHeaders == /\ ReplyInit /\ ChecksumInit /\ TextInit
                /\ HeadersNext
                /\ UNCHANGED <<replyVars, sumVars, textVars>>

BuildReply == /\ HeadersInit /\ ChecksumInit /\ TextInit
              /\ ReplyNext
              /\ UNCHANGED <<headerVars, sumVars, textVars>>

SumWords == /\ HeadersInit /\ ReplyInit /\ TextInit
            /\ ChecksumNext
            /\ UNCHANGED <<headerVars, replyVars, textVars>>

ReadText == /\ HeadersInit /\ ReplyInit /\ ChecksumInit
            /\ TextNext
            /\ UNCHANGED <<headerVars, replyVars, sumVars>>

WireNext == CheckHeaders \/ BuildReply \/ SumWords \/ ReadText

WireSpec == WireInit /\ [][WireNext]_wireVars
=============================================================================
