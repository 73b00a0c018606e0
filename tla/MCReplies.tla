------------------------------- MODULE MCReplies -------------------------------
(***************************************************************************)
(* Instances for TLC of what an operator reads and answers: the sending of *)
(* one draft, the reply drafts of one conversation, and the screen that    *)
(* shows the mails.  They share no state, so a behaviour runs the one it   *)
(* has chosen and leaves the others where they began.                      *)
(***************************************************************************)
EXTENDS MCMailSend, ReplyReview, MailScreen

CONSTANTS n1, n2

VARIABLE chosen

(* two different mails of one conversation, the second the later *)
OneConversation == [m \in InMails |-> 1]
NoCopies == (n1 :> 1) @@ (n2 :> 2)
OneByOne == (n1 :> 1) @@ (n2 :> 2)
ScreenAlike == Permutations(ScreenMails)

repliesVars == <<vars, reviewVars, screenVars, chosen>>

RepliesInit == chosen \in {"send", "replies", "screen"} /\ Init /\ ReviewInit /\ ScreenInit

SendTurn == chosen = "send" /\ Next /\ UNCHANGED <<reviewVars, screenVars, chosen>>
ReplyTurn == chosen = "replies" /\ ReviewNext /\ UNCHANGED <<vars, screenVars, chosen>>
ScreenTurn == chosen = "screen" /\ ScreenNext /\ UNCHANGED <<vars, reviewVars, chosen>>

RepliesNext == SendTurn \/ ReplyTurn \/ ScreenTurn

RepliesSpec == RepliesInit /\ [][RepliesNext]_repliesVars
===============================================================================
