------------------------------ MODULE Handlers ------------------------------
(***************************************************************************)
(* The handlers that share no state: a request (Requests), a walk through  *)
(* the chats (ChatPages), the uploads (Uploads) and the coroutine of the   *)
(* webhook hook (OwnerTrigger).  A behaviour is of one of them, with the   *)
(* others idle: their product would show nothing more.                     *)
(***************************************************************************)
EXTENDS Requests, ChatPages, Uploads, OwnerTrigger

VARIABLE part    \* whose behaviour this is

vars == <<part, requestVars, pageVars, uploadVars, triggerVars>>

Init ==
    /\ part \in {"request", "pages", "uploads", "trigger"}
    /\ IF part = "request" THEN RequestInit ELSE RequestIdle
    /\ IF part = "pages" THEN PagesInit ELSE PagesIdle
    /\ IF part = "uploads" THEN UploadsInit ELSE UploadsIdle
    /\ IF part = "trigger" THEN TriggerInit ELSE TriggerIdle

Next ==
    /\ UNCHANGED part
    /\ \/ part = "request" /\ RequestNext /\ UNCHANGED <<pageVars, uploadVars, triggerVars>>
       \/ part = "pages" /\ PagesNext /\ UNCHANGED <<requestVars, uploadVars, triggerVars>>
       \/ part = "uploads" /\ UploadsNext /\ UNCHANGED <<requestVars, pageVars, triggerVars>>
       \/ part = "trigger" /\ TriggerNext /\ UNCHANGED <<requestVars, pageVars, uploadVars>>

Spec == Init /\ [][Next]_vars

TypeOK == RequestTypeOK /\ PagesTypeOK /\ UploadsTypeOK /\ TriggerTypeOK
=============================================================================
