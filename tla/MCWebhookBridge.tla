--------------------------- MODULE MCWebhookBridge ---------------------------
(***************************************************************************)
(* Small instances of WebhookBridge.                                       *)
(***************************************************************************)
EXTENDS WebhookBridge

Webhook(provider, header, body) == [provider |-> provider, header |-> header, body |-> body]

(* For the git bridge two events that can be published, one of them with a *)
(* body that breaks off, one that is too large and one it ignores; for the *)
(* container bridge three that can be published, which is more than there  *)
(* is room for, and one it rejects.                                        *)
MCEvent ==
  {Webhook("Github", TRUE, "full"), Webhook("AzureDevops", TRUE, "huge"),
   Webhook("Gitea", TRUE, "cut"), Webhook("Gitea", FALSE, "full"),
   Webhook("Azure_Container_Registry", TRUE, "full"),
   Webhook("Quay_Container_Registry", TRUE, "full"),
   Webhook("Dockerhub_Registry", TRUE, "garbled"),
   Webhook("Jfrog_Container_Registry", TRUE, "garbled")}
=============================================================================
