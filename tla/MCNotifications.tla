---------------------------- MODULE MCNotifications ----------------------------
(***************************************************************************)
(* One execution, two handlers.  One list has as many  webhooks as take    *)
(* all the time of a goroutine, one has a setting of each kind.            *)
(***************************************************************************)
EXTENDS Notifications

CONSTANTS e1, h1, h2

OfKind(channel, on) == [enabled |-> TRUE, channel |-> channel, notifyOn |-> on]

Pages ==
    {<<OfKind("webhook", "all"), OfKind("webhook", "all"), OfKind("in_app", "failure")>>,
     <<OfKind("in_app", "success"), OfKind("email", "all")>>,
     <<OfKind("unknown", "all"), [OfKind("in_app", "all") EXCEPT !.enabled = FALSE]>>,
     <<>>}

================================================================================
