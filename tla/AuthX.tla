------------------------------- MODULE AuthX --------------------------------
(* The client's side of authentication: the protocol handler that ac->ops points *)
(* at, none or cephx, as operators on struct ceph_auth_client (auth.c, auth_x.c,  *)
(* auth_none.c). ac->mutex is held for each of them.                              *)
(*                                                                             *)
(* Time is the number of the rotating secret with which the monitors issue        *)
(* tickets: a ticket is to be renewed one rotation after it was received and has  *)
(* expired after two. A key is named by the secret its ticket was issued under    *)
(* and encryption is by name: only the right key decrypts.                        *)
EXTENDS Naturals

CONSTANT Services              \* the service tickets a client asks for besides AUTH

Want == Services \cup {"AUTH"}                  \* ac->want_keys
NoTicket == [have |-> FALSE, secret |-> 0, at |-> 0]
NoReq == [op |-> "none", challenge |-> 0, need |-> {}, key |-> 0]

\* Errors, all but EAGAIN negative and reported to the caller alike
Ok == "ok"
Again == "EAGAIN"
Inval == "EINVAL"
Acces == "EACCES"

---------------------------------------------------------------------------
\* ceph_auth_init: no protocol yet
AuthInit ==
    [proto |-> "unknown", negotiating |-> TRUE, starting |-> FALSE, challenge |-> 0,
     have |-> {}, tick |-> [s \in Want |-> NoTicket], gid |-> FALSE]

\* init_protocol, ceph_x_init, ceph_auth_none_init; what ac->private was is lost
InitProtocol(ac, p) ==
    [ac EXCEPT !.proto = p, !.starting = TRUE, !.challenge = 0, !.have = {},
               !.tick = [s \in Want |-> NoTicket]]

\* The reset of none and of cephx: the tickets and have_keys stay
OpsReset(ac) == [ac EXCEPT !.starting = TRUE, !.challenge = 0]

\* ceph_auth_reset
AuthReset(ac) ==
    [(IF ac.proto # "unknown" /\ ~ac.negotiating THEN OpsReset(ac) ELSE ac)
        EXCEPT !.negotiating = TRUE]

\* need_key and have_key, at the given time
NeedKey(t, now) == ~t.have \/ now >= t.at + 1
HaveKey(t, now) == t.have /\ now < t.at + 2

\* ceph_x_validate_tickets: what is needed, and the tickets with the expired put aside.
\* A service that have_keys lacks is needed and its ticket is not looked at.
NeededKeys(ac, now) == {s \in Want : s \notin ac.have \/ NeedKey(ac.tick[s], now)}
ValidateTickets(ac, now) ==
    [ac EXCEPT !.have = {s \in @ : HaveKey(ac.tick[s], now)},
               !.tick = [s \in Want |-> IF s \in ac.have /\ ~HaveKey(ac.tick[s], now)
                                        THEN [@[s] EXCEPT !.have = FALSE] ELSE @[s]]]

\* is_authenticated, should_authenticate; both validate the tickets first
Validated(ac, now) == IF ac.proto = "cephx" THEN ValidateTickets(ac, now) ELSE ac
IsAuthenticated(ac, now) ==
    \/ ac.proto = "none" /\ ~ac.starting
    \/ ac.proto = "cephx" /\ Want \subseteq ValidateTickets(ac, now).have
ShouldAuthenticate(ac, now) ==
    \/ ac.proto = "none" /\ ac.starting
    \/ ac.proto = "cephx" /\ NeededKeys(ac, now) # {}

\* ceph_x_build_request, ceph_x_encode_ticket: prove the secret with the challenges to
\* get the AUTH ticket, or show the AUTH ticket to get the others
BuildRequest(ac, now) ==
    LET need == NeededKeys(ac, now)
    IN  CASE ac.proto = "none" -> NoReq
          [] ac.proto = "cephx" /\ "AUTH" \in need ->
                 [op |-> "auth", challenge |-> ac.challenge, need |-> Services,
                  key |-> ac.tick["AUTH"].secret]
          [] ac.proto = "cephx" /\ "AUTH" \notin need /\ need # {} ->
                 [op |-> "svc", challenge |-> 0, need |-> need, key |-> ac.tick["AUTH"].secret]
          [] OTHER -> NoReq

\* process_one_ticket and ceph_x_proc_ticket_reply: tickets of services ss
ProcTickets(ac, ss, secret, now) ==
    [ac EXCEPT !.have = @ \cup ss,
               !.tick = [s \in Want |-> IF s \in ss THEN [have |-> TRUE, secret |-> secret, at |-> now]
                                        ELSE @[s]]]

\* handle_auth_session_key: the AUTH ticket and, from a monitor that knows how, the
\* service tickets, encrypted with the key that came in the AUTH ticket
HandleSessionKey(ac, r, now) ==
    [ProcTickets(ac, {"AUTH"} \cup r.tickets, r.secret, now) EXCEPT !.gid = TRUE]

\* The server challenge that answers the hello; a new session needs a new AUTH ticket
Challenged(ac, c) == [ac EXCEPT !.challenge = c, !.starting = FALSE, !.have = @ \ {"AUTH"}]

\* handle_reply of none, and ceph_x_handle_reply: what it returns, and ac after it.
\* When starting only a server challenge has the right length; otherwise it has not.
HandleReply(ac, r, now) ==
    CASE ac.proto = "none" -> [ret |-> Ok, ac |-> [ac EXCEPT !.starting = FALSE, !.gid = TRUE]]
      [] ac.proto = "cephx" /\ ac.starting /\ r.kind = "challenge" ->
             [ret |-> Again, ac |-> Challenged(ac, r.challenge)]
      [] ac.proto = "cephx" /\ ~ac.starting /\ r.kind = "session" ->
             [ret |-> IF Want = HandleSessionKey(ac, r, now).have THEN Ok ELSE Again,
              ac |-> HandleSessionKey(ac, r, now)]
      [] ac.proto = "cephx" /\ ~ac.starting /\ r.kind = "service" /\ r.key = ac.tick["AUTH"].secret ->
             [ret |-> IF Want = ProcTickets(ac, r.tickets, r.secret, now).have THEN Ok ELSE Again,
              ac |-> ProcTickets(ac, r.tickets, r.secret, now)]
      [] OTHER -> [ret |-> Inval, ac |-> ac]

\* ceph_handle_auth_reply: negotiate, then the protocol's handler
Negotiated(ac, r) ==
    IF ~ac.negotiating THEN ac
    ELSE [(IF ac.proto # r.proto THEN InitProtocol(ac, r.proto) ELSE ac) EXCEPT !.negotiating = FALSE]
HandleAuthReply(ac, r, now) ==
    IF r.kind = "refused" THEN [ret |-> Acces, ac |-> Negotiated(ac, r)]
    ELSE HandleReply(Negotiated(ac, r), r, now)

\* ceph_auth_get_request of msgr2: a fresh start, the tickets are kept
GetRequest(ac, keyed) ==
    IF ac.proto = "unknown" THEN InitProtocol(ac, IF keyed THEN "cephx" ELSE "none")
    ELSE OpsReset(ac)

---------------------------------------------------------------------------
\* Authorizers: what a connection shows to a service, built from its ticket.
\* nonce is the number of times it was built.
NoAuthorizer == [made |-> FALSE, secret |-> 0, nonce |-> 0, challenge |-> 0]

\* ceph_x_build_authorizer; ceph_auth_none_build_authorizer
BuildAuthorizer(ac, s, au) ==
    [made |-> TRUE, secret |-> IF ac.proto = "cephx" THEN ac.tick[s].secret ELSE 0,
     nonce |-> 1 - au.nonce, challenge |-> 0]

\* A bug: an authorizer is good for ever
GetAuthorizerOnce(ac, s, au, forceNew) == IF au.made THEN au ELSE BuildAuthorizer(ac, s, au)
\* __ceph_auth_get_authorizer with ceph_x_create_authorizer and ceph_x_update_authorizer
GetAuthorizer(ac, s, au, forceNew) ==
    IF forceNew \/ ~au.made \/ (ac.proto = "cephx" /\ au.secret < ac.tick[s].secret)
    THEN BuildAuthorizer(ac, s, au)
    ELSE au

\* ceph_x_add_authorizer_challenge: encrypted anew, with the challenge in it
AddChallenge(au, c) == [au EXCEPT !.challenge = c]

\* ceph_x_verify_authorizer_reply
VerifyReply(au, r) == r.secret = au.secret /\ r.nonce = au.nonce

\* ceph_x_invalidate_authorizer: that service's ticket, and the AUTH ticket with it
InvalidateAuthorizer(ac, s) ==
    IF ac.proto # "cephx" THEN ac
    ELSE [ac EXCEPT !.tick[s].have = FALSE, !.tick["AUTH"].have = FALSE]

=============================================================================
