--------------------------------- MODULE Sync ---------------------------------
(***************************************************************************)
(* Time synchronisation (components/sys/time_sync.c) and discovery of the  *)
(* controller (components/sys/discovery.c), with the UDP socket discovery  *)
(* keeps (lib/libudp/udp.c) and the data client's that waits for both      *)
(* (components/apps/network.c).                                            *)
(*                                                                         *)
(* One task runs both handlers, one at a time; SysLoop shows that they run *)
(* again and again.  The SNTP client answers from the TCP/IP task while    *)
(* the time handler polls its status; reading the status resets it.  The   *)
(* network loses, delays and duplicates packets; a server that is in good  *)
(* answers within the timeout, the others late or never.                   *)
(***************************************************************************)
EXTENDS Naturals, Sequences, FiniteSets

CONSTANTS PrimaryMaxRetry,  \* CONFIG_NTP_PRIMARY_MAX_RETRY
          Timeout,          \* CONFIG_NTP_TIMEOUT_S
          Controllers,      \* addresses that reply to discovery
          Announcing,       \* those whose reply names an NTP host
          MaxInbox,         \* bound: packets waiting in the socket
          MaxFlips          \* bound: NTP servers that come or go

ASSUME SyncAssumption ==
    /\ PrimaryMaxRetry \in Nat /\ Timeout \in Nat \ {0}
    /\ Controllers # {} /\ Announcing \subseteq Controllers
    /\ MaxInbox \in Nat \ {0} /\ MaxFlips \in Nat
    /\ Controllers \cap {"broadcast", "stored", "none", "stranger"} = {}

\* The host loaded from NVS, the one a controller named, the gateway, the
\* built-in backup; "nowhere" is a name in memory that is used for other things.
Hosts == {"stored", "announced", "gateway", "backup"}
Servers == Hosts \cup {"nowhere"}

\* What may arrive at the discovery port: a reply, or anything else.
Packets == Controllers \cup {"junk"}

VARIABLES
  tpc,          \* the handler that runs, and where it is
  retries,      \* s_sntp_retry_num, up to PrimaryMaxRetry + 1
  n_retry,
  server,       \* esp_sntp_setservername
  sntp,         \* the SNTP client runs
  sync_status,  \* esp_sntp_get_sync_status
  callback,     \* time_sync_notification_cb is to be called
  ntp_synced, discovery_completed,
  ntp_host, data_host,       \* g_mcu.ntp_host_ip_addr, .data_host_ip_addr
  initialized, dest,         \* the socket of discovery
  reply,                     \* its reply_addr
  inbox, asked,              \* what arrived; a request has been sent
  cpc, target,               \* app_data_client, the address of its socket
  good, serverFlips,
  answered,     \* history: an answer has come to this synchronisation
  outcome       \* history: how the last one ended

sntpVars == <<retries, n_retry, server, sntp, sync_status, callback, answered, outcome>>
hosts == <<ntp_host, data_host>>
socket == <<initialized, dest, reply, inbox, asked>>
client == <<cpc, target>>
net == <<good, serverFlips>>
syncVars == <<tpc, sntpVars, ntp_synced, discovery_completed, hosts, socket, client, net>>

SyncInit ==
    /\ tpc = "idle" /\ retries = 0 /\ n_retry = 0 /\ server = "nowhere"
    /\ sntp = FALSE /\ sync_status = "RESET" /\ callback = FALSE
    /\ ntp_synced = FALSE /\ discovery_completed = FALSE
    /\ ntp_host \in {"", "stored"} /\ data_host = "stored"
    /\ initialized = FALSE /\ dest = "broadcast" /\ reply = "none"
    /\ inbox = <<>> /\ asked = FALSE
    /\ cpc = "wait" /\ target = "none"
    /\ good = Hosts /\ serverFlips = 0
    /\ answered = FALSE /\ outcome = "none"

Go(from, to) == tpc = from /\ tpc' = to
-----------------------------------------------------------------------------
(* sys_time_sync_handler.                                                  *)

TimeStep == UNCHANGED <<ntp_synced, discovery_completed, hosts, socket, client, net>>

\* The primary server, or the gateway, until it has failed too often.  The
\* gateway's name is a local of a block that has ended when it is used.
Choices ==
    IF retries > PrimaryMaxRetry THEN {"backup"}
    ELSE IF ntp_host # "" THEN {ntp_host} ELSE {"gateway", "nowhere"}

SelectServer ==
    /\ Go("idle", "poll") /\ server' \in Choices
    /\ sntp' = TRUE /\ n_retry' = 0 /\ answered' = FALSE
    /\ UNCHANGED <<retries, sync_status, callback, outcome>> /\ TimeStep

\* The status is read, and reset by reading it.
PollDone ==
    /\ sync_status = "COMPLETED" /\ Go("poll", "stop") /\ sync_status' = "RESET"
    /\ UNCHANGED <<retries, n_retry, server, sntp, callback, answered, outcome>> /\ TimeStep

\* A good server has answered before the last second is over.
PollWait ==
    /\ sync_status = "RESET" /\ tpc = "poll" /\ n_retry' = n_retry + 1
    /\ tpc' = IF n_retry' < Timeout THEN "poll" ELSE "stop"
    /\ n_retry' = Timeout => server \notin good
    /\ UNCHANGED <<retries, server, sntp, sync_status, callback, answered, outcome>>
    /\ TimeStep

SntpStop ==
    /\ Go("stop", "log") /\ sntp' = FALSE
    /\ UNCHANGED <<retries, n_retry, server, sync_status, callback, answered, outcome>>
    /\ TimeStep

\* A slip: the status is not logged.
LogNothing ==
    /\ Go("log", "settle")
    /\ UNCHANGED sntpVars /\ TimeStep

\* The log line reads the status, and so resets it once more.
LogStatus ==
    /\ Go("log", "settle") /\ sync_status' = "RESET"
    /\ UNCHANGED <<retries, n_retry, server, sntp, callback, answered, outcome>> /\ TimeStep

\* A slip: a failure starts the count again.
SettleResets ==
    /\ Go("settle", "idle") /\ retries' = 0
    /\ outcome' = IF n_retry >= Timeout THEN "failed" ELSE "synced"
    /\ UNCHANGED <<n_retry, server, sntp, sync_status, callback, answered>> /\ TimeStep

\* Only whether the count exceeds PrimaryMaxRetry is ever asked.
Settle ==
    /\ Go("settle", "idle")
    /\ IF n_retry >= Timeout
       THEN retries' = (IF retries > PrimaryMaxRetry THEN retries ELSE retries + 1)
            /\ outcome' = "failed"
       ELSE retries' = 0 /\ outcome' = "synced"
    /\ UNCHANGED <<n_retry, server, sntp, sync_status, callback, answered>> /\ TimeStep

\* The SNTP client gets an answer: it sets the clock and the status, ...
SntpAnswer ==
    /\ sntp /\ server # "nowhere" /\ ~callback /\ ~answered
    /\ sync_status' = "COMPLETED" /\ callback' = TRUE /\ answered' = TRUE
    /\ UNCHANGED <<tpc, retries, n_retry, server, sntp, outcome>> /\ TimeStep

\* ... then it calls back.
Notify ==
    /\ callback /\ callback' = FALSE /\ ntp_synced' = TRUE
    /\ UNCHANGED <<tpc, retries, n_retry, server, sntp, sync_status, answered, outcome,
                   discovery_completed, hosts, socket, client, net>>

ServerFlips(s) ==
    /\ serverFlips < MaxFlips /\ serverFlips' = serverFlips + 1
    /\ good' = IF s \in good THEN good \ {s} ELSE good \cup {s}
    /\ UNCHANGED <<tpc, sntpVars, ntp_synced, discovery_completed, hosts, socket, client>>
-----------------------------------------------------------------------------
(* sys_discovery_handler.                                                  *)

DiscoveryStep == UNCHANGED <<sntpVars, ntp_synced, client, net>>

\* udp_socket_init binds the port and addresses everybody; if the socket or
\* the port cannot be had, the send that follows fails.
OpenSocket ==
    /\ tpc = "idle" /\ ~initialized
    /\ initialized' = TRUE /\ dest' = "broadcast"
    /\ tpc' = IF discovery_completed THEN "keepalive" ELSE "send"
    /\ DiscoveryStep /\ UNCHANGED <<discovery_completed, hosts, reply, inbox, asked>>

OpenFails ==
    /\ tpc = "idle" /\ ~initialized
    /\ DiscoveryStep /\ UNCHANGED <<tpc, discovery_completed, hosts, socket>>

UseSocket ==
    /\ initialized /\ Go("idle", IF discovery_completed THEN "keepalive" ELSE "send")
    /\ DiscoveryStep /\ UNCHANGED <<discovery_completed, hosts, socket>>

\* To the controller, which does not reply; a failure is only logged.
KeepAlive ==
    /\ Go("keepalive", "idle")
    /\ DiscoveryStep /\ UNCHANGED <<discovery_completed, hosts, socket>>

SendRequest ==
    /\ Go("send", "recv") /\ asked' = TRUE
    /\ DiscoveryStep
    /\ UNCHANGED <<discovery_completed, hosts, initialized, dest, reply, inbox>>

\* A failed send ends the round.
SendFails ==
    /\ Go("send", "idle")
    /\ DiscoveryStep /\ UNCHANGED <<discovery_completed, hosts, socket>>

\* Nothing within the reply timeout: again, or the round is over.
RecvFails ==
    /\ inbox = <<>> /\ tpc = "recv" /\ tpc' \in {"send", "idle"}
    /\ DiscoveryStep /\ UNCHANGED <<discovery_completed, hosts, socket>>

\* sys_decode_discovery_reply_control refuses the packet; its sender is noted
\* all the same.
RecvJunk ==
    /\ inbox # <<>> /\ Head(inbox) = "junk" /\ tpc = "recv" /\ tpc' \in {"send", "idle"}
    /\ inbox' = Tail(inbox) /\ reply' = "stranger"
    /\ DiscoveryStep
    /\ UNCHANGED <<discovery_completed, hosts, initialized, dest, asked>>

\* A slip: the flag is set before the address is known.
RecvReplyEarly ==
    /\ inbox # <<>> /\ Head(inbox) \in Controllers /\ Go("recv", "data_host")
    /\ reply' = Head(inbox) /\ inbox' = Tail(inbox)
    /\ discovery_completed' = TRUE
    /\ DiscoveryStep /\ UNCHANGED <<hosts, initialized, dest, asked>>

\* A slip: a reply without an NTP host is thrown away.
RecvReplyNamed ==
    /\ inbox # <<>> /\ Head(inbox) \in Controllers /\ inbox' = Tail(inbox)
    /\ IF Head(inbox) \in Announcing THEN Go("recv", "data_host") /\ reply' = Head(inbox)
       ELSE tpc = "recv" /\ tpc' \in {"send", "idle"} /\ UNCHANGED reply
    /\ DiscoveryStep
    /\ UNCHANGED <<discovery_completed, hosts, initialized, dest, asked>>

RecvReply ==
    /\ inbox # <<>> /\ Head(inbox) \in Controllers /\ Go("recv", "data_host")
    /\ reply' = Head(inbox) /\ inbox' = Tail(inbox)
    /\ DiscoveryStep
    /\ UNCHANGED <<discovery_completed, hosts, initialized, dest, asked>>

StoreDataHost ==
    /\ Go("data_host", "ntp_host") /\ data_host' = reply
    /\ DiscoveryStep /\ UNCHANGED <<discovery_completed, ntp_host, socket>>

\* The NTP host is replaced only by one that the reply names.
StoreNtpHost ==
    /\ Go("ntp_host", "complete")
    /\ ntp_host' = IF reply \in Announcing THEN "announced" ELSE ntp_host
    /\ DiscoveryStep /\ UNCHANGED <<discovery_completed, data_host, socket>>

Complete ==
    /\ Go("complete", "dest") /\ discovery_completed' = TRUE
    /\ DiscoveryStep /\ UNCHANGED <<hosts, socket>>

\* udp_socket_set_destination: from now on only to the controller.
SetDestination ==
    /\ Go("dest", "idle") /\ dest' = reply
    /\ DiscoveryStep
    /\ UNCHANGED <<discovery_completed, hosts, initialized, reply, inbox, asked>>

\* Replies come after a request, in any number and at any time, and so does
\* everything else that is sent to the port.
Deliver(p) ==
    /\ initialized /\ (asked \/ p = "junk")
    /\ Len(inbox) < MaxInbox /\ inbox' = Append(inbox, p)
    /\ DiscoveryStep
    /\ UNCHANGED <<tpc, discovery_completed, hosts, initialized, dest, reply, asked>>
-----------------------------------------------------------------------------
(* app_data_client waits for both and opens its socket once.               *)

ClientStep == UNCHANGED <<tpc, sntpVars, ntp_synced, discovery_completed, hosts, socket, net>>

ClientReady ==
    /\ cpc = "wait" /\ ntp_synced /\ discovery_completed
    /\ cpc' = IF target = "none" THEN "open" ELSE "wait"
    /\ ClientStep /\ UNCHANGED target

ClientOpens ==
    /\ cpc = "open" /\ cpc' = "wait" /\ target' = data_host
    /\ ClientStep

ClientOpenFails ==
    /\ cpc = "open" /\ cpc' = "wait"
    /\ ClientStep /\ UNCHANGED target

\* Power save deletes the task and may start it again.
ClientRestarts ==
    /\ cpc' = "wait" /\ target' = "none"
    /\ ClientStep

TimeHandler == SelectServer \/ PollDone \/ PollWait \/ SntpStop \/ LogStatus \/ Settle
StartDiscovery == OpenSocket \/ UseSocket
DiscoveryHandler ==
    \/ KeepAlive \/ SendRequest \/ SendFails \/ RecvFails \/ RecvJunk \/ RecvReply
    \/ StoreDataHost \/ StoreNtpHost \/ Complete \/ SetDestination
Client == ClientReady \/ ClientOpens \/ ClientOpenFails \/ ClientRestarts
Environment ==
    \/ SntpAnswer \/ Notify \/ (\E s \in Hosts : ServerFlips(s)) \/ \E p \in Packets : Deliver(p)

SyncNext == TimeHandler \/ StartDiscovery \/ OpenFails \/ DiscoveryHandler \/ Client \/ Environment

\* SysLoop.ServicesGoOn: both handlers are started again and again.  The task
\* that runs them is not starved, a good server does answer, and neither the
\* sends nor the replies fail for ever.
SyncFairness ==
    /\ SF_syncVars(SelectServer) /\ SF_syncVars(OpenSocket) /\ SF_syncVars(UseSocket)
    /\ WF_syncVars(PollDone \/ PollWait \/ SntpStop \/ LogStatus \/ Settle)
    /\ WF_syncVars(SntpAnswer /\ server \in good) /\ WF_syncVars(Notify)
    /\ WF_syncVars(DiscoveryHandler) /\ SF_syncVars(SendRequest)
    /\ SF_syncVars(\E c \in Controllers : Deliver(c))

SyncSpec == SyncInit /\ [][SyncNext]_syncVars
SyncFairSpec == SyncSpec /\ SyncFairness
-----------------------------------------------------------------------------
(* Properties.                                                             *)

\* Every variable keeps its type.
SyncTypeOK ==
    /\ tpc \in {"idle", "poll", "stop", "log", "settle", "keepalive", "send", "recv",
                "data_host", "ntp_host", "complete", "dest"}
    /\ retries \in 0..PrimaryMaxRetry + 1 /\ n_retry \in 0..Timeout
    /\ server \in Servers /\ sntp \in BOOLEAN /\ sync_status \in {"RESET", "COMPLETED"}
    /\ callback \in BOOLEAN /\ ntp_synced \in BOOLEAN /\ discovery_completed \in BOOLEAN
    /\ ntp_host \in {"", "stored", "announced"} /\ data_host \in Controllers \cup {"stored"}
    /\ initialized \in BOOLEAN /\ dest \in Controllers \cup {"broadcast"}
    /\ reply \in Controllers \cup {"none", "stranger"} /\ inbox \in Seq(Packets) /\ asked \in BOOLEAN
    /\ cpc \in {"wait", "open"} /\ target \in Controllers \cup {"stored", "none"}
    /\ good \subseteq Hosts /\ serverFlips \in 0..MaxFlips
    /\ answered \in BOOLEAN /\ outcome \in {"none", "failed", "synced"}

\* A synchronisation counts as a success only if an answer came to this one:
\* an answer that arrives between the last look and the stop is not taken
\* for the answer of the next server.
SuccessIsAnswered ==
    tpc = "idle" /\ outcome = "synced" =>
        answered /\ (callback \/ ntp_synced) /\ retries = 0

\* Everybody who acts on discovery_completed meets the address of one and the
\* same controller: the data client's socket, and discovery's own once its
\* handler has ended, although later replies and restarts go on.
OneController ==
    /\ discovery_completed => data_host \in Controllers
    /\ target # "none" => target = data_host
    /\ discovery_completed /\ tpc = "idle" => dest = data_host

\* A primary server that is dead does not keep the node from synchronising
\* as long as the backup answers.
SyncGoesOn == <>[]("backup" \in good) => []<>(tpc = "idle" /\ outcome = "synced")

\* A node with a controller in reach finds it, whatever else arrives, and its
\* data client gets an address.
DiscoveryEnds == <>discovery_completed
=============================================================================
