------------------------------- MODULE NetMon -------------------------------
(***************************************************************************)
(* The platform's path table and its network monitor: how the client       *)
(* process reacts to interfaces that come, go, and lose their carrier, an  *)
(* address or the route to the server.  The control is shared by the       *)
(* platforms (platform/posix/netmon_common.c, path_table.c); what differs  *)
(* is where the news come from: netlink messages on Linux, routing-socket  *)
(* messages with a periodic resync on Darwin, a periodic reconcile on      *)
(* Windows.  One behaviour has one platform, chosen initially.             *)
(*                                                                         *)
(* The library is external here: of each handle a platform slot holds the  *)
(* model keeps the status mqvpn_client_get_paths reports and whether the   *)
(* library still counts on the transport (module Client is its inside).    *)
(***************************************************************************)
EXTENDS Integers, FiniteSets, Sequences, Functions

CONSTANTS
    NmCases,                      \* [platform, iface, media, changes] records
    PATH_RECOVER_FAILURE_LIMIT,   \* counted failures before the timer gives a slot up
    RESYNC_EVERY_N_TICKS,         \* Darwin: timer ticks between two resyncs
    MaxSlots,                     \* slots of the largest configuration
    NmQueue                       \* messages the kernel queues before it drops one

\* A configuration names its interfaces slot by slot; a slot may fail at least
\* once, and Darwin's resync has a period.  media: the interfaces report their
\* media status (IFM_AVALID), which not every Darwin driver does.
ASSUME NetMonAssumption ==
    /\ \A c \in NmCases : /\ c.platform \in {"linux", "darwin", "windows"}
                         /\ c.iface \in Seq(Range(c.iface))
                         /\ c.media \in BOOLEAN
                         /\ c.changes \in Nat
    /\ PATH_RECOVER_FAILURE_LIMIT \in Nat \ {0}
    /\ RESYNC_EVERY_N_TICKS \in Nat \ {0}
    /\ NmQueue \in Nat

VARIABLES
    nm_case,      \* the configuration of this behaviour
    nm_if,        \* interface -> [link, addr, route]: what the kernel would answer now
    nm_msgs,      \* messages queued on the netlink or routing socket
    nm_lost,      \* a message was dropped because the queue was full
    nm_slot,      \* platform slot -> [fd, ev, lib, held, recover_failures]
    nm_tun,       \* the tunnel is up, hence ev_recover is armed
    nm_tick,      \* Darwin's resync_tick, modulo its period
    nm_fatal,     \* fatal_stop has been called
    nm_left       \* interface changes the environment may still make

nm_vars == <<nm_case, nm_if, nm_msgs, nm_lost, nm_slot, nm_tun, nm_tick,
             nm_fatal, nm_left>>

\* "nocarrier" has IFF_RUNNING cleared; "stuck" is Darwin's other way to lose
\* the carrier, which leaves IFF_RUNNING set.
Links == {"gone", "down", "nocarrier", "stuck", "dormant", "up"}

Linux == nm_case.platform = "linux"
Darwin == nm_case.platform = "darwin"
Windows == nm_case.platform = "windows"
Slots == DOMAIN nm_case.iface
Ifaces == Range(nm_case.iface)
SlotsOn(i) == {s \in Slots : nm_case.iface[s] = i}

\* What may go wrong during one handler: a message without the interface's
\* name (Darwin), a probe that cannot answer, a socket
\* that cannot be opened or pinned, the library's answers to add_path and
\* reactivate_path, the read event that cannot be armed.
NmFaults == {"ok", "up", "ip", "route", "open", "pin", "none", "transient", "permanent",
             "engine", "arm"} \cup (IF Darwin THEN {"name", "default", "media"} ELSE {})

\* The state a handler works on (q below; x is one slot's), and the loops whose
\* body changes only the slot it is at: x has the slots' new values.
Cur == [slot |-> nm_slot, fatal |-> nm_fatal, ret |-> FALSE]
WithSlots(q, x) ==
    [slot |-> [s \in Slots |-> IF s \in DOMAIN x THEN x[s] ELSE q.slot[s]],
     fatal |-> q.fatal, ret |-> q.ret]

(***************************************************************************)
(* The library, as the platform sees it                                    *)
(***************************************************************************)
Live == {"pending", "active", "degraded"}

\* mqvpn_client_drop_path and mqvpn_client_remove_path: the slot is CLOSED, but
\* its transport stays the library's until path_released.
mqvpn_client_drop_path(x) == [x EXCEPT !.lib = "closed"]

\* mqvpn_client_path_released: refused unless the path was dropped before.
release_refused(x) == x.lib # "closed" \/ x.held = 0
mqvpn_client_path_released(x) == IF release_refused(x) THEN x ELSE [x EXCEPT !.held = @ - 1]

\* mqvpn_client_add_path: a new incarnation, whose library slot may be the one
\* another dropped and released path (reuse) is still listed under.
path_taken(x) == [x EXCEPT !.lib = "pending", !.held = @ + 1]
path_unlisted(x) == IF x.lib = "closed" /\ x.held = 0 THEN [x EXCEPT !.lib = "unlisted"] ELSE x
mqvpn_client_add_path(q, s, reuse) ==
    WithSlots(q, [t \in (Slots \cap {reuse}) \cup {s} |->
                    IF t = s THEN path_taken(q.slot[t]) ELSE path_unlisted(q.slot[t])])

\* mqvpn_client_reactivate_path: only while ESTABLISHED, and it may fail.
mqvpn_client_reactivate_path(x, f) ==
    IF nm_tun /\ f # "engine" THEN [x EXCEPT !.lib = "pending"] ELSE x

(***************************************************************************)
(* Probes.  1 yes, 0 no, -1 could not be determined.                       *)
(***************************************************************************)
\* IFF_UP and IFF_RUNNING.  IFF_RUNNING does not reliably track carrier loss
\* across Darwin's drivers.
running(l) == l = "up" \/ (Darwin /\ l = "stuck")

\* POSIX: the flags SIOCGIFFLAGS reads; a failed ioctl reads as "no".
netmon_iface_is_up_and_running(i, f) ==
    IF f # "up" /\ running(nm_if[i].link) THEN 1 ELSE 0

\* Windows: OperStatus of the adapter; an unknown status stays unknown.
iface_is_up_and_running(i, f) ==
    IF f = "up" THEN -1 ELSE IF nm_if[i].link = "up" THEN 1 ELSE 0

\* Link-local addresses do not count; a listing that fails leaves it open.
netmon_iface_has_usable_ip(i, f) ==
    IF f = "ip" THEN -1 ELSE IF nm_if[i].addr THEN 1 ELSE 0

\* Windows looks the adapter up by its alias first.
iface_has_usable_ip(i, f) == netmon_iface_has_usable_ip(i, f)

\* Linux: RTM_GETROUTE with a FIB match through the interface.
linux_has_route_to_server(i, f) ==
    IF nm_if[i].link = "gone" THEN 0
    ELSE IF f = "route" THEN -1 ELSE IF nm_if[i].route THEN 1 ELSE 0

\* Darwin: RTM_GET scoped to the interface.  Scoped routes to the server and
\* the scoped default route are one flag here.
darwin_scoped_route_probe(i, f) ==
    IF f = "route" THEN -1 ELSE IF nm_if[i].route /\ f # "default" THEN 1 ELSE 0

\* After a definite "no" the scoped default route is looked up as well, and a
\* lookup of that one that cannot answer (fault "default") reads as "no".
darwin_has_route_to_server(i, f) ==
    IF nm_if[i].link = "gone" THEN 0 ELSE darwin_scoped_route_probe(i, f)

\* Windows: GetBestRoute2 restricted to the adapter.
windows_has_route_to_server(i, f) ==
    IF nm_if[i].link = "gone" THEN 0
    ELSE IF f = "route" THEN -1 ELSE IF nm_if[i].route THEN 1 ELSE 0

iface_has_route_to_server(i, f) ==
    CASE Linux   -> linux_has_route_to_server(i, f)
      [] Darwin  -> darwin_has_route_to_server(i, f)
      [] Windows -> windows_has_route_to_server(i, f)

\* Darwin's media status, unknown when SIOCGIFMEDIA fails or the driver does
\* not report it.
iface_carrier_down(i, f) ==
    IF f = "media" \/ ~nm_case.media \/ nm_if[i].link = "gone" THEN -1
    ELSE IF nm_if[i].link \in {"nocarrier", "stuck"} THEN 1 ELSE 0

(***************************************************************************)
(* The path table                                                          *)
(***************************************************************************)
platform_path_disarm(x) == [x EXCEPT !.ev = FALSE]

platform_path_close_socket(x) == [platform_path_disarm(x) EXCEPT !.fd = FALSE]

\* Closes the sockets of the dropped slots x first and then tells the library
\* that the transports are gone; a refusal stops the process.
release_transport(q, x) ==
    LET shut == [s \in DOMAIN x |-> platform_path_close_socket(x[s])]
        r    == WithSlots(q, [s \in DOMAIN x |-> mqvpn_client_path_released(shut[s])])
    IN  [slot |-> r.slot, ret |-> r.ret,
         fatal |-> r.fatal \/ \E s \in DOMAIN x : release_refused(shut[s])]

\* A slot without a socket is removed already.
remove_path_by_slot(q, S) ==
    release_transport(q, [s \in {t \in S : q.slot[t].fd} |-> mqvpn_client_drop_path(q.slot[s])])

netmon_drop_paths_by_ifname(q, i) == remove_path_by_slot(q, SlotsOn(i))

\* A socket pinned to the old interface index is pinned again before it is
\* reactivated (Darwin, Windows); failing that, the slot is passed over.
netmon_platform_pre_reactivate(f) == Linux \/ f # "pin"

netmon_try_reactivate_by_ifname(q, i, f) ==
    LET asleep == {s \in SlotsOn(i) : q.slot[s].fd /\ q.slot[s].lib \in {"degraded", "recoverable"}}
    IN  IF iface_has_route_to_server(i, f) = 0 \/ ~netmon_platform_pre_reactivate(f) THEN q
        ELSE WithSlots(q, [s \in asleep |-> mqvpn_client_reactivate_path(q.slot[s], f)])

path_lib_allows_readd(lib) == lib \in {"closed", "recoverable", "unlisted"}

\* Mutant: a slot that still has a socket is recovered too.
path_readd_candidate_any(slot, lib) ==
    slot.recover_failures < PATH_RECOVER_FAILURE_LIMIT /\ path_lib_allows_readd(lib)

\* A slot that still has a socket is never a candidate: opening another one
\* would overwrite it and orphan its read event.
path_readd_candidate(slot, lib) ==
    /\ ~slot.fd
    /\ slot.recover_failures < PATH_RECOVER_FAILURE_LIMIT
    /\ path_lib_allows_readd(lib)

slot_failed(x, f) ==
    [x EXCEPT !.recover_failures = IF f = "permanent" THEN PATH_RECOVER_FAILURE_LIMIT ELSE @ + 1]

recovery_rollback(q, s, f) ==
    LET r == release_transport(q, [t \in {s} |-> mqvpn_client_drop_path(q.slot[t])])
    IN  WithSlots(r, [t \in {s} |-> slot_failed(r.slot[t], f)])

\* Opens and pins a socket, gives it to the library, arms its read event.  The
\* slot changes only once the library has taken the path.
slot_opened(x) == [x EXCEPT !.fd = TRUE]
slot_armed(x) == [x EXCEPT !.ev = TRUE, !.recover_failures = 0]
readd_slot(q, s, f, reuse) ==
    LET added  == mqvpn_client_add_path(q, s, reuse)
        opened == WithSlots(added, [t \in {s} |-> slot_opened(added.slot[t])])
        armed  == WithSlots(opened, [t \in {s} |-> slot_armed(opened.slot[t])])
    IN  CASE f \in {"open", "pin", "none"} -> q
          [] f \in {"transient", "permanent", "arm"} -> recovery_rollback(opened, s, f)
          [] OTHER -> [slot |-> armed.slot, fatal |-> armed.fatal, ret |-> TRUE]

\* Re-adds the first candidate on the interface, all gates passed; ret says
\* whether it succeeded.
netmon_try_readd_removed_path(q, i, f, reuse) ==
    LET no == [slot |-> q.slot, fatal |-> q.fatal, ret |-> FALSE]
        c  == {s \in SlotsOn(i) : path_readd_candidate(q.slot[s], q.slot[s].lib)}
    IN  IF \/ netmon_iface_is_up_and_running(i, f) # 1
           \/ netmon_iface_has_usable_ip(i, f) # 1
           \/ c = {}
           \/ iface_has_route_to_server(i, f) = 0
        THEN no
        ELSE readd_slot(no, CHOOSE s \in c : \A t \in c : s <= t, f, reuse)

\* Mutant: an address list that could not be read counts as an empty one.
netmon_on_addr_removed_unknown(q, i, f) ==
    IF netmon_iface_is_up_and_running(i, f) = 1 /\ netmon_iface_has_usable_ip(i, f) # 1
    THEN netmon_drop_paths_by_ifname(q, i)
    ELSE q

\* An address went away: the path goes only if the link is up and the
\* interface definitely has no usable address left.
netmon_on_addr_removed(q, i, f) ==
    IF netmon_iface_is_up_and_running(i, f) = 1 /\ netmon_iface_has_usable_ip(i, f) = 0
    THEN netmon_drop_paths_by_ifname(q, i)
    ELSE q

(***************************************************************************)
(* Linux: netlink messages                                                 *)
(***************************************************************************)
handle_rtm_newaddr(q, m, f, reuse) ==
    LET r == netmon_try_readd_removed_path(q, m.i, f, reuse)
    IN  IF r.ret THEN r ELSE netmon_try_reactivate_by_ifname(r, m.i, f)

handle_rtm_dellink(q, m) == netmon_drop_paths_by_ifname(q, m.i)

\* operstate DOWN or LOWERLAYERDOWN in the message; DORMANT is no loss.
is_carrier_loss(m) == m.link = "nocarrier"

handle_rtm_newlink(q, m, f, reuse) ==
    IF m.link = "down" \/ is_carrier_loss(m)
    THEN netmon_drop_paths_by_ifname(q, m.i)
    ELSE IF m.link # "up" \/ netmon_iface_has_usable_ip(m.i, f) # 1 THEN q
    ELSE handle_rtm_newaddr(q, m, f, reuse)

on_netlink_event(q, m, f, reuse) ==
    CASE m.type = "newaddr" -> handle_rtm_newaddr(q, m, f, reuse)
      [] m.type = "deladdr" -> netmon_on_addr_removed(q, m.i, f)
      [] m.type = "dellink" -> handle_rtm_dellink(q, m)
      [] m.type = "newlink" -> handle_rtm_newlink(q, m, f, reuse)

(***************************************************************************)
(* Darwin: routing-socket messages, and the resync for those lost          *)
(***************************************************************************)
\* The flags are the message's, the media status is asked for now.
handle_rtm_ifinfo(q, m, f, reuse) ==
    IF m.link = "down" \/ iface_carrier_down(m.i, f) = 1
    THEN netmon_drop_paths_by_ifname(q, m.i)
    ELSE IF ~running(m.link) \/ netmon_iface_has_usable_ip(m.i, f) # 1 THEN q
    ELSE handle_rtm_newaddr(q, m, f, reuse)

\* A message whose interface no longer resolves, neither by name nor by index:
\* every tracked interface that does not exist any more loses its paths.
route_resolve_ifname(q) ==
    remove_path_by_slot(q, {s \in Slots : nm_if[nm_case.iface[s]].link = "gone"})

on_route_event(q, m, f, reuse) ==
    IF m.type = "dellink" \/ (f = "name" /\ nm_if[m.i].link = "gone")
    THEN route_resolve_ifname(q)
    ELSE CASE m.type = "newaddr" -> handle_rtm_newaddr(q, m, f, reuse)
           [] m.type = "deladdr" -> netmon_on_addr_removed(q, m.i, f)
           [] m.type = "newlink" -> handle_rtm_ifinfo(q, m, f, reuse)

\* Drops what a lost message would have dropped; skipped when the interface
\* list cannot be read.
route_resync(q, f) ==
    IF f = "ip" THEN q
    ELSE remove_path_by_slot(q,
             {s \in Slots : LET i == nm_case.iface[s]
                           IN  \/ nm_if[i].link \in {"gone", "down"}
                               \/ iface_carrier_down(i, f) = 1
                               \/ netmon_iface_has_usable_ip(i, f) = 0})

netmon_platform_pre_scan(q, f) ==
    IF Darwin /\ nm_tick = 0 THEN route_resync(q, f) ELSE q

(***************************************************************************)
(* The recovery timer: POSIX recover_dropped_paths_cb, Windows reconcile   *)
(***************************************************************************)
\* Mutant: a slot that kept its socket is left to the library.
recover_slot_no_reactivate(q, s, lib, f, reuse) ==
    IF ~q.slot[s].fd /\ path_readd_candidate(q.slot[s], lib)
    THEN netmon_try_readd_removed_path(q, nm_case.iface[s], f, reuse)
    ELSE q

\* One slot of the timer's scan.  lib is the status in the snapshot of the
\* library's paths taken before the scan.
recover_slot(q, s, lib, f, reuse) ==
    LET i == nm_case.iface[s]
    IN  IF q.slot[s].recover_failures >= PATH_RECOVER_FAILURE_LIMIT THEN q
        ELSE IF q.slot[s].fd
        THEN IF /\ lib = "recoverable"
                /\ netmon_iface_is_up_and_running(i, f) = 1
                /\ netmon_iface_has_usable_ip(i, f) = 1
             THEN netmon_try_reactivate_by_ifname(q, i, f) ELSE q
        ELSE IF path_readd_candidate(q.slot[s], lib)
             THEN netmon_try_readd_removed_path(q, i, f, reuse) ELSE q

\* Windows keeps copies of the functions above with the same control; only
\* where it reads the state of an interface from differs.
drop_paths_by_ifname(q, i) == netmon_drop_paths_by_ifname(q, i)

try_reactivate_by_ifname(q, i, f) == netmon_try_reactivate_by_ifname(q, i, f)

win_readd_slot(q, s, f, reuse) == readd_slot(q, s, f, reuse)

try_readd_removed_path(q, i, f, reuse) ==
    LET no == [slot |-> q.slot, fatal |-> q.fatal, ret |-> FALSE]
        c  == {s \in SlotsOn(i) : path_readd_candidate(q.slot[s], q.slot[s].lib)}
    IN  IF \/ iface_is_up_and_running(i, f) # 1
           \/ iface_has_usable_ip(i, f) # 1
           \/ c = {}
           \/ windows_has_route_to_server(i, f) = 0
        THEN no
        ELSE win_readd_slot(no, CHOOSE s \in c : \A t \in c : s <= t, f, reuse)

\* Windows has no drop messages: the scan itself drops a live path whose
\* interface is definitely down or without an address, before the failure
\* limit is looked at.
reconcile_slot(q, s, lib, f, reuse) ==
    LET i == nm_case.iface[s]
    IN  IF /\ q.slot[s].fd /\ lib \in Live
           /\ iface_is_up_and_running(i, f) = 0 \/ iface_has_usable_ip(i, f) = 0
        THEN drop_paths_by_ifname(q, i)
        ELSE IF q.slot[s].recover_failures >= PATH_RECOVER_FAILURE_LIMIT THEN q
        ELSE IF q.slot[s].fd
        THEN IF /\ lib = "recoverable"
                /\ iface_is_up_and_running(i, f) = 1
                /\ iface_has_usable_ip(i, f) = 1
             THEN try_reactivate_by_ifname(q, i, f) ELSE q
        ELSE IF path_readd_candidate(q.slot[s], lib)
             THEN try_readd_removed_path(q, i, f, reuse) ELSE q

\* Either scan takes the slots in order, with the snapshot taken before it.
scan_slot(q, s, lib, f, reuse) ==
    IF Windows THEN reconcile_slot(q, s, lib, f, reuse) ELSE recover_slot(q, s, lib, f, reuse)

scan_slots(q, f, reuse) ==
    LET after[n \in 0..Len(nm_case.iface)] ==
            IF n = 0 THEN q ELSE scan_slot(after[n - 1], n, q.slot[n].lib, f, reuse)
    IN  after[Len(nm_case.iface)]

recover_dropped_paths_cb(q, f, reuse) ==
    scan_slots(netmon_platform_pre_scan(q, f), f, reuse)

reconcile_all(q, f, reuse) == scan_slots(q, f, reuse)

(***************************************************************************)
(* Init and actions                                                        *)
(***************************************************************************)
\* platform_paths_open and the registration loop of run_client: every
\* configured path has a socket, an armed read event and a pending handle.
NmInit ==
    /\ nm_case \in NmCases
    /\ nm_if = [i \in Range(nm_case.iface) |-> [link |-> "up", addr |-> TRUE, route |-> TRUE]]
    /\ nm_msgs = <<>> /\ nm_lost = FALSE
    /\ nm_slot = [s \in DOMAIN nm_case.iface |->
                    [fd |-> TRUE, ev |-> TRUE, lib |-> "pending", held |-> 1,
                     recover_failures |-> 0]]
    /\ nm_tun = FALSE /\ nm_tick = 0 /\ nm_fatal = FALSE
    /\ nm_left = nm_case.changes

\* What the kernel tells: the kind of change, and the link's state by then.
Message == [type : {"newlink", "dellink", "newaddr", "deladdr"}, i : Ifaces, link : Links]

Commit(q) == nm_slot' = q.slot /\ nm_fatal' = q.fatal

Post(ms) ==
    IF Windows THEN UNCHANGED <<nm_msgs, nm_lost>>
    ELSE /\ nm_msgs' = SubSeq(nm_msgs \o ms, 1,
                              IF Len(nm_msgs \o ms) < NmQueue THEN Len(nm_msgs \o ms) ELSE NmQueue)
         /\ nm_lost' = (nm_lost \/ Len(nm_msgs \o ms) > NmQueue)

\* The kernel: an interface changes and a message with a snapshot is queued.
\* Taking it down flushes its routes; losing the carrier may leave them (keep).
\* Darwin has no operational states, hence no dormant link.
LinkChanges(i, l) ==
    /\ nm_left > 0 /\ nm_left' = nm_left - 1
    /\ l # nm_if[i].link /\ l # (IF Darwin THEN "dormant" ELSE "stuck")
    /\ \E keep \in BOOLEAN :
          nm_if' = [nm_if EXCEPT ![i] = [link |-> l, addr |-> @.addr /\ l # "gone",
                                         route |-> @.route /\ (\/ l \in {"up", "dormant"}
                                                               \/ keep /\ l \in {"nocarrier", "stuck"})]]
    /\ Post(<<[type |-> IF l = "gone" THEN "dellink" ELSE "newlink", i |-> i, link |-> l]>>)
    /\ UNCHANGED <<nm_case, nm_slot, nm_tun, nm_tick, nm_fatal>>

AddrChanges(i) ==
    /\ nm_left > 0 /\ nm_left' = nm_left - 1
    /\ nm_if[i].link # "gone"
    /\ nm_if' = [nm_if EXCEPT ![i] = [link |-> @.link, addr |-> ~@.addr,
                                      route |-> @.route /\ ~@.addr]]
    /\ Post(<<[type |-> IF nm_if[i].addr THEN "deladdr" ELSE "newaddr", i |-> i,
               link |-> nm_if[i].link]>>)
    /\ UNCHANGED <<nm_case, nm_slot, nm_tun, nm_tick, nm_fatal>>

\* No message tells of a route.
RouteChanges(i) ==
    /\ nm_if[i].link \in {"up", "stuck"} /\ nm_if[i].addr
    /\ \/ nm_if[i].route /\ nm_left > 0 /\ nm_left' = nm_left - 1
       \/ ~nm_if[i].route /\ UNCHANGED nm_left
    /\ nm_if' = [nm_if EXCEPT ![i] = [link |-> @.link, addr |-> @.addr, route |-> ~@.route]]
    /\ UNCHANGED <<nm_case, nm_msgs, nm_lost, nm_slot, nm_tun, nm_tick, nm_fatal>>

Receive(f, reuse) ==
    /\ nm_msgs # <<>>
    /\ nm_msgs' = Tail(nm_msgs)
    /\ Commit(IF Linux THEN on_netlink_event(Cur, Head(nm_msgs), f, reuse)
                       ELSE on_route_event(Cur, Head(nm_msgs), f, reuse))
    /\ UNCHANGED <<nm_case, nm_if, nm_lost, nm_tun, nm_tick, nm_left>>

\* recv fails with ENOBUFS on Darwin's routing socket: a message was lost.
RouteOverflow(f) ==
    /\ Darwin /\ nm_lost
    /\ nm_lost' = FALSE
    /\ Commit(route_resync(Cur, f))
    /\ UNCHANGED <<nm_case, nm_if, nm_msgs, nm_tun, nm_tick, nm_left>>

RecoverTimer(f, reuse) ==
    /\ nm_tun
    /\ nm_tick' = IF Darwin THEN (nm_tick + 1) % RESYNC_EVERY_N_TICKS ELSE nm_tick
    /\ Commit(IF Windows THEN reconcile_all(Cur, f, reuse)
                         ELSE recover_dropped_paths_cb(Cur, f, reuse))
    /\ UNCHANGED <<nm_case, nm_if, nm_msgs, nm_lost, nm_tun, nm_left>>

\* The library moves a path on by itself.
LibraryMoves(s) ==
    /\ nm_tun
    /\ \E to \in {"active", "degraded", "recoverable"} :
          /\ nm_slot[s].lib \in Live \ {to}
          /\ nm_slot' = [nm_slot EXCEPT ![s].lib = to]
    /\ UNCHANGED <<nm_case, nm_if, nm_msgs, nm_lost, nm_tun, nm_tick, nm_fatal, nm_left>>

\* cb_tunnel_config_ready arms the timer; cb_state_changed(RECONNECTING) stops
\* it and gives every slot a fresh failure budget, while the library re-queues
\* every path it still holds.
TunnelReady ==
    /\ ~nm_tun /\ nm_tun' = TRUE
    /\ UNCHANGED <<nm_case, nm_if, nm_msgs, nm_lost, nm_slot, nm_tick, nm_fatal, nm_left>>

Reconnecting ==
    /\ nm_tun /\ nm_tun' = FALSE
    /\ nm_left > 0 /\ nm_left' = nm_left - 1
    /\ nm_slot' = [s \in Slots |->
          [nm_slot[s] EXCEPT !.recover_failures = 0,
                             !.lib = IF nm_slot[s].fd THEN "pending" ELSE @]]
    /\ UNCHANGED <<nm_case, nm_if, nm_msgs, nm_lost, nm_tick, nm_fatal>>

NmNext ==
    \/ \E i \in Ifaces, l \in Links : LinkChanges(i, l)
    \/ \E i \in Ifaces : AddrChanges(i)
    \/ \E i \in Ifaces : RouteChanges(i)
    \/ \E f \in NmFaults, reuse \in Slots \cup {0} : Receive(f, reuse)
    \/ \E f \in {"ok", "ip", "media"} : RouteOverflow(f)
    \/ \E f \in NmFaults, reuse \in Slots \cup {0} : RecoverTimer(f, reuse)
    \/ \E s \in Slots : LibraryMoves(s)
    \/ TunnelReady
    \/ Reconnecting

\* libevent serves the monitor's socket and, while the tunnel is up, its
\* periodic timer; neither the probes nor the library fail for ever, nor on
\* every tick that resyncs.
TimerDue ==
    /\ nm_tun
    /\ \/ Darwin
       \/ Windows /\ reconcile_all(Cur, "ok", 0).slot # nm_slot
       \/ Linux /\ recover_dropped_paths_cb(Cur, "ok", 0).slot # nm_slot

NmFairness ==
    /\ []<>(nm_msgs = <<>>) \/ []<><<Len(nm_msgs') < Len(nm_msgs)>>_nm_vars
    /\ []<>~TimerDue \/ []<><<nm_tick = 0 /\ \E reuse \in Slots \cup {0} : RecoverTimer("ok", reuse)>>_nm_vars

NmSpec == NmInit /\ [][NmNext]_nm_vars /\ NmFairness

(***************************************************************************)
(* Properties                                                              *)
(***************************************************************************)
NmTypeOK ==
    /\ nm_case \in NmCases
    /\ nm_if \in [Ifaces -> [link : Links, addr : BOOLEAN, route : BOOLEAN]]
    /\ nm_msgs \in Seq(Message)
    /\ Len(nm_msgs) <= NmQueue
    /\ nm_slot \in [Slots -> [fd : BOOLEAN, ev : BOOLEAN, held : 0..2,
                              lib : Live \cup {"recoverable", "closed", "unlisted"},
                              recover_failures : 0..PATH_RECOVER_FAILURE_LIMIT]]
    /\ nm_tick \in 0..(RESYNC_EVERY_N_TICKS - 1)

\* Through every drop, re-add, rollback and failed arm, on whichever platform:
\* a slot has a socket exactly when its read event is armed and the library
\* holds exactly one transport for it, under a handle that is not dropped; no
\* socket is overwritten, no transport leaked, no release refused (fatal_stop),
\* and a slot that has its path back has its failure budget back.
NmSound ==
    /\ NmTypeOK
    /\ ~nm_fatal
    /\ \A s \in Slots :
          /\ nm_slot[s].ev = nm_slot[s].fd
          /\ nm_slot[s].held = IF nm_slot[s].fd THEN 1 ELSE 0
          /\ nm_slot[s].fd = (nm_slot[s].lib \in Live \cup {"recoverable"})
          /\ nm_slot[s].fd => nm_slot[s].recover_failures = 0

\* What may cost an interface its paths: the loss of its link or of its
\* addresses, now or in the message being handled.  A dormant link costs them
\* only on Windows, where every OperStatus but Up counts as down.
Lost(i) ==
    \/ nm_if[i].link \in {"gone", "down", "nocarrier", "stuck"}
    \/ Windows /\ nm_if[i].link # "up"
    \/ ~nm_if[i].addr
Fit(i) == running(nm_if[i].link) /\ nm_if[i].addr
Reported(i) ==
    /\ nm_msgs # <<>> /\ Head(nm_msgs).i = i
    /\ \/ Linux /\ Head(nm_msgs).type = "dellink"
       \/ Head(nm_msgs).type = "newlink" /\ Head(nm_msgs).link = "down"
       \/ Linux /\ Head(nm_msgs).type = "newlink" /\ Head(nm_msgs).link = "nocarrier"

\* A path is dropped only on definite evidence: the interface has lost its link
\* or its addresses by now, or the message being handled says that the link
\* went.  A probe that failed (getifaddrs, an ioctl, the media status, an
\* unknown OperStatus) is no evidence, and on Linux neither is a link that is
\* merely dormant.  And no socket is opened on an interface that is down or has
\* no address, whatever message asks for it; nor on one without carrier, except
\* where Darwin's IFF_RUNNING does not tell.
NmForCause ==
    [][\A s \in Slots :
          LET i == nm_case.iface[s]
          IN  /\ nm_slot[s].fd /\ ~nm_slot'[s].fd => Lost(i) \/ Reported(i)
              /\ ~nm_slot[s].fd /\ nm_slot'[s].fd => Fit(i)]_nm_vars

Good(s) ==
    s \in Slots /\ nm_if[nm_case.iface[s]] = [link |-> "up", addr |-> TRUE, route |-> TRUE]
Usable(s) == s \in Slots /\ nm_slot[s].fd /\ nm_slot[s].lib \in Live
\* What each platform promises to notice: Linux the loss of the link, as long
\* as no message is lost; Darwin and Windows by their periodic scan also that of
\* the address, lost messages or not.  On Darwin the loss of the carrier counts
\* only where both sources agree on it: a driver without a media status never
\* drops the path, and one that leaves IFF_RUNNING set has the scan re-add, in
\* the same callback, the path that the resync has just dropped.
Dead(s) ==
    s \in Slots /\
    LET i == nm_case.iface[s]
    IN  \/ nm_if[i].link \in {"gone", "down"} /\ (Linux => ~nm_lost)
        \/ nm_if[i].link = "nocarrier" /\ (Linux => ~nm_lost) /\ (Darwin => nm_case.media)
        \/ ~Linux /\ ~nm_if[i].addr /\ nm_if[i].link \in {"up", "stuck", "dormant"}

\* While the tunnel is up, an interface that stays usable gets its path back
\* unless the slot has used up its failure budget, also when the route appeared
\* without any message; and an interface that stays dead loses its path.
NmSettles ==
    \A s \in 1..MaxSlots :
        /\ (Good(s) /\ nm_tun) ~>
               (~Good(s) \/ ~nm_tun \/ Usable(s)
                \/ nm_slot[s].recover_failures = PATH_RECOVER_FAILURE_LIMIT)
        /\ (Dead(s) /\ nm_tun) ~> (~Dead(s) \/ ~nm_tun \/ ~Usable(s))
=============================================================================
