-------------------------- MODULE ExchangePrograms --------------------------
(***************************************************************************)
(* The programs of the exercises in Exchanges.  Each is a straight line of *)
(* system calls, perhaps with a loop at its end; here it is the sequence   *)
(* of the calls another process can notice.                                *)
(***************************************************************************)
EXTENDS Integers, Sequences

posix_mq_server == <<"create", "send", "receive", "remove">>
posix_mq_client == <<"open", "receive", "open", "send">>
sysv_mq_server == <<"create", "send", "receive", "remove">>
sysv_mq_client == <<"create", "receive", "send", "remove">>

posix_shm_server == <<"create", "ftruncate", "greet", "watch", "print", "remove">>
posix_shm_client == <<"open", "print", "strcpy", "strcpy_end">>
sysv_shm_server == <<"create", "greet", "watch", "print", "remove">>
sysv_shm_client == <<"open", "print", "strcpy", "strcpy_end">>

pipe_parent == <<"send", "waitpid">>
pipe_child == <<"receive">>
fifo_server == <<"create", "meet", "send">>
fifo_client == <<"open", "meet", "receive", "remove">>

unix_dgram_server == <<"create", "receive", "reply", "close">>
unix_dgram_client == <<"unlink", "bind", "sendto", "receive", "unlink">>

unix_stream_server == <<"create", "accept", "receive", "reply", "close">>
unix_stream_client == <<"connect", "send", "receive">>
udp_server == <<"create", "receive", "reply", "close">>
udp_client == <<"sendto", "receive">>
tcp_server == <<"create", "accept", "receive", "reply", "close">>
tcp_client == <<"connect", "send", "receive">>

raw_server == <<"create", "receive", "reply", "again">>
raw_udp_ip_server == raw_server
raw_udp_ip_mac_server == raw_server
raw_client == <<"join", "sendto", "receive">>
raw_udp_ip_client == raw_client
raw_udp_ip_mac_client == raw_client

broadcast_server == [i \in 1..5 |-> "shout"]
broadcast_client == <<"join", "receive">>
multicast_server == [i \in 1..5 |-> "shout"]
multicast_client == <<"join">> \o [i \in 1..5 |-> "receive"]

pthread_server == <<"create", "accept", "reply", "again">>
pthread_client == <<"connect", "receive">>
poll_server == <<"create", "poll", "handle_tcp", "handle_udp", "again">>
poll_client_tcp == <<"connect", "receive">>
poll_client_udp == <<"sendto", "receive">>

handler_recv == <<"sigaction", "pause", "again">>
handler_send == <<"kill">>
masked_recv == <<"sigprocmask", "sleep">>
masked_send == <<"kill">>
sigwait_recv == <<"sigprocmask", "pause", "again">>
sigwait_send == <<"kill">>

Mqs == {"posix_mq", "sysv_mq"}
Shms == {"posix_shm", "sysv_shm"}
Streams == {"unix_stream", "tcp", "pthread", "poll"}
Raws == {"raw_udp", "raw_udp_ip", "raw_udp_ip_mac"}
Groups == {"broadcast", "multicast"}
Signals == {"handler", "sigwait"}
Pairs == Mqs \cup Shms \cup Streams \cup Raws \cup Groups \cup Signals
            \cup {"pipe", "fifo", "unix_dgram", "udp", "masked"}
OneClient == Mqs \cup Shms \cup {"pipe", "fifo"}

\* The server's program, and the programs of the first client and of others.
Programs ==
    [posix_mq |-> <<posix_mq_server, posix_mq_client>>,
     sysv_mq |-> <<sysv_mq_server, sysv_mq_client>>,
     posix_shm |-> <<posix_shm_server, posix_shm_client>>,
     sysv_shm |-> <<sysv_shm_server, sysv_shm_client>>,
     pipe |-> <<pipe_parent, pipe_child>>,
     fifo |-> <<fifo_server, fifo_client>>,
     unix_dgram |-> <<unix_dgram_server, unix_dgram_client, unix_dgram_client>>,
     unix_stream |-> <<unix_stream_server, unix_stream_client, unix_stream_client>>,
     udp |-> <<udp_server, udp_client, udp_client>>,
     tcp |-> <<tcp_server, tcp_client, tcp_client>>,
     raw_udp |-> <<raw_server, raw_client, raw_client>>,
     raw_udp_ip |-> <<raw_udp_ip_server, raw_udp_ip_client, raw_udp_ip_client>>,
     raw_udp_ip_mac |->
        <<raw_udp_ip_mac_server, raw_udp_ip_mac_client, raw_udp_ip_mac_client>>,
     broadcast |-> <<broadcast_server, broadcast_client, broadcast_client>>,
     multicast |-> <<multicast_server, multicast_client, multicast_client>>,
     pthread |-> <<pthread_server, pthread_client, pthread_client>>,
     poll |-> <<poll_server, poll_client_tcp, poll_client_udp>>,
     handler |-> <<handler_recv, handler_send, handler_send>>,
     masked |-> <<masked_recv, masked_send, masked_send>>,
     sigwait |-> <<sigwait_recv, sigwait_send, sigwait_send>>]
=============================================================================
