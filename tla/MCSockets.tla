----------------------------- MODULE MCSockets -----------------------------
(* Sockets on small instances.  Descriptor 0 becomes that of /dev/mem, and *)
(* 1 may be that of an instance.  Port 31 lies in the range, port 36       *)
(* beyond it and beyond what is mapped; the automatic port of descriptor 3 *)
(* is 31, too.                                                             *)
EXTENDS Sockets

MCPorts == {31, 36}

(* One that opens and closes descriptors and epoll instances, two that     *)
(* receive and shut down or close and end, one that sends, one that        *)
(* selects, one that changes an instance under epoll_wait, and one that    *)
(* closes what epoll_wait looks at.                                        *)
MCApplications ==
  { {"socket", "sockets", "epoll", "epoll_del", "shutdown", "close", "fail"},
    {"socket", "bind", "recv", "shutdown"},
    {"socket", "sockets", "bind", "recv", "close", "exit"},
    {"socket", "connect", "setsockopt", "send", "recv", "others"},
    {"socket", "bind", "select"},
    {"socket", "sockets", "bind", "epoll", "epoll_wait", "epoll_del"},
    {"socket", "bind", "epoll", "epoll_wait", "close"} }

(* One that ends with a port bound. *)
MCRestarted == { {"socket", "bind", "exit"} }
=============================================================================
