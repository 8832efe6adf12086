------------------------------ MODULE MCRender ------------------------------
(***************************************************************************)
(* Command lines for Render.  IPv4 addresses have three bytes of two bits, *)
(* IPv6 addresses four: the smallest sizes at which a network with room    *)
(* for the DNS address takes a part of the address space, and counting to  *)
(* that address carries from one byte to the next.                         *)
(***************************************************************************)
EXTENDS Render

Default ==
  [ca |-> {}, etcd |-> {}, etcdServers |-> {[host |-> "etcd", scheme |-> "https"]},
   apiServers |-> <<"api">>, altNames |-> {}, networkProvider |-> "flannel", malformed |-> {}, stray |-> {},
   podCIDR |-> <<[ip |-> <<0, 0, 0>>, ones |-> 2]>>, serviceCIDR |-> <<[ip |-> <<1, 0, 0>>, ones |-> 2]>>]

\* Networks from the whole space down to one too small, and one whose address
\* is not its first.
V4 == {[ip |-> <<i, j, 0>>, ones |-> ones] : i \in 0..3, j \in {0, 2}, ones \in 0..3}
      \cup {[ip |-> <<2, 1, 3>>, ones |-> 2], [ip |-> <<3, 3, 3>>, ones |-> 6]}

\* Networks for two stacks.
Few == {[ip |-> <<0, 0, 0>>, ones |-> 1], [ip |-> <<1, 0, 0>>, ones |-> 2], [ip |-> <<3, 0, 0>>, ones |-> 2],
        [ip |-> <<1, 0, 0, 0>>, ones |-> 2], [ip |-> <<1, 2, 0, 0>>, ones |-> 4], [ip |-> <<2, 3, 1, 0>>, ones |-> 6]}

Two == {<<n, m>> : n \in Few, m \in Few}

MCOptions ==
  {[Default EXCEPT !.podCIDR = <<p>>, !.serviceCIDR = <<s>>] : p \in V4, s \in V4}
  \cup {[Default EXCEPT !.podCIDR = p, !.serviceCIDR = s] : p \in Two, s \in Two}
  \cup {[Default EXCEPT !.podCIDR = <<n, n, n>>, !.serviceCIDR = s] : n \in Few, s \in Two \cup {<<m, m, m>> : m \in Few}}
  \cup {[Default EXCEPT !.ca = ca, !.etcd = etcd, !.etcdServers = servers, !.networkProvider = network]
         : ca \in SUBSET {"cert", "key"}, etcd \in SUBSET {"ca", "cert", "key"},
           servers \in {{}, {[host |-> "etcd", scheme |-> "http"]},
                        {[host |-> "etcd", scheme |-> "http"], [host |-> "etcd2", scheme |-> "https"]}},
           network \in Networks \cup {"other"}}
  \cup {[Default EXCEPT !.ca = ca, !.etcd = etcd, !.stray = stray]
         : ca \in {{}, {"cert", "key"}}, etcd \in {{}, {"ca", "cert", "key"}},
           stray \in SUBSET {"ca", "etcd-ca", "etcd-key"}}
  \cup {[Default EXCEPT !.apiServers = api, !.altNames = names, !.malformed = malformed]
         : api \in {<<>>, <<"api", "api2">>}, names \in {{}, {"name"}},
           malformed \in SUBSET {"api-servers", "api-server-alt-names", "pod-cidr", "service-cidr", "etcd-servers"}}
=============================================================================
