------------------------------- MODULE Render -------------------------------
(***************************************************************************)
(* bootkube render with the default plugin (cmd/render/plugin/default):    *)
(* flags are checked and turned into a configuration, the networks of the  *)
(* cluster among them, then lists of assets are built one from the other,  *)
(* keys and certificates first, and the whole is written to a directory.   *)
(*                                                                         *)
(* An address is a sequence of bytes of Bits bits.  A key is its name; a   *)
(* certificate holds a key, the key that signed it and the addresses it is *)
(* good for.  Of a manifest only the files it reads from its secret and    *)
(* the networks it names are kept; a name is a pair of directory and file. *)
(***************************************************************************)
EXTENDS FiniteSets, Integers, Sequences

CONSTANTS
  Bits,     \* the bits of a byte
  Options   \* the command lines

ASSUME BitsAssumption == Bits \in Nat \ {0}

VARIABLES
  renderOpts,  \* the command line
  pc,          \* where the command is
  conf,        \* asset.Config; empty until the flags are turned into one
  as,          \* the assets so far
  dir,         \* the assets on disk
  result       \* what the command returned: ok, error, or missing: Get found nothing

vars == <<renderOpts, pc, conf, as, dir, result>>

apiOffset == 1
dnsOffset == 10
Networks == {"flannel", "experimental-calico", "experimental-canal"}
NoCIDR == [ip |-> <<>>, ones |-> 0]

\* What net.ParseCIDR takes: an address and how many of its bits name the
\* network, in an address space that goes beyond the DNS service's offset.
CIDRs ==
  {c \in [ip : Seq(0..(2^Bits - 1)), ones : Nat] :
     c.ones <= Bits * Len(c.ip) /\ 2^(Bits * Len(c.ip)) > dnsOffset}

ASSUME OptionsAssumption ==
  \A o \in Options : o.podCIDR \in Seq(CIDRs) /\ o.serviceCIDR \in Seq(CIDRs)

NoConf == [networkProvider |-> "none"]

Init ==
  /\ renderOpts \in Options
  /\ pc = "validate"
  /\ conf = NoConf /\ as = <<>> /\ dir = {}
  /\ result = "none"

----------------------------------------------------------------------------
(***************************************************************************)
(* Networks                                                                *)
(***************************************************************************)
\* The bits of byte j that the mask leaves to the hosts.
HostBits(ones, j) ==
  LET masked == ones - Bits * (j - 1)
  IN  IF masked <= 0 THEN Bits ELSE IF masked >= Bits THEN 0 ELSE Bits - masked

Masked(ip, ones) ==
  [j \in 1..Len(ip) |-> (ip[j] \div 2^HostBits(ones, j)) * 2^HostBits(ones, j)]

\* net.ParseCIDR and IPNet.Contains.
ParseCIDR(cidr) == [ip |-> Masked(cidr.ip, cidr.ones), ones |-> cidr.ones]

Contains(net, ip) == Len(ip) = Len(net.ip) /\ Masked(ip, net.ones) = net.ip

\* Mutant: the carry is forgotten.
incIPv4NoCarry(ip) == [ip EXCEPT ![Len(ip)] = (@ + 1) % 2^Bits]

\* A byte is incremented when all bytes after it wrap to zero.
incIPv4(ip) ==
  [j \in 1..Len(ip) |-> IF \A k \in (j + 1)..Len(ip) : ip[k] = 2^Bits - 1
                        THEN (ip[j] + 1) % 2^Bits ELSE ip[j]]

\* The address that many increments after the network's, if it is in the
\* network; none otherwise.
offsetServiceIP(net, offset) ==
  LET inc[n \in 0..offset] == IF n = 0 THEN net.ip ELSE incIPv4(inc[n - 1])
  IN  {ip \in {inc[offset]} : Contains(net, ip)}

\* Mutant: whether the service network is in the pod network is all that counts.
OverlapOfServices(podNet, svcNet) == Contains(podNet, svcNet.ip)

Overlap(podNet, svcNet) == Contains(podNet, svcNet.ip) \/ Contains(svcNet, podNet.ip)

----------------------------------------------------------------------------
(***************************************************************************)
(* Flags.  {} or <<>> is a flag left empty.  Of an option, malformed is    *)
(* the set of its flags that do not parse, whose values mean nothing, and  *)
(* stray says which of the certificates and keys that the user brings do   *)
(* not belong to the others; nothing compares them.                        *)
(***************************************************************************)
AllOrNone(given, all) == given = {} \/ given = all

validateRenderOpts(o) ==
  /\ AllOrNone(o.ca, {"cert", "key"})
  /\ AllOrNone(o.etcd, {"ca", "cert", "key"})
  /\ o.etcdServers # {} /\ o.apiServers # <<>>
  /\ o.networkProvider \in Networks

Nets(cidrs) == [i \in 1..Len(cidrs) |-> ParseCIDR(cidrs[i])]

ServiceIPs(nets, offset) == [i \in 1..Len(nets) |-> offsetServiceIP(nets[i], offset)]

\* The checks of flagsToAssetConfig on what the flags say.
FlagsAccepted(o) ==
  LET podNets == Nets(o.podCIDR)
      serviceNets == Nets(o.serviceCIDR)
  IN  /\ o.malformed = {}
      /\ Len(podNets) = Len(serviceNets)
      /\ Len(podNets) \in 1..2
      /\ \A i \in 1..Len(podNets), j \in 1..Len(serviceNets) : ~Overlap(podNets[i], serviceNets[j])
      /\ \A offset \in {apiOffset, dnsOffset} : \A i \in 1..Len(serviceNets) :
           offsetServiceIP(serviceNets[i], offset) # {}

\* What it makes of them.  PodCIDR, which three templates read, is not set.
AssetConfig(o) ==
  [etcdCACert |-> o.etcd # {},
   etcdServers |-> {s.host : s \in o.etcdServers},
   etcdUseTLS |-> \E s \in o.etcdServers : s.scheme = "https",
   etcdCAKey |-> IF "etcd-ca" \in o.stray THEN "stray-etcd-ca" ELSE "user-etcd-ca",
   etcdClientKey |-> IF "etcd-key" \in o.stray THEN "stray-etcd" ELSE "user-etcd",
   caKey |-> IF o.ca = {} THEN "ca" ELSE "user-ca",
   caCertKey |-> IF o.ca = {} THEN "ca" ELSE IF "ca" \in o.stray THEN "stray-ca" ELSE "user-ca",
   apiServers |-> o.apiServers,
   altNames |-> IF o.altNames = {} THEN {o.apiServers[i] : i \in 1..Len(o.apiServers)} ELSE o.altNames,
   podCIDRs |-> Nets(o.podCIDR), serviceCIDRs |-> Nets(o.serviceCIDR),
   podCIDR |-> NoCIDR,
   apiServiceIPs |-> UNION {ServiceIPs(Nets(o.serviceCIDR), apiOffset)[i] : i \in 1..Len(o.serviceCIDR)},
   dnsServiceIPs |-> UNION {ServiceIPs(Nets(o.serviceCIDR), dnsOffset)[i] : i \in 1..Len(o.serviceCIDR)},
   networkProvider |-> o.networkProvider]

----------------------------------------------------------------------------
(***************************************************************************)
(* Assets                                                                  *)
(***************************************************************************)
tls(f) == <<"tls", f>>
manifest(f) == <<"manifests", f>>
bootstrap(f) == <<"bootstrap-manifests", f>>
auth(f) == <<"auth", f>>

A(name, data) == [name |-> name, data |-> data]

Names(assets) == {assets[i].name : i \in 1..Len(assets)}

\* Assets.Get where it finds something: the first of that name.
Get(assets, name) ==
  assets[CHOOSE i \in 1..Len(assets) : /\ assets[i].name = name
                                       /\ \A j \in 1..(i - 1) : assets[j].name # name].data

PrivateKey(k) == [type |-> "private key", key |-> k]
PublicKey(k) == [type |-> "public key", key |-> k]
Cert(k, signer, names, ips) ==
  [type |-> "certificate", key |-> k, signer |-> signer, names |-> names, ips |-> ips]
SelfSigned(k) == Cert(k, k, {}, {})

\* The files that the flags of a component name.
EtcdClientFiles == {"etcd-client-ca.crt", "etcd-client.crt", "etcd-client.key"}
APIServerFiles(c) ==
  {"ca.crt", "front-proxy-ca.crt", "front-proxy-client.crt", "front-proxy-client.key",
   "apiserver-kubelet-client.crt", "apiserver-kubelet-client.key", "service-account.pub",
   "apiserver.crt", "apiserver.key"} \cup (IF c.etcdUseTLS THEN EtcdClientFiles ELSE {})
ControllerManagerFiles == {"ca.crt", "ca.key", "service-account.key"}

Reads(files) == [type |-> "manifest", files |-> files]

\* The one asset of each network provider that names the pod network.
NetworkAsset(c) ==
  A(manifest(CASE c.networkProvider = "flannel" -> "flannel-cfg.yaml"
               [] c.networkProvider = "experimental-calico" -> "calico.yaml"
               [] OTHER -> "calico-policy-only.yaml"),
    [type |-> "network", network |-> c.podCIDR])

\* newStaticAssets and newDynamicAssets.
ManifestAssets(c) ==
  <<A(manifest("kube-scheduler.yaml"), Reads({})),
    A(manifest("kube-controller-manager.yaml"), Reads(ControllerManagerFiles)),
    A(manifest("kube-apiserver.yaml"), Reads(APIServerFiles(c))),
    A(manifest("coredns-service.yaml"), [type |-> "service", ips |-> c.dnsServiceIPs]),
    A(bootstrap("bootstrap-apiserver.yaml"), Reads(APIServerFiles(c))),
    A(bootstrap("bootstrap-controller-manager.yaml"), Reads(ControllerManagerFiles \cup {"kubeconfig"})),
    A(bootstrap("bootstrap-scheduler.yaml"), Reads({"kubeconfig"})),
    NetworkAsset(c)>>

\* Mutant: the front proxy's certificate is signed by the cluster's CA.
FrontProxyCertOfClusterCA(c) == Cert("front-proxy-client", c.caKey, {}, {})

\* It is signed by a CA of its own, whose key is not kept.
FrontProxyCert(c) == Cert("front-proxy-client", "front-proxy", {}, {})

newTLSAssets(c) ==
  <<A(tls("ca.key"), PrivateKey(c.caKey)),
    A(tls("ca.crt"), SelfSigned(c.caCertKey)),
    A(tls("apiserver.key"), PrivateKey("apiserver")),
    A(tls("apiserver.crt"), Cert("apiserver", c.caKey, c.altNames, c.apiServiceIPs)),
    A(tls("service-account.key"), PrivateKey("service-account")),
    A(tls("front-proxy-ca.crt"), SelfSigned("front-proxy")),
    A(tls("front-proxy-client.crt"), FrontProxyCert(c)),
    A(tls("front-proxy-client.key"), PrivateKey("front-proxy-client")),
    A(tls("apiserver-kubelet-client.key"), PrivateKey("apiserver-kubelet-client")),
    A(tls("apiserver-kubelet-client.crt"), Cert("apiserver-kubelet-client", c.caKey, {}, {})),
    A(tls("service-account.pub"), PublicKey("service-account")),
    A(tls("admin.key"), PrivateKey("admin")),
    A(tls("admin.crt"), Cert("admin", c.caKey, {}, {}))>>

EtcdKeyAndCert(c, name) == <<PrivateKey(name), Cert(name, c.caKey, c.etcdServers, {})>>

\* Without a CA for etcd the cluster's is used and all certificates are made;
\* with one, the client certificate is the user's too and there are no others.
newEtcdTLSAssets(c) ==
  LET client == IF c.etcdCACert THEN <<PrivateKey(c.etcdClientKey), Cert("user-etcd", "user-etcd-ca", {}, {})>>
                                ELSE EtcdKeyAndCert(c, "etcd-client")
      ca == SelfSigned(IF c.etcdCACert THEN c.etcdCAKey ELSE c.caCertKey)
      generated == IF c.etcdCACert THEN <<>> ELSE
        <<A(tls("etcd/peer-ca.crt"), ca),
          A(tls("etcd/peer.key"), EtcdKeyAndCert(c, "etcd-peer")[1]),
          A(tls("etcd/peer.crt"), EtcdKeyAndCert(c, "etcd-peer")[2]),
          A(tls("etcd/server-ca.crt"), ca),
          A(tls("etcd/server.key"), EtcdKeyAndCert(c, "etcd-server")[1]),
          A(tls("etcd/server.crt"), EtcdKeyAndCert(c, "etcd-server")[2])>>
  IN  generated \o <<A(tls("etcd-client-ca.crt"), ca),
                     A(tls("etcd-client.key"), client[1]),
                     A(tls("etcd-client.crt"), client[2])>>

\* The files each of the last three lists is made from.
KubeConfigNeeds == {"ca.crt", "admin.crt", "admin.key"}

\* Mutant: the CA that the api server checks its clients with is left out.
APIServerSecretWithoutCA(c) == APIServerFiles(c) \ {"ca.crt"}

APIServerSecret(c) ==
  {"apiserver.key", "apiserver.crt", "service-account.pub", "front-proxy-ca.crt",
   "front-proxy-client.crt", "front-proxy-client.key", "apiserver-kubelet-client.crt",
   "apiserver-kubelet-client.key", "ca.crt"} \cup (IF c.etcdUseTLS THEN EtcdClientFiles ELSE {})

ControllerManagerSecret == {"service-account.key", "ca.crt", "ca.key"}

newKubeConfigAssets(c, assets) ==
  LET data == [type |-> "kubeconfig", server |-> c.apiServers[1], ca |-> Get(assets, tls("ca.crt")),
               cert |-> Get(assets, tls("admin.crt")), key |-> Get(assets, tls("admin.key"))]
  IN  <<A(auth("kubeconfig"), data),
        A(manifest("kubeconfig-in-cluster.yaml"), [type |-> "kubeconfig", server |-> data.server]),
        A(auth("kubeconfig-kubelet"), [type |-> "kubeconfig", server |-> data.server, ca |-> data.ca]),
        A(manifest("kubelet-bootstrap-token.yaml"), [type |-> "token"])>>

secretFromAssets(files, assets) == [type |-> "secret", data |-> [f \in files |-> Get(assets, tls(f))]]

----------------------------------------------------------------------------
(***************************************************************************)
(* The command.  The steps of NewDefaultAssets follow one another.         *)
(***************************************************************************)
Goto(l) == pc' = l /\ UNCHANGED <<renderOpts, dir, result>>

Return(r) == pc' = "done" /\ result' = r /\ UNCHANGED <<renderOpts, conf, as>>

ValidateOpts == pc = "validate" /\ validateRenderOpts(renderOpts) /\ Goto("config") /\ UNCHANGED <<conf, as>>

RejectOpts == pc = "validate" /\ ~validateRenderOpts(renderOpts) /\ Return("error") /\ UNCHANGED dir

FlagsToAssetConfig ==
  /\ pc = "config" /\ FlagsAccepted(renderOpts)
  /\ conf' = AssetConfig(renderOpts)
  /\ Goto("manifests") /\ UNCHANGED as

RejectFlags == pc = "config" /\ ~FlagsAccepted(renderOpts) /\ Return("error") /\ UNCHANGED dir

\* A certificate or key the flags name cannot be read or parsed.
UnreadableFiles ==
  /\ pc = "config" /\ renderOpts.ca \cup renderOpts.etcd # {}
  /\ Return("error") /\ UNCHANGED dir

\* No randomness for a key or a serial number, or a signature that fails.
GenerationFails == pc \in {"tls", "etcd", "kubeconfig"} /\ Return("error") /\ UNCHANGED dir

Add(assets, next) == as' = as \o assets /\ Goto(next) /\ UNCHANGED conf

\* A list made from files among the assets: a Get that finds none ends it.
AddFrom(files, assets, next) ==
  IF \A f \in files : tls(f) \in Names(as) THEN Add(assets, next) ELSE Return("missing") /\ UNCHANGED dir

NewManifestAssets == pc = "manifests" /\ Add(ManifestAssets(conf), "tls")

NewTLSAssets == pc = "tls" /\ Add(newTLSAssets(conf), IF conf.etcdUseTLS THEN "etcd" ELSE "kubeconfig")

NewEtcdTLSAssets == pc = "etcd" /\ Add(newEtcdTLSAssets(conf), "kubeconfig")

NewKubeConfigAssets ==
  pc = "kubeconfig" /\ AddFrom(KubeConfigNeeds, newKubeConfigAssets(conf, as), "apiserver secret")

NewAPIServerSecretAsset ==
  /\ pc = "apiserver secret"
  /\ AddFrom(APIServerSecret(conf),
             <<A(manifest("kube-apiserver-secret.yaml"), secretFromAssets(APIServerSecret(conf), as))>>,
             "controller manager secret")

NewControllerManagerSecretAsset ==
  /\ pc = "controller manager secret"
  /\ AddFrom(ControllerManagerSecret,
             <<A(manifest("kube-controller-manager-secret.yaml"), secretFromAssets(ControllerManagerSecret, as))>>,
             "write")

\* WriteFiles into an empty directory.
WriteFiles ==
  /\ pc = "write"
  /\ dir' = {as[i] : i \in 1..Len(as)}
  /\ Return("ok")

\* The directory is not empty, or a write fails after some files.
WriteFilesFails ==
  /\ pc = "write"
  /\ \E n \in 0..(Len(as) - 1) : dir' = {as[i] : i \in 1..n}
  /\ Return("error")

Next ==
  \/ ValidateOpts \/ RejectOpts
  \/ FlagsToAssetConfig \/ RejectFlags \/ UnreadableFiles
  \/ NewManifestAssets \/ NewTLSAssets \/ NewEtcdTLSAssets \/ GenerationFails
  \/ NewKubeConfigAssets \/ NewAPIServerSecretAsset \/ NewControllerManagerSecretAsset
  \/ WriteFiles \/ WriteFilesFails

Spec == Init /\ [][Next]_vars
----------------------------------------------------------------------------
(***************************************************************************)
(* Properties                                                              *)
(***************************************************************************)
\* Addresses as numbers, from their first bytes on.
Vals(ip) == LET v[i \in 0..Len(ip)] == IF i = 0 THEN 0 ELSE v[i - 1] * 2^Bits + ip[i] IN v
Val(ip) == Vals(ip)[Len(ip)]
Size(net) == 2^(Bits * Len(net.ip) - net.ones)
In(ip, net) == Len(ip) = Len(net.ip) /\ Val(ip) >= Val(net.ip) /\ Val(ip) < Val(net.ip) + Size(net)
Disjoint(n, m) ==
  Len(n.ip) # Len(m.ip) \/ Val(n.ip) + Size(n) <= Val(m.ip) \/ Val(m.ip) + Size(m) <= Val(n.ip)

Elems(s) == {s[i] : i \in 1..Len(s)}

\* By the numbers: as many service as pod networks, one or two, no address in
\* both kinds, and room for the api server's and the DNS address.  Of address
\* families nothing: main.go:160 and 164 say of two networks that "they must be
\* of different address families" and 61-62 that IPv4 comes first, but only
\* their number is checked, and two of one family or in the other order pass.
NetworksSeparate(o) ==
  /\ Len(o.podCIDR) = Len(o.serviceCIDR) /\ Len(o.podCIDR) \in {1, 2}
  /\ \A p \in Elems(Nets(o.podCIDR)), s \in Elems(Nets(o.serviceCIDR)) : Disjoint(p, s)
  /\ \A s \in Elems(Nets(o.serviceCIDR)) : Size(s) > dnsOffset

\* flagsToAssetConfig compares two networks by asking each for the other's first
\* address, and finds out whether an address fits by counting to it.  By these
\* it rejects all networks that are too many, too small or overlap, and, when
\* all flags parse and no file is to be read, no others.
AcceptsSeparateNetworks ==
  /\ conf # NoConf => NetworksSeparate(renderOpts)
  /\ /\ pc = "done" /\ conf = NoConf /\ validateRenderOpts(renderOpts)
     /\ renderOpts.ca \cup renderOpts.etcd = {} /\ renderOpts.malformed = {}
     => ~NetworksSeparate(renderOpts)

\* Every service network has the address of the api server and that of the DNS
\* service at their offsets, carries between bytes and all; no address serves
\* both, or belongs to a pod network, and the api server's certificate is good
\* for each of its addresses.
ServiceIPsReachable ==
  conf # NoConf =>
    /\ \A net \in Elems(conf.serviceCIDRs) :
         /\ \E ip \in conf.apiServiceIPs : In(ip, net) /\ Val(ip) = Val(net.ip) + apiOffset
         /\ \E ip \in conf.dnsServiceIPs : In(ip, net) /\ Val(ip) = Val(net.ip) + dnsOffset
    /\ conf.apiServiceIPs \cap conf.dnsServiceIPs = {}
    /\ \A ip \in conf.apiServiceIPs \cup conf.dnsServiceIPs, net \in Elems(conf.podCIDRs) : ~In(ip, net)
    /\ \A a \in dir : a.name = tls("apiserver.crt") => conf.apiServiceIPs \subseteq a.data.ips

OnDisk(name) == (CHOOSE a \in dir : a.name = name).data
APISecret == OnDisk(manifest("kube-apiserver-secret.yaml")).data
CMSecret == OnDisk(manifest("kube-controller-manager-secret.yaml")).data

\* No list of assets asks for a file that the lists before it do not have,
\* whichever of the CA's and etcd's certificates the user brings along.  And
\* what the flags of a component name is there: for the self-hosted ones in
\* their secret, for the bootstrap ones among the files that bootkube start
\* copies, which are those in tls and the kubeconfig.
FilesFound ==
  /\ result # "missing"
  /\ result = "ok" =>
    /\ OnDisk(manifest("kube-apiserver.yaml")).files \subseteq DOMAIN APISecret
    /\ OnDisk(manifest("kube-controller-manager.yaml")).files \subseteq DOMAIN CMSecret
    /\ \A a \in dir : a.name[1] = "bootstrap-manifests" =>
         \A f \in a.data.files :
           (IF f = "kubeconfig" THEN auth(f) ELSE tls(f)) \in {b.name : b \in dir}

Verifies(d, ca, cert, key) == d[cert].signer = d[ca].key /\ d[cert].key = d[key].key

\* What the chains to the cluster's CA and to etcd rest on, of what the user
\* brings along.
ClusterRestsOn == IF renderOpts.ca = {} THEN {} ELSE {"ca"}
EtcdRestsOn == IF renderOpts.etcd = {} THEN ClusterRestsOn ELSE {"etcd-ca", "etcd-key"}

\* The parties trust each other: every certificate that a component or the
\* kubeconfig is given belongs to the key beside it and was signed by the CA
\* its peer is told to trust, the two ends of the service accounts' keys belong
\* together, and all trust one cluster CA.  The user's certificates, which
\* flagsToAssetConfig takes as they are, spoil only what is made from them: one
\* for the cluster that does not fit its key leaves etcd's and the front
\* proxy's alone, and the other way round.
ChainsVerify ==
  result = "ok" =>
    /\ Verifies(APISecret, "front-proxy-ca.crt", "front-proxy-client.crt", "front-proxy-client.key")
    /\ APISecret["service-account.pub"].key = CMSecret["service-account.key"].key
    /\ CMSecret["ca.crt"] = APISecret["ca.crt"]
    /\ OnDisk(auth("kubeconfig")).ca = APISecret["ca.crt"]
    /\ renderOpts.stray \cap ClusterRestsOn = {} =>
         /\ Verifies(APISecret, "ca.crt", "apiserver.crt", "apiserver.key")
         /\ Verifies(APISecret, "ca.crt", "apiserver-kubelet-client.crt", "apiserver-kubelet-client.key")
         /\ CMSecret["ca.key"].key = CMSecret["ca.crt"].key
         /\ Verifies([k \in {"ca", "cert", "key"} |-> OnDisk(auth("kubeconfig"))[k]], "ca", "cert", "key")
    /\ conf.etcdUseTLS /\ renderOpts.stray \cap EtcdRestsOn = {} =>
         Verifies(APISecret, "etcd-client-ca.crt", "etcd-client.crt", "etcd-client.key")

\* main.go:61 "--pod-cidr ... The CIDR range(s) of cluster pods": the network
\* provider is told to take the pods' addresses from there.
PodNetworkConfigured ==
  \A a \in dir : a.data.type = "network" => a.data.network = conf.podCIDRs[1]
============================================================================
