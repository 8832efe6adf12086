---------------------------- MODULE RenderProofs ----------------------------
(***************************************************************************)
(* Proofs about the assets of bootkube render, for any command lines.      *)
(*                                                                         *)
(* What matters of a list of assets is which it has and that a name finds  *)
(* no other (One): Get, the secrets and the files on disk all go by name.  *)
(* The inductive invariant says for each step of NewDefaultAssets what the *)
(* lists before it have put there.  Of the networks ConfigInv says that    *)
(* the configuration is the one made of the flags; NetworkProofs the rest. *)
(***************************************************************************)
EXTENDS NetworkProofs

\* Of the assets of that name, there is one.
One(assets, name, data) ==
  /\ A(name, data) \in assets
  /\ \A a \in assets : a.name = name => a.data = data

IsList(s) == s \in Seq(Elems(s))

APISecretName == manifest("kube-apiserver-secret.yaml")
CMSecretName == manifest("kube-controller-manager-secret.yaml")

\* The manifests that name files: the self-hosted ones and the bootstrap ones.
Manifests(c, assets) ==
  /\ One(assets, manifest("kube-apiserver.yaml"), Reads(APIServerFiles(c)))
  /\ One(assets, manifest("kube-controller-manager.yaml"), Reads(ControllerManagerFiles))
  /\ \A a \in assets : a.name[1] = "bootstrap-manifests" =>
       a.data.files \subseteq APIServerFiles(c) \cup ControllerManagerFiles \cup {"kubeconfig"}

\* Keys and certificates, which have their names to themselves.
EtcdCA(c) == SelfSigned(IF c.etcdCACert THEN c.etcdCAKey ELSE c.caCertKey)
EtcdClientKey(c) == PrivateKey(IF c.etcdCACert THEN c.etcdClientKey ELSE "etcd-client")
EtcdClientCert(c) ==
  IF c.etcdCACert THEN Cert("user-etcd", "user-etcd-ca", {}, {}) ELSE Cert("etcd-client", c.caKey, c.etcdServers, {})

EtcdCredentials(c, assets) ==
  /\ One(assets, tls("etcd-client-ca.crt"), EtcdCA(c))
  /\ One(assets, tls("etcd-client.key"), EtcdClientKey(c))
  /\ One(assets, tls("etcd-client.crt"), EtcdClientCert(c))

ClusterCredentials(c, assets) ==
  /\ One(assets, tls("ca.key"), PrivateKey(c.caKey))
  /\ One(assets, tls("ca.crt"), SelfSigned(c.caCertKey))
  /\ One(assets, tls("apiserver.key"), PrivateKey("apiserver"))
  /\ One(assets, tls("apiserver.crt"), Cert("apiserver", c.caKey, c.altNames, c.apiServiceIPs))
  /\ One(assets, tls("service-account.key"), PrivateKey("service-account"))
  /\ One(assets, tls("front-proxy-ca.crt"), SelfSigned("front-proxy"))
  /\ One(assets, tls("front-proxy-client.crt"), FrontProxyCert(c))
  /\ One(assets, tls("front-proxy-client.key"), PrivateKey("front-proxy-client"))
  /\ One(assets, tls("apiserver-kubelet-client.key"), PrivateKey("apiserver-kubelet-client"))
  /\ One(assets, tls("apiserver-kubelet-client.crt"), Cert("apiserver-kubelet-client", c.caKey, {}, {}))
  /\ One(assets, tls("service-account.pub"), PublicKey("service-account"))
  /\ One(assets, tls("admin.key"), PrivateKey("admin"))
  /\ One(assets, tls("admin.crt"), Cert("admin", c.caKey, {}, {}))

Credentials(c, assets) ==
  ClusterCredentials(c, assets) /\ (c.etcdUseTLS => EtcdCredentials(c, assets))

\* The kubeconfig holds the admin's certificate.
KubeConfigs(c, assets) ==
  One(assets, auth("kubeconfig"),
      [type |-> "kubeconfig", server |-> c.apiServers[1], ca |-> SelfSigned(c.caCertKey),
       cert |-> Cert("admin", c.caKey, {}, {}), key |-> PrivateKey("admin")])

\* A secret holds the files it is made from.
SecretIn(assets, name, files) ==
  \E d : /\ One(assets, name, [type |-> "secret", data |-> d])
         /\ DOMAIN d = files
         /\ \A f \in files : One(assets, tls(f), d[f])

Complete(c, assets) ==
  /\ Manifests(c, assets) /\ Credentials(c, assets) /\ KubeConfigs(c, assets)
  /\ SecretIn(assets, APISecretName, APIServerSecret(c))
  /\ SecretIn(assets, CMSecretName, ControllerManagerSecret)

Without(assets, names) == \A a \in assets : a.name \notin names

\* What is there at each step.
BuiltSoFar ==
  LET assets == Elems(as)
  IN  /\ pc \in {"validate", "config", "manifests"} => as = <<>>
      /\ pc = "tls" => assets = Elems(ManifestAssets(conf))
      /\ pc = "etcd" => /\ assets = Elems(ManifestAssets(conf)) \cup Elems(newTLSAssets(conf))
                        /\ conf.etcdUseTLS
      /\ pc \in {"kubeconfig", "apiserver secret", "controller manager secret", "write"} =>
           Manifests(conf, assets) /\ Credentials(conf, assets)
      /\ pc = "kubeconfig" => Without(assets, {auth("kubeconfig")})
      /\ pc \in {"apiserver secret", "controller manager secret", "write"} =>
           KubeConfigs(conf, assets)
      /\ pc \in {"kubeconfig", "apiserver secret"} => Without(assets, {APISecretName})
      /\ pc \in {"controller manager secret", "write"} =>
           SecretIn(assets, APISecretName, APIServerSecret(conf))
      /\ pc \in {"kubeconfig", "apiserver secret", "controller manager secret"} =>
           Without(assets, {CMSecretName})
      /\ pc = "write" => SecretIn(assets, CMSecretName, ControllerManagerSecret)

RenderInv ==
  /\ IsList(as)
  /\ result # "missing" /\ (result = "ok" => pc = "done")
  /\ BuiltSoFar
  /\ result = "ok" => Complete(conf, dir)

\* What the configuration was made from, why there is none, and whose the api
\* server's certificate is.
ConfigInv ==
  /\ renderOpts \in Options
  /\ pc = "config" => validateRenderOpts(renderOpts)
  /\ pc \in {"validate", "config"} => conf = NoConf
  /\ pc \in {"manifests", "tls", "etcd", "kubeconfig", "apiserver secret",
             "controller manager secret", "write"} => conf # NoConf
  /\ pc # "done" => dir = {}
  /\ conf # NoConf => FlagsAccepted(renderOpts) /\ conf = AssetConfig(renderOpts)
  /\ result = "ok" => conf # NoConf
  /\ /\ pc = "done" /\ conf = NoConf /\ validateRenderOpts(renderOpts)
     /\ renderOpts.ca \cup renderOpts.etcd = {}
     => ~FlagsAccepted(renderOpts)
  /\ \A a \in dir : a.name = tls("apiserver.crt") => a.data.ips = conf.apiServiceIPs

----------------------------------------------------------------------------
(***************************************************************************)
(* Lists of assets and what is found in them                               *)
(***************************************************************************)
\* Lists are put together by appending.
LEMMA Appended ==
  ASSUME NEW s, NEW t, IsList(s), IsList(t)
  PROVE  IsList(s \o t) /\ Elems(s \o t) = Elems(s) \cup Elems(t)
  <1> DEFINE S == Elems(s) \cup Elems(t)
  <1>1. s \in Seq(S) /\ t \in Seq(S)
    BY DEF IsList
  <1>2. s \o t \in Seq(S) /\ Len(s \o t) = Len(s) + Len(t)
    BY <1>1
  <1>3. \A i \in 1..Len(s) : (s \o t)[i] = s[i]
    BY <1>1
  <1>4. \A i \in 1..Len(t) : i + Len(s) \in 1..(Len(s) + Len(t)) /\ (s \o t)[i + Len(s)] = t[i]
    BY <1>1
  <1>5. \A i \in 1..(Len(s) + Len(t)) : i \in 1..Len(s) \/ (i - Len(s) \in 1..Len(t) /\ i = (i - Len(s)) + Len(s))
    BY <1>1
  <1>6. Elems(s \o t) \subseteq S
    BY <1>2, <1>3, <1>4, <1>5 DEF Elems
  <1>7. S \subseteq Elems(s \o t)
    <2>1. Elems(s) \subseteq Elems(s \o t)
      BY <1>1, <1>2, <1>3 DEF Elems
    <2>2. Elems(t) \subseteq Elems(s \o t)
      BY <1>1, <1>2, <1>4 DEF Elems
    <2> QED BY <2>1, <2>2
  <1> QED BY <1>2, <1>6, <1>7 DEF IsList

\* Of a list that is not written to its end, nothing else is on disk.
LEMMA Beginning ==
  ASSUME NEW s, IsList(s), NEW n \in 0..(Len(s) - 1)
  PROVE  {s[i] : i \in 1..n} \subseteq Elems(s)
  <1>1. Len(s) \in Nat
    BY DEF IsList
  <1>2. 1..n \subseteq 1..Len(s)
    BY <1>1
  <1> QED BY <1>2 DEF Elems

\* Get returns the one asset of a name.
LEMMA GetOne ==
  ASSUME NEW s, IsList(s), NEW name, NEW data, One(Elems(s), name, data)
  PROVE  Get(s, name) = data
  <1> DEFINE T == {i \in 1..Len(s) : s[i].name = name}
             First(i) == i \in 1..Len(s) /\ s[i].name = name /\ \A j \in 1..(i - 1) : s[j].name # name
  <1>1. Len(s) \in Nat
    BY DEF IsList
  <1>2. T # {} /\ T \subseteq Nat
    BY <1>1 DEF One, Elems, A
  <1>3. PICK i \in T : \A j \in T : ~(j < i)
    BY <1>2, LeastNumber
  <1>4. First(i)
    BY <1>1, <1>3
  <1>5. \A k \in 1..Len(s) : s[k].name = name => s[k].data = data
    BY DEF One, Elems
  <1> DEFINE k == CHOOSE k \in 1..Len(s) : /\ s[k].name = name
                                           /\ \A j \in 1..(k - 1) : s[j].name # name
  <1>6. k \in 1..Len(s) /\ s[k].name = name
    BY <1>4
  <1> QED BY <1>5, <1>6 DEF Get

\* So does a look at the directory.
LEMMA OnDiskOne ==
  ASSUME NEW name, NEW data, One(dir, name, data)
  PROVE  OnDisk(name) = data
  <1>1. \E a \in dir : a.name = name
    BY DEF One, A
  <1> QED BY <1>1 DEF OnDisk, One

\* Assets of other names make no difference.
LEMMA OneKept ==
  ASSUME NEW E, NEW F, NEW name, NEW data, One(E, name, data), Without(F, {name})
  PROVE  One(E \cup F, name, data)
  BY DEF One, Without

\* What the one asset of a name holds is determined.
LEMMA OneOnly ==
  ASSUME NEW E, NEW name, NEW d1, NEW d2, One(E, name, d1), One(E, name, d2)
  PROVE  d1 = d2
  BY DEF One, A

----------------------------------------------------------------------------
(***************************************************************************)
(* The lists of NewDefaultAssets                                           *)
(***************************************************************************)
\* The assets of a list that is written out.
LEMMA Elems1 ==
  ASSUME NEW a
  PROVE  IsList(<<a>>) /\ Elems(<<a>>) = {a}
  <1>1. Elems(<<a>>) = {a}
    BY DEF Elems
  <1> QED BY <1>1 DEF IsList

LEMMA Elems3 ==
  ASSUME NEW a, NEW b, NEW c
  PROVE  IsList(<<a, b, c>>) /\ Elems(<<a, b, c>>) = {a, b, c}
  <1>1. Elems(<<a, b, c>>) = {a, b, c}
    BY DEF Elems
  <1> QED BY <1>1 DEF IsList

LEMMA Elems4 ==
  ASSUME NEW a, NEW b, NEW c, NEW d
  PROVE  IsList(<<a, b, c, d>>) /\ Elems(<<a, b, c, d>>) = {a, b, c, d}
  <1>1. Elems(<<a, b, c, d>>) = {a, b, c, d}
    BY DEF Elems
  <1> QED BY <1>1 DEF IsList

LEMMA Elems6 ==
  ASSUME NEW a, NEW b, NEW c, NEW d, NEW e, NEW f
  PROVE  IsList(<<a, b, c, d, e, f>>) /\ Elems(<<a, b, c, d, e, f>>) = {a, b, c, d, e, f}
  <1>1. Elems(<<a, b, c, d, e, f>>) = {a, b, c, d, e, f}
    BY DEF Elems
  <1> QED BY <1>1 DEF IsList

LEMMA Elems8 ==
  ASSUME NEW a, NEW b, NEW c, NEW d, NEW e, NEW f, NEW g, NEW h
  PROVE  /\ IsList(<<a, b, c, d, e, f, g, h>>)
         /\ Elems(<<a, b, c, d, e, f, g, h>>) = {a, b, c, d, e, f, g, h}
  <1>1. Elems(<<a, b, c, d, e, f, g, h>>) = {a, b, c, d, e, f, g, h}
    BY DEF Elems
  <1> QED BY <1>1 DEF IsList

LEMMA Elems13 ==
  ASSUME NEW a, NEW b, NEW c, NEW d, NEW e, NEW f, NEW g, NEW h, NEW i, NEW j, NEW k, NEW l, NEW m
  PROVE  /\ IsList(<<a, b, c, d, e, f, g, h, i, j, k, l, m>>)
         /\ Elems(<<a, b, c, d, e, f, g, h, i, j, k, l, m>>) = {a, b, c, d, e, f, g, h, i, j, k, l, m}
  <1>1. Elems(<<a, b, c, d, e, f, g, h, i, j, k, l, m>>) = {a, b, c, d, e, f, g, h, i, j, k, l, m}
    BY DEF Elems
  <1> QED BY <1>1 DEF IsList

\* Names in different directories, or of different files, differ.
LEMMA NamesDiffer ==
  ASSUME NEW f, NEW g
  PROVE  /\ tls(f)[1] = "tls" /\ manifest(f)[1] = "manifests" /\ auth(f)[1] = "auth"
         /\ bootstrap(f)[1] = "bootstrap-manifests"
         /\ tls(f) = tls(g) <=> f = g
         /\ manifest(f) = manifest(g) <=> f = g
         /\ auth(f) = auth(g) <=> f = g
  BY DEF tls, manifest, auth, bootstrap

\* An asset has its name and its data.
LEMMA AssetFields ==
  ASSUME NEW name, NEW data
  PROVE  A(name, data).name = name /\ A(name, data).data = data
  BY DEF A

\* No asset in tls.
NoTLS(assets) == \A a \in assets : a.name[1] # "tls"

\* newStaticAssets and newDynamicAssets.
LEMMA ManifestFacts ==
  ASSUME NEW c
  PROVE  /\ IsList(ManifestAssets(c)) /\ Manifests(c, Elems(ManifestAssets(c)))
         /\ NoTLS(Elems(ManifestAssets(c)))
         /\ Without(Elems(ManifestAssets(c)), {auth("kubeconfig"), APISecretName, CMSecretName})
  <1> DEFINE M == Elems(ManifestAssets(c))
             Net == {"flannel-cfg.yaml", "calico.yaml", "calico-policy-only.yaml"}
  <1>1. IsList(ManifestAssets(c)) /\
        M = {A(manifest("kube-scheduler.yaml"), Reads({})),
             A(manifest("kube-controller-manager.yaml"), Reads(ControllerManagerFiles)),
             A(manifest("kube-apiserver.yaml"), Reads(APIServerFiles(c))),
             A(manifest("coredns-service.yaml"), [type |-> "service", ips |-> c.dnsServiceIPs]),
             A(bootstrap("bootstrap-apiserver.yaml"), Reads(APIServerFiles(c))),
             A(bootstrap("bootstrap-controller-manager.yaml"),
               Reads(ControllerManagerFiles \cup {"kubeconfig"})),
             A(bootstrap("bootstrap-scheduler.yaml"), Reads({"kubeconfig"})),
             NetworkAsset(c)}
    BY Elems8 DEF ManifestAssets
  <1> HIDE DEF M
  <1>2. \E f \in Net : NetworkAsset(c).name = manifest(f)
    BY AssetFields DEF NetworkAsset
  <1>3. \A f : manifest(f)[1] = "manifests" /\ bootstrap(f)[1] = "bootstrap-manifests"
               /\ auth(f)[1] = "auth"
    BY NamesDiffer
  <1>4. \A a \in M : a.name[1] \in {"manifests", "bootstrap-manifests"}
    BY <1>1, <1>2, <1>3, AssetFields
  <1>5. \A f, g : manifest(f) = manifest(g) <=> f = g
    BY NamesDiffer
  <1>6. \A a \in M : a.name[1] = "manifests" =>
          \/ a = A(manifest("kube-controller-manager.yaml"), Reads(ControllerManagerFiles))
          \/ a = A(manifest("kube-apiserver.yaml"), Reads(APIServerFiles(c)))
          \/ \E f \in Net \cup {"kube-scheduler.yaml", "coredns-service.yaml"} : a.name = manifest(f)
    BY <1>1, <1>2, <1>3, AssetFields
  <1>7. One(M, manifest("kube-apiserver.yaml"), Reads(APIServerFiles(c)))
    BY <1>1, <1>3, <1>5, <1>6, AssetFields DEF One
  <1>8. One(M, manifest("kube-controller-manager.yaml"), Reads(ControllerManagerFiles))
    BY <1>1, <1>3, <1>5, <1>6, AssetFields DEF One
  <1>9. \A a \in M : a.name[1] = "bootstrap-manifests" =>
          a.data.files \subseteq APIServerFiles(c) \cup ControllerManagerFiles \cup {"kubeconfig"}
    <2>1. \A files : Reads(files).files = files
      BY DEF Reads
    <2> QED BY <1>1, <1>2, <1>3, <2>1, AssetFields
  <1>10. Without(M, {auth("kubeconfig"), APISecretName, CMSecretName})
    <2>1. \A f \in Net \cup {"kube-scheduler.yaml", "coredns-service.yaml", "kube-apiserver.yaml",
                            "kube-controller-manager.yaml"} :
            manifest(f) # APISecretName /\ manifest(f) # CMSecretName
      BY <1>5 DEF APISecretName, CMSecretName
    <2> QED BY <1>3, <1>4, <1>6, <2>1, AssetFields DEF Without, APISecretName, CMSecretName
  <1> QED BY <1>1, <1>4, <1>7, <1>8, <1>9, <1>10 DEF M, Manifests, NoTLS

TLSFiles == {"ca.key", "ca.crt", "apiserver.key", "apiserver.crt", "service-account.key",
  "front-proxy-ca.crt", "front-proxy-client.crt", "front-proxy-client.key",
  "apiserver-kubelet-client.key", "apiserver-kubelet-client.crt", "service-account.pub",
  "admin.key", "admin.crt"}

\* newTLSAssets.
LEMMA TLSFacts ==
  ASSUME NEW c
  PROVE  /\ IsList(newTLSAssets(c)) /\ ClusterCredentials(c, Elems(newTLSAssets(c)))
         /\ \A a \in Elems(newTLSAssets(c)) : \E f \in TLSFiles : a.name = tls(f)
  <1> DEFINE T == Elems(newTLSAssets(c))
  <1>1. IsList(newTLSAssets(c)) /\
        T = {A(tls("ca.key"), PrivateKey(c.caKey)),
             A(tls("ca.crt"), SelfSigned(c.caCertKey)),
             A(tls("apiserver.key"), PrivateKey("apiserver")),
             A(tls("apiserver.crt"), Cert("apiserver", c.caKey, c.altNames, c.apiServiceIPs)),
             A(tls("service-account.key"), PrivateKey("service-account")),
             A(tls("front-proxy-ca.crt"), SelfSigned("front-proxy")),
             A(tls("front-proxy-client.crt"), FrontProxyCert(c)),
             A(tls("front-proxy-client.key"), PrivateKey("front-proxy-client")),
             A(tls("apiserver-kubelet-client.key"), PrivateKey("apiserver-kubelet-client")),
             A(tls("apiserver-kubelet-client.crt"), Cert("apiserver-kubelet-client", c.caKey, {}, {})),
             A(tls("service-account.pub"), PublicKey("service-account")),
             A(tls("admin.key"), PrivateKey("admin")),
             A(tls("admin.crt"), Cert("admin", c.caKey, {}, {}))}
    BY Elems13 DEF newTLSAssets
  <1> HIDE DEF T
  <1>2. \A f, g : tls(f) = tls(g) <=> f = g
    BY NamesDiffer
  <1>3. \A a \in T : \E f \in TLSFiles : a.name = tls(f)
    BY <1>1, AssetFields DEF TLSFiles
  <1>4. ClusterCredentials(c, T)
    BY <1>1, <1>2, AssetFields DEF ClusterCredentials, One
  <1> QED BY <1>1, <1>3, <1>4 DEF T

EtcdFiles == {"etcd/peer-ca.crt", "etcd/peer.key", "etcd/peer.crt", "etcd/server-ca.crt",
  "etcd/server.key", "etcd/server.crt", "etcd-client-ca.crt", "etcd-client.key", "etcd-client.crt"}

\* newEtcdTLSAssets, with certificates of the user's or of its own.
LEMMA EtcdFacts ==
  ASSUME NEW c
  PROVE  /\ IsList(newEtcdTLSAssets(c)) /\ EtcdCredentials(c, Elems(newEtcdTLSAssets(c)))
         /\ \A a \in Elems(newEtcdTLSAssets(c)) : \E f \in EtcdFiles : a.name = tls(f)
  <1> DEFINE generated == IF c.etcdCACert THEN <<>> ELSE
               <<A(tls("etcd/peer-ca.crt"), EtcdCA(c)),
                 A(tls("etcd/peer.key"), EtcdKeyAndCert(c, "etcd-peer")[1]),
                 A(tls("etcd/peer.crt"), EtcdKeyAndCert(c, "etcd-peer")[2]),
                 A(tls("etcd/server-ca.crt"), EtcdCA(c)),
                 A(tls("etcd/server.key"), EtcdKeyAndCert(c, "etcd-server")[1]),
                 A(tls("etcd/server.crt"), EtcdKeyAndCert(c, "etcd-server")[2])>>
             client == <<A(tls("etcd-client-ca.crt"), EtcdCA(c)),
                         A(tls("etcd-client.key"), EtcdClientKey(c)),
                         A(tls("etcd-client.crt"), EtcdClientCert(c))>>
  <1>1. newEtcdTLSAssets(c) = generated \o client
    BY DEF newEtcdTLSAssets, EtcdKeyAndCert, EtcdCA, EtcdClientKey, EtcdClientCert
  <1>2. IsList(generated) /\ \A a \in Elems(generated) :
          \E f \in EtcdFiles \ EtcdClientFiles : a.name = tls(f)
    <2>1. CASE c.etcdCACert
      <3>1. generated = <<>>
        BY <2>1
      <3>2. IsList(<<>>) /\ Elems(<<>>) = {}
        BY DEF IsList, Elems
      <3> QED BY <3>1, <3>2
    <2>2. CASE ~c.etcdCACert
      <3> DEFINE six == {A(tls("etcd/peer-ca.crt"), EtcdCA(c)),
                 A(tls("etcd/peer.key"), EtcdKeyAndCert(c, "etcd-peer")[1]),
                 A(tls("etcd/peer.crt"), EtcdKeyAndCert(c, "etcd-peer")[2]),
                 A(tls("etcd/server-ca.crt"), EtcdCA(c)),
                 A(tls("etcd/server.key"), EtcdKeyAndCert(c, "etcd-server")[1]),
                 A(tls("etcd/server.crt"), EtcdKeyAndCert(c, "etcd-server")[2])}
      <3>1. IsList(generated) /\ Elems(generated) = six
        BY <2>2, Elems6
      <3>2. \A a \in six : \E f \in EtcdFiles \ EtcdClientFiles : a.name = tls(f)
        BY AssetFields DEF EtcdFiles, EtcdClientFiles
      <3> QED BY <3>1, <3>2
    <2> QED BY <2>1, <2>2
  <1>3. IsList(client) /\
        Elems(client) = {A(tls("etcd-client-ca.crt"), EtcdCA(c)),
                         A(tls("etcd-client.key"), EtcdClientKey(c)),
                         A(tls("etcd-client.crt"), EtcdClientCert(c))}
    BY Elems3
  <1> HIDE DEF generated, client
  <1>4. /\ IsList(newEtcdTLSAssets(c))
        /\ Elems(newEtcdTLSAssets(c)) = Elems(generated) \cup Elems(client)
    BY <1>1, <1>2, <1>3, Appended
  <1>5. \A f, g : tls(f) = tls(g) <=> f = g
    BY NamesDiffer
  <1>6. \A a \in Elems(newEtcdTLSAssets(c)) : \E f \in EtcdFiles : a.name = tls(f)
    BY <1>2, <1>3, <1>4, AssetFields DEF EtcdFiles
  <1>7. Without(Elems(generated), {tls(f) : f \in EtcdClientFiles})
    BY <1>2, <1>5 DEF Without
  <1>8. /\ One(Elems(newEtcdTLSAssets(c)), tls("etcd-client-ca.crt"), EtcdCA(c))
        /\ One(Elems(newEtcdTLSAssets(c)), tls("etcd-client.key"), EtcdClientKey(c))
        /\ One(Elems(newEtcdTLSAssets(c)), tls("etcd-client.crt"), EtcdClientCert(c))
    BY <1>3, <1>4, <1>5, <1>7, AssetFields DEF One, Without, EtcdClientFiles
  <1> QED BY <1>4, <1>6, <1>8 DEF EtcdCredentials

\* The files that secrets and kubeconfigs are made from, and that manifests name.
LEMMA FilesThere ==
  ASSUME NEW c, NEW assets, Credentials(c, assets),
         NEW f \in APIServerFiles(c) \cup ControllerManagerFiles \cup KubeConfigNeeds
  PROVE  \E d : One(assets, tls(f), d)
  <1>1. CASE f \in TLSFiles
    BY <1>1 DEF Credentials, ClusterCredentials, TLSFiles
  <1>2. CASE f \in EtcdClientFiles /\ c.etcdUseTLS
    <2>1. EtcdCredentials(c, assets)
      BY <1>2 DEF Credentials
    <2> QED BY <1>2, <2>1 DEF EtcdCredentials, EtcdClientFiles
  <1>3. APIServerFiles(c) \cup ControllerManagerFiles \cup KubeConfigNeeds
          \subseteq TLSFiles \cup (IF c.etcdUseTLS THEN EtcdClientFiles ELSE {})
    BY DEF APIServerFiles, ControllerManagerFiles, KubeConfigNeeds, TLSFiles
  <1> QED BY <1>1, <1>2, <1>3

\* Once the etcd list is there, or is not needed, everything that later lists
\* ask for is.
LEMMA BaseFacts ==
  ASSUME NEW c, NEW assets,
         assets = Elems(ManifestAssets(c)) \cup Elems(newTLSAssets(c))
                    \cup (IF c.etcdUseTLS THEN Elems(newEtcdTLSAssets(c)) ELSE {})
  PROVE  /\ Manifests(c, assets) /\ Credentials(c, assets)
         /\ Without(assets, {auth("kubeconfig"), APISecretName, CMSecretName})
  <1> DEFINE M == Elems(ManifestAssets(c))
             T == Elems(newTLSAssets(c))
             E == IF c.etcdUseTLS THEN Elems(newEtcdTLSAssets(c)) ELSE {}
  <1>1. assets = M \cup T \cup E
    OBVIOUS
  <1>2. /\ Manifests(c, M) /\ NoTLS(M)
        /\ Without(M, {auth("kubeconfig"), APISecretName, CMSecretName})
    BY ManifestFacts
  <1>3. ClusterCredentials(c, T) /\ \A a \in T : \E f \in TLSFiles : a.name = tls(f)
    BY TLSFacts
  <1>4. (c.etcdUseTLS => EtcdCredentials(c, E)) /\ \A a \in E : \E f \in EtcdFiles : a.name = tls(f)
    BY EtcdFacts
  <1> HIDE DEF M, T, E
  <1>5. \A f, g : tls(f)[1] = "tls" /\ (tls(f) = tls(g) <=> f = g)
    BY NamesDiffer
  <1>6. \A a \in T \cup E : a.name[1] = "tls"
    BY <1>3, <1>4, <1>5
  <1>7. /\ manifest("kube-apiserver.yaml")[1] # "tls" /\ manifest("kube-controller-manager.yaml")[1] # "tls"
        /\ auth("kubeconfig")[1] # "tls" /\ APISecretName[1] # "tls" /\ CMSecretName[1] # "tls"
    BY NamesDiffer DEF APISecretName, CMSecretName
  <1>8. Manifests(c, assets)
    BY <1>1, <1>2, <1>6, <1>7 DEF Manifests, One
  <1>9. Without(assets, {auth("kubeconfig"), APISecretName, CMSecretName})
    BY <1>1, <1>2, <1>6, <1>7 DEF Without
  <1>10. ASSUME NEW f \in TLSFiles, NEW d, One(T, tls(f), d)
         PROVE  One(assets, tls(f), d)
    <2>1. f \notin EtcdFiles
      BY DEF TLSFiles, EtcdFiles
    <2>2. Without(M \cup E, {tls(f)})
      BY <1>2, <1>4, <1>5, <2>1 DEF Without, NoTLS
    <2>3. One(T \cup (M \cup E), tls(f), d)
      BY <1>10, <2>2, OneKept
    <2>4. T \cup (M \cup E) = assets
      BY <1>1
    <2> QED BY <2>3, <2>4
  <1>11. ClusterCredentials(c, assets)
    BY <1>3, <1>10 DEF ClusterCredentials, TLSFiles
  <1>12. ASSUME NEW f \in EtcdFiles, NEW d, One(E, tls(f), d)
         PROVE  One(assets, tls(f), d)
    <2>1. f \notin TLSFiles
      BY DEF TLSFiles, EtcdFiles
    <2>2. Without(M \cup T, {tls(f)})
      BY <1>2, <1>3, <1>5, <2>1 DEF Without, NoTLS
    <2>3. One(E \cup (M \cup T), tls(f), d)
      BY <1>12, <2>2, OneKept
    <2>4. E \cup (M \cup T) = assets
      BY <1>1
    <2> QED BY <2>3, <2>4
  <1>13. c.etcdUseTLS => EtcdCredentials(c, assets)
    <2>1. "etcd-client-ca.crt" \in EtcdFiles /\ "etcd-client.key" \in EtcdFiles /\ "etcd-client.crt" \in EtcdFiles
      BY DEF EtcdFiles
    <2> QED BY <1>4, <1>12, <2>1 DEF EtcdCredentials
  <1> QED BY <1>8, <1>9, <1>11, <1>13 DEF Credentials

LaterNames == {auth("kubeconfig"), auth("kubeconfig-kubelet"), manifest("kubeconfig-in-cluster.yaml"),
               manifest("kubelet-bootstrap-token.yaml"), APISecretName, CMSecretName}

\* The lists that are made from others take no name away from them.
LEMMA LaterKept ==
  ASSUME NEW c, NEW E, NEW F, Manifests(c, E), Credentials(c, E),
         \A a \in F : a.name \in LaterNames
  PROVE  /\ Manifests(c, E \cup F) /\ Credentials(c, E \cup F)
         /\ \A name, files : SecretIn(E, name, files) /\ Without(F, {name}) => SecretIn(E \cup F, name, files)
  <1>1. \A n \in LaterNames : /\ n[1] \in {"auth", "manifests"}
                              /\ n # manifest("kube-apiserver.yaml")
                              /\ n # manifest("kube-controller-manager.yaml")
    BY NamesDiffer DEF LaterNames, APISecretName, CMSecretName
  <1>2. Manifests(c, E \cup F)
    BY <1>1 DEF Manifests, One
  <1>3. ASSUME NEW f, NEW d, One(E, tls(f), d)
        PROVE  One(E \cup F, tls(f), d)
    <2>1. Without(F, {tls(f)})
      BY <1>1, NamesDiffer DEF Without
    <2> QED BY <1>3, <2>1, OneKept
  <1>4. ClusterCredentials(c, E \cup F)
    BY <1>3 DEF Credentials, ClusterCredentials
  <1>5. c.etcdUseTLS => EtcdCredentials(c, E \cup F)
    BY <1>3 DEF Credentials, EtcdCredentials
  <1>6. ASSUME NEW name, NEW files, SecretIn(E, name, files), Without(F, {name})
        PROVE  SecretIn(E \cup F, name, files)
    <2>1. PICK d : /\ One(E, name, [type |-> "secret", data |-> d])
                   /\ DOMAIN d = files
                   /\ \A f \in files : One(E, tls(f), d[f])
      BY <1>6 DEF SecretIn
    <2>2. One(E \cup F, name, [type |-> "secret", data |-> d])
      BY <1>6, <2>1, OneKept
    <2> QED BY <1>3, <2>1, <2>2 DEF SecretIn
  <1> QED BY <1>2, <1>4, <1>5, <1>6 DEF Credentials

\* secretFromAssets: each file of a secret is the one of its name.
LEMMA SecretMade ==
  ASSUME NEW s, IsList(s), NEW files, NEW name, name \in LaterNames, Without(Elems(s), {name}),
         \A f \in files : \E d : One(Elems(s), tls(f), d)
  PROVE  SecretIn(Elems(s) \cup {A(name, secretFromAssets(files, s))}, name, files)
  <1> DEFINE d == [f \in files |-> Get(s, tls(f))]
             F == {A(name, secretFromAssets(files, s))}
  <1>1. secretFromAssets(files, s) = [type |-> "secret", data |-> d] /\ DOMAIN d = files
    BY DEF secretFromAssets
  <1>2. One(Elems(s) \cup F, name, secretFromAssets(files, s))
    BY AssetFields DEF One, Without
  <1>3. ASSUME NEW f \in files PROVE One(Elems(s) \cup F, tls(f), d[f])
    <2>1. One(Elems(s), tls(f), d[f])
      BY GetOne
    <2>2. tls(f) # name
      <3>1. \A n \in LaterNames : n[1] # "tls"
        BY NamesDiffer DEF LaterNames, APISecretName, CMSecretName
      <3>2. tls(f)[1] = "tls"
        BY NamesDiffer
      <3> QED BY <3>1, <3>2
    <2>3. Without(F, {tls(f)})
      BY <2>2, AssetFields DEF Without
    <2> QED BY <2>1, <2>3, OneKept
  <1> HIDE DEF d, F
  <1>4. SecretIn(Elems(s) \cup F, name, files)
    BY <1>1, <1>2, <1>3 DEF SecretIn
  <1> QED BY <1>4 DEF F

----------------------------------------------------------------------------
(***************************************************************************)
(* The inductive invariant                                                 *)
(***************************************************************************)
LEMMA InitRenderInv == Init => RenderInv
  <1> SUFFICES ASSUME Init PROVE RenderInv OBVIOUS
  <1>1. as = <<>> /\ pc = "validate" /\ result = "none"
    BY DEF Init
  <1>2. IsList(as)
    BY <1>1 DEF IsList, Elems
  <1> QED BY <1>1, <1>2 DEF RenderInv, BuiltSoFar

\* The steps that build nothing, and the errors.
LEMMA OtherSteps ==
  ASSUME RenderInv,
         ValidateOpts \/ RejectOpts \/ FlagsToAssetConfig \/ RejectFlags \/ UnreadableFiles
           \/ GenerationFails \/ WriteFilesFails
  PROVE  RenderInv'
  <1>1. /\ as' = as
        /\ \/ pc \in {"validate", "config"} /\ pc' \in {"config", "manifests"} /\ result' = result
           \/ pc' = "done" /\ result' = "error"
    BY DEF ValidateOpts, RejectOpts, FlagsToAssetConfig, RejectFlags, UnreadableFiles, GenerationFails,
           WriteFilesFails, Goto, Return
  <1>2. IsList(as')
    BY <1>1 DEF RenderInv
  <1>3. BuiltSoFar'
    BY <1>1 DEF RenderInv, BuiltSoFar
  <1> QED BY <1>1, <1>2, <1>3 DEF RenderInv

\* The lists that are made from nothing but the configuration.
LEMMA FirstLists ==
  ASSUME RenderInv, NewManifestAssets \/ NewTLSAssets \/ NewEtcdTLSAssets
  PROVE  RenderInv'
  <1>1. conf' = conf /\ result' = result /\ dir' = dir /\ result # "ok" /\ result # "missing" /\ IsList(as)
    BY DEF RenderInv, NewManifestAssets, NewTLSAssets, NewEtcdTLSAssets, Add, Goto
  <1>2. CASE NewManifestAssets
    <2>1. as' = as \o ManifestAssets(conf) /\ pc' = "tls" /\ Elems(as) = {}
      BY <1>2 DEF NewManifestAssets, Add, Goto, RenderInv, BuiltSoFar, Elems
    <2>2. IsList(as') /\ Elems(as') = {} \cup Elems(ManifestAssets(conf))
      BY <1>1, <2>1, ManifestFacts, Appended
    <2>3. Elems(as') = Elems(ManifestAssets(conf))
      BY <2>2
    <2> QED BY <1>1, <2>1, <2>2, <2>3 DEF RenderInv, BuiltSoFar
  <1>3. CASE NewTLSAssets
    <2>1. /\ as' = as \o newTLSAssets(conf) /\ Elems(as) = Elems(ManifestAssets(conf))
          /\ pc' = IF conf.etcdUseTLS THEN "etcd" ELSE "kubeconfig"
      BY <1>3 DEF NewTLSAssets, Add, Goto, RenderInv, BuiltSoFar
    <2>2. IsList(as') /\ Elems(as') = Elems(ManifestAssets(conf)) \cup Elems(newTLSAssets(conf))
      BY <1>1, <2>1, TLSFacts, Appended
    <2>3. CASE conf.etcdUseTLS
      BY <1>1, <2>1, <2>2, <2>3 DEF RenderInv, BuiltSoFar
    <2>4. CASE ~conf.etcdUseTLS
      <3>1. pc' = "kubeconfig"
        BY <2>1, <2>4
      <3>2. /\ Manifests(conf, Elems(as')) /\ Credentials(conf, Elems(as'))
            /\ Without(Elems(as'), {auth("kubeconfig"), APISecretName, CMSecretName})
        BY <2>2, <2>4, BaseFacts
      <3> QED BY <1>1, <2>2, <3>1, <3>2 DEF RenderInv, BuiltSoFar, Without
    <2> QED BY <2>3, <2>4
  <1>4. CASE NewEtcdTLSAssets
    <2>1. /\ as' = as \o newEtcdTLSAssets(conf) /\ pc' = "kubeconfig" /\ conf.etcdUseTLS
          /\ Elems(as) = Elems(ManifestAssets(conf)) \cup Elems(newTLSAssets(conf))
      BY <1>4 DEF NewEtcdTLSAssets, Add, Goto, RenderInv, BuiltSoFar
    <2>2. IsList(as') /\ Elems(as') = Elems(as) \cup Elems(newEtcdTLSAssets(conf))
      BY <1>1, <2>1, EtcdFacts, Appended
    <2>3. /\ Manifests(conf, Elems(as')) /\ Credentials(conf, Elems(as'))
          /\ Without(Elems(as'), {auth("kubeconfig"), APISecretName, CMSecretName})
      BY <2>1, <2>2, BaseFacts
    <2> QED BY <1>1, <2>1, <2>2, <2>3 DEF RenderInv, BuiltSoFar, Without
  <1> QED BY <1>2, <1>3, <1>4

\* A list made from files that are there.
LEMMA NothingMissing ==
  ASSUME RenderInv, NEW files, NEW assets, NEW next, AddFrom(files, assets, next),
         files \subseteq APIServerFiles(conf) \cup ControllerManagerFiles \cup KubeConfigNeeds,
         Credentials(conf, Elems(as)), IsList(assets)
  PROVE  /\ \A f \in files : \E d : One(Elems(as), tls(f), d)
         /\ pc' = next /\ conf' = conf /\ result' = result /\ dir' = dir
         /\ IsList(as') /\ Elems(as') = Elems(as) \cup Elems(assets)
  <1>1. \A f \in files : \E d : One(Elems(as), tls(f), d)
    BY FilesThere
  <1>2. \A f \in files : tls(f) \in Names(as)
    <2> SUFFICES ASSUME NEW f \in files PROVE tls(f) \in Names(as) OBVIOUS
    <2>1. PICK d : A(tls(f), d) \in Elems(as)
      BY <1>1 DEF One
    <2>2. PICK i \in 1..Len(as) : as[i] = A(tls(f), d)
      BY <2>1 DEF Elems
    <2>3. A(tls(f), d).name = tls(f)
      BY AssetFields
    <2>4. as[i].name = tls(f)
      BY <2>2, <2>3
    <2> QED BY <2>4 DEF Names
  <1>3. Add(assets, next)
    BY <1>2 DEF AddFrom
  <1>4. as' = as \o assets /\ IsList(as)
    BY <1>3 DEF Add, RenderInv
  <1> QED BY <1>1, <1>3, <1>4, Appended DEF Add, Goto

\* The kubeconfigs.
LEMMA KubeConfigStep ==
  ASSUME RenderInv, NewKubeConfigAssets
  PROVE  RenderInv'
  <1> DEFINE data == [type |-> "kubeconfig", server |-> conf.apiServers[1], ca |-> SelfSigned(conf.caCertKey),
                      cert |-> Cert("admin", conf.caKey, {}, {}), key |-> PrivateKey("admin")]
             new == newKubeConfigAssets(conf, as)
  <1>1. /\ pc = "kubeconfig" /\ AddFrom(KubeConfigNeeds, new, "apiserver secret") /\ IsList(as)
        /\ Manifests(conf, Elems(as)) /\ Credentials(conf, Elems(as))
        /\ Without(Elems(as), {auth("kubeconfig")})
        /\ Without(Elems(as), {APISecretName}) /\ Without(Elems(as), {CMSecretName})
    BY DEF NewKubeConfigAssets, RenderInv, BuiltSoFar
  <1>2. /\ Get(as, tls("ca.crt")) = SelfSigned(conf.caCertKey)
        /\ Get(as, tls("admin.crt")) = Cert("admin", conf.caKey, {}, {})
        /\ Get(as, tls("admin.key")) = PrivateKey("admin")
    BY <1>1, GetOne DEF Credentials, ClusterCredentials
  <1>0. new =
          <<A(auth("kubeconfig"), data),
            A(manifest("kubeconfig-in-cluster.yaml"), [type |-> "kubeconfig", server |-> data.server]),
            A(auth("kubeconfig-kubelet"), [type |-> "kubeconfig", server |-> data.server, ca |-> data.ca]),
            A(manifest("kubelet-bootstrap-token.yaml"), [type |-> "token"])>>
    BY <1>2, Zenon DEF newKubeConfigAssets
  <1>3. IsList(new) /\ Elems(new) =
          {A(auth("kubeconfig"), data),
           A(manifest("kubeconfig-in-cluster.yaml"), [type |-> "kubeconfig", server |-> data.server]),
           A(auth("kubeconfig-kubelet"), [type |-> "kubeconfig", server |-> data.server, ca |-> data.ca]),
           A(manifest("kubelet-bootstrap-token.yaml"), [type |-> "token"])}
    BY <1>0, Elems4
  <1> HIDE DEF data, new
  <1>4. /\ pc' = "apiserver secret" /\ conf' = conf /\ result' = result /\ dir' = dir
        /\ IsList(as') /\ Elems(as') = Elems(as) \cup Elems(new)
    BY <1>1, <1>3, NothingMissing
  <1>5. \A a \in Elems(new) : a.name \in LaterNames
    BY <1>3, AssetFields DEF LaterNames
  <1>6. Without(Elems(new), {APISecretName}) /\ Without(Elems(new), {CMSecretName})
    BY <1>3, AssetFields, NamesDiffer DEF Without, APISecretName, CMSecretName
  <1>7. Manifests(conf, Elems(as')) /\ Credentials(conf, Elems(as'))
    <2>1. /\ Manifests(conf, Elems(as) \cup Elems(new))
          /\ Credentials(conf, Elems(as) \cup Elems(new))
      BY <1>1, <1>5, LaterKept, Zenon
    <2> QED BY <1>4, <2>1, Zenon
  <1>8. One(Elems(as'), auth("kubeconfig"), data)
    <2>1. A(auth("kubeconfig"), data) \in Elems(as')
      BY <1>3, <1>4
    <2>2. \A a \in Elems(as) : a.name # auth("kubeconfig")
      BY <1>1 DEF Without
    <2>3. /\ auth("kubeconfig-kubelet") # auth("kubeconfig")
          /\ \A f : manifest(f) # auth("kubeconfig")
      BY NamesDiffer
    <2>4. \A a \in Elems(new) : a.name = auth("kubeconfig") => a = A(auth("kubeconfig"), data)
      BY <1>3, <2>3, AssetFields
    <2>5. A(auth("kubeconfig"), data).data = data
      BY AssetFields
    <2>6. \A a \in Elems(as') : a \in Elems(as) \/ a \in Elems(new)
      BY <1>4
    <2>7. \A a \in Elems(as') : a.name = auth("kubeconfig") => a.data = data
      BY <2>2, <2>4, <2>5, <2>6
    <2> QED BY <2>1, <2>7, Zenon DEF One
  <1>9. KubeConfigs(conf, Elems(as'))
    BY <1>8 DEF KubeConfigs, data
  <1>10. Without(Elems(as'), {APISecretName}) /\ Without(Elems(as'), {CMSecretName})
    BY <1>1, <1>4, <1>6 DEF Without
  <1> QED BY <1>1, <1>4, <1>7, <1>9, <1>10 DEF RenderInv, BuiltSoFar

\* The api server's secret.
LEMMA APIServerSecretStep ==
  ASSUME RenderInv, NewAPIServerSecretAsset
  PROVE  RenderInv'
  <1> DEFINE new == A(APISecretName, secretFromAssets(APIServerSecret(conf), as))
  <1>1. /\ pc = "apiserver secret" /\ IsList(as)
        /\ AddFrom(APIServerSecret(conf), <<new>>, "controller manager secret")
        /\ Manifests(conf, Elems(as)) /\ Credentials(conf, Elems(as)) /\ KubeConfigs(conf, Elems(as))
        /\ Without(Elems(as), {APISecretName}) /\ Without(Elems(as), {CMSecretName})
    BY DEF NewAPIServerSecretAsset, RenderInv, BuiltSoFar, APISecretName
  <1>2. APIServerSecret(conf) \subseteq APIServerFiles(conf)
    BY DEF APIServerSecret, APIServerFiles
  <1>3. IsList(<<new>>) /\ Elems(<<new>>) = {new}
    BY Elems1
  <1>4. /\ \A f \in APIServerSecret(conf) : \E d : One(Elems(as), tls(f), d)
        /\ pc' = "controller manager secret" /\ conf' = conf /\ result' = result /\ dir' = dir
        /\ IsList(as') /\ Elems(as') = Elems(as) \cup {new}
    BY <1>1, <1>2, <1>3, NothingMissing
  <1>5. SecretIn(Elems(as'), APISecretName, APIServerSecret(conf))
    BY <1>1, <1>4, SecretMade DEF LaterNames
  <1>6. new.name = APISecretName
    BY AssetFields
  <1> HIDE DEF new
  <1>7. Manifests(conf, Elems(as')) /\ Credentials(conf, Elems(as'))
    <2>1. \A a \in {new} : a.name \in LaterNames
      BY <1>6 DEF LaterNames
    <2>2. Manifests(conf, Elems(as) \cup {new}) /\ Credentials(conf, Elems(as) \cup {new})
      BY <1>1, <2>1, LaterKept, Zenon
    <2> QED BY <1>4, <2>2, Zenon
  <1>8. KubeConfigs(conf, Elems(as')) /\ Without(Elems(as'), {CMSecretName})
    <2>1. APISecretName # auth("kubeconfig") /\ APISecretName # CMSecretName
      BY NamesDiffer DEF APISecretName, CMSecretName
    <2>2. Without({new}, {auth("kubeconfig")}) /\ Without({new}, {CMSecretName})
      BY <1>6, <2>1 DEF Without
    <2>3. KubeConfigs(conf, Elems(as) \cup {new})
      BY <1>1, <2>2, OneKept, Zenon DEF KubeConfigs
    <2>4. Without(Elems(as) \cup {new}, {CMSecretName})
      BY <1>1, <2>2 DEF Without
    <2> QED BY <1>4, <2>3, <2>4, Zenon
  <1> QED BY <1>1, <1>4, <1>5, <1>7, <1>8 DEF RenderInv, BuiltSoFar

\* The controller manager's secret.
LEMMA ControllerManagerSecretStep ==
  ASSUME RenderInv, NewControllerManagerSecretAsset
  PROVE  RenderInv'
  <1> DEFINE new == A(CMSecretName, secretFromAssets(ControllerManagerSecret, as))
  <1>1. /\ pc = "controller manager secret" /\ IsList(as)
        /\ AddFrom(ControllerManagerSecret, <<new>>, "write")
        /\ Manifests(conf, Elems(as)) /\ Credentials(conf, Elems(as)) /\ KubeConfigs(conf, Elems(as))
        /\ SecretIn(Elems(as), APISecretName, APIServerSecret(conf)) /\ Without(Elems(as), {CMSecretName})
    BY DEF NewControllerManagerSecretAsset, RenderInv, BuiltSoFar, CMSecretName
  <1>2. ControllerManagerSecret \subseteq ControllerManagerFiles
    BY DEF ControllerManagerSecret, ControllerManagerFiles
  <1>3. IsList(<<new>>) /\ Elems(<<new>>) = {new}
    BY Elems1
  <1>4. /\ \A f \in ControllerManagerSecret : \E d : One(Elems(as), tls(f), d)
        /\ pc' = "write" /\ conf' = conf /\ result' = result /\ dir' = dir
        /\ IsList(as') /\ Elems(as') = Elems(as) \cup {new}
    BY <1>1, <1>2, <1>3, NothingMissing
  <1>5. SecretIn(Elems(as'), CMSecretName, ControllerManagerSecret)
    BY <1>1, <1>4, SecretMade DEF LaterNames
  <1>6. new.name = CMSecretName /\ CMSecretName # APISecretName
    BY AssetFields, NamesDiffer DEF CMSecretName, APISecretName
  <1> HIDE DEF new
  <1>7. /\ Manifests(conf, Elems(as')) /\ Credentials(conf, Elems(as'))
        /\ SecretIn(Elems(as'), APISecretName, APIServerSecret(conf))
    <2>1. Without({new}, {APISecretName}) /\ \A a \in {new} : a.name \in LaterNames
      BY <1>6 DEF Without, LaterNames
    <2>2. /\ Manifests(conf, Elems(as) \cup {new}) /\ Credentials(conf, Elems(as) \cup {new})
          /\ SecretIn(Elems(as) \cup {new}, APISecretName, APIServerSecret(conf))
      BY <1>1, <2>1, LaterKept, Zenon
    <2> QED BY <1>4, <2>2, Zenon
  <1>8. KubeConfigs(conf, Elems(as'))
    <2>1. CMSecretName # auth("kubeconfig")
      BY NamesDiffer DEF CMSecretName
    <2>2. Without({new}, {auth("kubeconfig")})
      BY <1>6, <2>1 DEF Without
    <2>3. KubeConfigs(conf, Elems(as) \cup {new})
      BY <1>1, <2>2, OneKept, Zenon DEF KubeConfigs
    <2> QED BY <1>4, <2>3, Zenon
  <1> QED BY <1>1, <1>4, <1>5, <1>7, <1>8 DEF RenderInv, BuiltSoFar

\* All is written.
LEMMA WriteStep ==
  ASSUME RenderInv, WriteFiles
  PROVE  RenderInv'
  <1>1. pc = "write" /\ pc' = "done" /\ result' = "ok" /\ conf' = conf /\ as' = as /\ dir' = Elems(as)
    BY DEF WriteFiles, Return, Elems
  <1>2. Complete(conf, Elems(as)) /\ IsList(as)
    BY <1>1 DEF RenderInv, BuiltSoFar, Complete
  <1>3. Complete(conf', dir') /\ IsList(as')
    BY <1>1, <1>2
  <1> QED BY <1>1, <1>3 DEF RenderInv, BuiltSoFar

LEMMA StepRenderInv ==
  ASSUME RenderInv, [Next]_vars
  PROVE  RenderInv'
  <1>1. CASE UNCHANGED vars
    BY <1>1 DEF vars, RenderInv, BuiltSoFar
  <1> QED BY <1>1, OtherSteps, FirstLists, KubeConfigStep, APIServerSecretStep,
             ControllerManagerSecretStep, WriteStep DEF Next

----------------------------------------------------------------------------
(***************************************************************************)
(* The theorems                                                            *)
(***************************************************************************)
\* The inductive invariant: at each step of NewDefaultAssets the lists before
\* it have what it looks up, each file once.
THEOREM RenderInvariant == Spec => []RenderInv
  BY InitRenderInv, StepRenderInv, PTL DEF Spec

\* A successful render: what the manifests name is in the secrets, or among
\* the files bootkube start copies.
LEMMA CompleteFilesFound ==
  ASSUME result # "missing", result = "ok" => Complete(conf, dir)
  PROVE  FilesFound
  <1> SUFFICES ASSUME result = "ok"
               PROVE  /\ OnDisk(manifest("kube-apiserver.yaml")).files \subseteq DOMAIN APISecret
                      /\ OnDisk(manifest("kube-controller-manager.yaml")).files \subseteq DOMAIN CMSecret
                      /\ \A a \in dir : a.name[1] = "bootstrap-manifests" =>
                           \A f \in a.data.files :
                             (IF f = "kubeconfig" THEN auth(f) ELSE tls(f)) \in {b.name : b \in dir}
    BY DEF FilesFound
  <1>1. /\ Manifests(conf, dir) /\ Credentials(conf, dir) /\ KubeConfigs(conf, dir)
        /\ SecretIn(dir, APISecretName, APIServerSecret(conf))
        /\ SecretIn(dir, CMSecretName, ControllerManagerSecret)
    BY DEF Complete
  <1>2. \A files : Reads(files).files = files
    BY DEF Reads
  <1>3. OnDisk(manifest("kube-apiserver.yaml")).files \subseteq DOMAIN APISecret
    <2>1. OnDisk(manifest("kube-apiserver.yaml")).files = APIServerFiles(conf)
      BY <1>1, <1>2, OnDiskOne DEF Manifests
    <2>2. DOMAIN APISecret = APIServerSecret(conf)
      BY <1>1, OnDiskOne DEF SecretIn, APISecret, APISecretName
    <2> QED BY <2>1, <2>2 DEF APIServerFiles, APIServerSecret
  <1>4. OnDisk(manifest("kube-controller-manager.yaml")).files \subseteq DOMAIN CMSecret
    <2>1. OnDisk(manifest("kube-controller-manager.yaml")).files = ControllerManagerFiles
      BY <1>1, <1>2, OnDiskOne DEF Manifests
    <2>2. DOMAIN CMSecret = ControllerManagerSecret
      BY <1>1, OnDiskOne DEF SecretIn, CMSecret, CMSecretName
    <2> QED BY <2>1, <2>2 DEF ControllerManagerFiles, ControllerManagerSecret
  <1>5. ASSUME NEW a \in dir, a.name[1] = "bootstrap-manifests", NEW f \in a.data.files
        PROVE  (IF f = "kubeconfig" THEN auth(f) ELSE tls(f)) \in {b.name : b \in dir}
    <2>1. f \in APIServerFiles(conf) \cup ControllerManagerFiles \cup {"kubeconfig"}
      BY <1>1, <1>5 DEF Manifests
    <2>2. CASE f = "kubeconfig"
      <3>1. PICK d : A(auth("kubeconfig"), d) \in dir
        BY <1>1 DEF KubeConfigs, One
      <3> QED BY <2>2, <3>1, AssetFields
    <2>3. CASE f # "kubeconfig"
      <3>1. PICK d : One(dir, tls(f), d)
        BY <1>1, <2>1, <2>3, FilesThere
      <3> QED BY <2>3, <3>1, AssetFields DEF One
    <2> QED BY <2>2, <2>3
  <1> QED BY <1>3, <1>4, <1>5

\* No step of bootkube render asks for a file that is not there, and what a
\* component is told to read is where it looks.
THEOREM FilesAreFound == Spec => []FilesFound
  <1>1. RenderInv => FilesFound
    BY CompleteFilesFound DEF RenderInv
  <1> QED BY <1>1, RenderInvariant, PTL

----------------------------------------------------------------------------
(***************************************************************************)
(* The configuration                                                       *)
(***************************************************************************)
\* A configuration is never mistaken for none.
LEMMA ConfigDiffers ==
  ASSUME NEW o, validateRenderOpts(o)
  PROVE  AssetConfig(o) # NoConf
  <1>1. AssetConfig(o).networkProvider = o.networkProvider /\ NoConf.networkProvider = "none"
    BY DEF AssetConfig, NoConf
  <1>2. o.networkProvider # "none"
    BY DEF validateRenderOpts, Networks
  <1> QED BY <1>1, <1>2

\* The flags are checked and turned into a configuration, or rejected.
LEMMA ConfigSteps ==
  ASSUME ConfigInv, ValidateOpts \/ RejectOpts \/ FlagsToAssetConfig \/ RejectFlags \/ UnreadableFiles
  PROVE  ConfigInv'
  <1>1. CASE ValidateOpts
    BY <1>1 DEF ValidateOpts, Goto, ConfigInv
  <1>2. CASE RejectOpts
    BY <1>2 DEF RejectOpts, Return, ConfigInv
  <1>3. CASE FlagsToAssetConfig
    <2>1. /\ renderOpts' = renderOpts /\ conf' = AssetConfig(renderOpts) /\ pc' = "manifests" /\ dir' = dir
          /\ FlagsAccepted(renderOpts) /\ validateRenderOpts(renderOpts) /\ renderOpts \in Options /\ dir = {}
      BY <1>3 DEF FlagsToAssetConfig, Goto, ConfigInv
    <2>2. conf' # NoConf
      BY <2>1, ConfigDiffers
    <2> QED BY <2>1, <2>2 DEF ConfigInv
  <1>4. CASE RejectFlags
    BY <1>4 DEF RejectFlags, Return, ConfigInv
  <1>5. CASE UnreadableFiles
    BY <1>5 DEF UnreadableFiles, Return, ConfigInv
  <1> QED BY <1>1, <1>2, <1>3, <1>4, <1>5

\* Nothing is on disk while lists are made.
LEMMA ListSteps ==
  ASSUME ConfigInv,
         \/ NewManifestAssets \/ NewTLSAssets \/ NewEtcdTLSAssets \/ GenerationFails
         \/ NewKubeConfigAssets \/ NewAPIServerSecretAsset \/ NewControllerManagerSecretAsset
  PROVE  ConfigInv'
  <1> DEFINE Later == {"manifests", "tls", "etcd", "kubeconfig", "apiserver secret",
                       "controller manager secret", "write"}
  <1>1. /\ renderOpts' = renderOpts /\ conf' = conf /\ dir' = dir
        /\ pc \in Later /\ pc' \in Later \cup {"done"}
    BY DEF NewManifestAssets, NewTLSAssets, NewEtcdTLSAssets, GenerationFails, NewKubeConfigAssets,
           NewAPIServerSecretAsset, NewControllerManagerSecretAsset, Add, AddFrom, Goto, Return
  <1>2. conf # NoConf /\ dir = {}
    BY <1>1 DEF ConfigInv
  <1> QED BY <1>1, <1>2 DEF ConfigInv

\* The certificate that is written is the one newTLSAssets made.
LEMMA WriteSteps ==
  ASSUME RenderInv, ConfigInv, WriteFiles \/ WriteFilesFails
  PROVE  ConfigInv'
  <1>1. /\ renderOpts' = renderOpts /\ conf' = conf /\ pc = "write" /\ pc' = "done" /\ conf # NoConf
        /\ dir' \subseteq Elems(as)
    <2>1. /\ renderOpts' = renderOpts /\ conf' = conf /\ pc = "write" /\ pc' = "done"
      BY DEF WriteFiles, WriteFilesFails, Return
    <2>2. ASSUME WriteFiles PROVE dir' \subseteq Elems(as)
      BY <2>2 DEF WriteFiles, Elems
    <2>3. ASSUME WriteFilesFails PROVE dir' \subseteq Elems(as)
      <3>1. PICK n \in 0..(Len(as) - 1) : dir' = {as[i] : i \in 1..n}
        BY <2>3 DEF WriteFilesFails
      <3>2. {as[i] : i \in 1..n} \subseteq Elems(as)
        BY <3>1, Beginning, Zenon DEF RenderInv
      <3> QED BY <3>1, <3>2, Zenon
    <2> QED BY <2>1, <2>2, <2>3 DEF ConfigInv
  <1>2. One(Elems(as), tls("apiserver.crt"), Cert("apiserver", conf.caKey, conf.altNames, conf.apiServiceIPs))
    BY <1>1 DEF RenderInv, BuiltSoFar, Credentials, ClusterCredentials
  <1>3. Cert("apiserver", conf.caKey, conf.altNames, conf.apiServiceIPs).ips = conf.apiServiceIPs
    BY DEF Cert
  <1>4. \A a \in dir' : a.name = tls("apiserver.crt") => a.data.ips = conf.apiServiceIPs
    BY <1>1, <1>2, <1>3 DEF One
  <1> QED BY <1>1, <1>4 DEF ConfigInv

\* The inductive invariant of the configuration: it was made from flags that
\* were checked and accepted, and where it was not made although every file
\* could be read, the flags were not acceptable.
THEOREM ConfigInvariant == Spec => []ConfigInv
  <1>1. Init => ConfigInv
    BY DEF Init, ConfigInv
  <1>2. ASSUME RenderInv, ConfigInv, [Next]_vars PROVE ConfigInv'
    <2>1. CASE UNCHANGED vars
      BY <1>2, <2>1 DEF vars, ConfigInv
    <2>2. CASE Next
      BY <1>2, <2>2, ConfigSteps, ListSteps, WriteSteps DEF Next
    <2> QED BY <1>2, <2>1, <2>2
  <1> QED BY <1>1, <1>2, RenderInvariant, PTL DEF Spec

\* A successful render: in the secrets and the kubeconfig, certificates fit
\* keys and CAs.
LEMMA CompleteChains ==
  ASSUME result = "ok" => Complete(conf, dir) /\ conf = AssetConfig(renderOpts)
  PROVE  ChainsVerify
  <1> SUFFICES ASSUME result = "ok" PROVE ChainsVerify BY DEF ChainsVerify
  <1>1. /\ ClusterCredentials(conf, dir) /\ KubeConfigs(conf, dir)
        /\ (conf.etcdUseTLS => EtcdCredentials(conf, dir))
        /\ SecretIn(dir, APISecretName, APIServerSecret(conf))
        /\ SecretIn(dir, CMSecretName, ControllerManagerSecret)
    BY DEF Complete, Credentials
  <1>2. \A f \in APIServerSecret(conf) : One(dir, tls(f), APISecret[f])
    BY <1>1, OnDiskOne DEF SecretIn, APISecret, APISecretName
  <1>3. \A f \in ControllerManagerSecret : One(dir, tls(f), CMSecret[f])
    BY <1>1, OnDiskOne DEF SecretIn, CMSecret, CMSecretName
  <1>4. /\ \A k : PrivateKey(k).key = k /\ PublicKey(k).key = k /\ SelfSigned(k).key = k
        /\ \A k, signer, names, ips : /\ Cert(k, signer, names, ips).key = k
                                      /\ Cert(k, signer, names, ips).signer = signer
    BY DEF PrivateKey, PublicKey, SelfSigned, Cert
  <1>5. /\ APISecret["ca.crt"] = SelfSigned(conf.caCertKey)
        /\ APISecret["apiserver.key"] = PrivateKey("apiserver")
        /\ APISecret["apiserver.crt"] = Cert("apiserver", conf.caKey, conf.altNames, conf.apiServiceIPs)
        /\ APISecret["apiserver-kubelet-client.key"] = PrivateKey("apiserver-kubelet-client")
        /\ APISecret["apiserver-kubelet-client.crt"] = Cert("apiserver-kubelet-client", conf.caKey, {}, {})
        /\ APISecret["front-proxy-ca.crt"] = SelfSigned("front-proxy")
        /\ APISecret["front-proxy-client.crt"] = FrontProxyCert(conf)
        /\ APISecret["front-proxy-client.key"] = PrivateKey("front-proxy-client")
        /\ APISecret["service-account.pub"] = PublicKey("service-account")
    <2>1. {"ca.crt", "apiserver.key", "apiserver.crt", "apiserver-kubelet-client.key",
           "apiserver-kubelet-client.crt", "front-proxy-ca.crt", "front-proxy-client.crt",
           "front-proxy-client.key", "service-account.pub"} \subseteq APIServerSecret(conf)
      BY DEF APIServerSecret
    <2> QED BY <1>1, <1>2, <2>1, OneOnly DEF ClusterCredentials
  <1>6. /\ CMSecret["ca.crt"] = SelfSigned(conf.caCertKey) /\ CMSecret["ca.key"] = PrivateKey(conf.caKey)
        /\ CMSecret["service-account.key"] = PrivateKey("service-account")
    BY <1>1, <1>3, OneOnly DEF ClusterCredentials, ControllerManagerSecret
  <1>7. /\ OnDisk(auth("kubeconfig")).ca = SelfSigned(conf.caCertKey)
        /\ OnDisk(auth("kubeconfig")).cert = Cert("admin", conf.caKey, {}, {})
        /\ OnDisk(auth("kubeconfig")).key = PrivateKey("admin")
    <2>1. OnDisk(auth("kubeconfig")) =
            [type |-> "kubeconfig", server |-> conf.apiServers[1], ca |-> SelfSigned(conf.caCertKey),
             cert |-> Cert("admin", conf.caKey, {}, {}), key |-> PrivateKey("admin")]
      BY <1>1, OnDiskOne DEF KubeConfigs
    <2> QED BY <2>1
  <1>8. /\ conf.etcdCACert = (renderOpts.etcd # {})
        /\ conf.etcdCAKey = IF "etcd-ca" \in renderOpts.stray THEN "stray-etcd-ca" ELSE "user-etcd-ca"
        /\ conf.etcdClientKey = IF "etcd-key" \in renderOpts.stray THEN "stray-etcd" ELSE "user-etcd"
        /\ conf.caKey = IF renderOpts.ca = {} THEN "ca" ELSE "user-ca"
        /\ conf.caCertKey = IF renderOpts.ca = {} THEN "ca"
                            ELSE IF "ca" \in renderOpts.stray THEN "stray-ca" ELSE "user-ca"
    BY DEF AssetConfig
  <1>9. renderOpts.stray \cap ClusterRestsOn = {} => conf.caCertKey = conf.caKey
    BY <1>8 DEF ClusterRestsOn
  <1>10. ASSUME conf.etcdUseTLS, renderOpts.stray \cap EtcdRestsOn = {}
         PROVE  Verifies(APISecret, "etcd-client-ca.crt", "etcd-client.crt", "etcd-client.key")
    <2>1. {"etcd-client-ca.crt", "etcd-client.key", "etcd-client.crt"} \subseteq APIServerSecret(conf)
      BY <1>10 DEF APIServerSecret, EtcdClientFiles
    <2>2. /\ APISecret["etcd-client-ca.crt"] = EtcdCA(conf)
          /\ APISecret["etcd-client.key"] = EtcdClientKey(conf)
          /\ APISecret["etcd-client.crt"] = EtcdClientCert(conf)
      BY <1>1, <1>2, <1>10, <2>1, OneOnly DEF EtcdCredentials
    <2>3. CASE renderOpts.etcd = {}
      <3>1. /\ EtcdCA(conf) = SelfSigned(conf.caCertKey) /\ EtcdClientKey(conf) = PrivateKey("etcd-client")
            /\ EtcdClientCert(conf) = Cert("etcd-client", conf.caKey, conf.etcdServers, {})
        BY <1>8, <2>3 DEF EtcdCA, EtcdClientKey, EtcdClientCert
      <3>2. conf.caCertKey = conf.caKey
        BY <1>9, <1>10, <2>3 DEF EtcdRestsOn
      <3> QED BY <1>4, <2>2, <3>1, <3>2 DEF Verifies
    <2>4. CASE renderOpts.etcd # {}
      <3>1. conf.etcdCAKey = "user-etcd-ca" /\ conf.etcdClientKey = "user-etcd"
        BY <1>8, <1>10, <2>4 DEF EtcdRestsOn
      <3>2. /\ EtcdCA(conf) = SelfSigned("user-etcd-ca") /\ EtcdClientKey(conf) = PrivateKey("user-etcd")
            /\ EtcdClientCert(conf) = Cert("user-etcd", "user-etcd-ca", {}, {})
        BY <1>8, <2>4, <3>1 DEF EtcdCA, EtcdClientKey, EtcdClientCert
      <3> QED BY <1>4, <2>2, <3>2 DEF Verifies
    <2> QED BY <2>3, <2>4
  <1>11. ASSUME renderOpts.stray \cap ClusterRestsOn = {}
         PROVE  /\ Verifies(APISecret, "ca.crt", "apiserver.crt", "apiserver.key")
                /\ Verifies(APISecret, "ca.crt", "apiserver-kubelet-client.crt", "apiserver-kubelet-client.key")
                /\ CMSecret["ca.key"].key = CMSecret["ca.crt"].key
                /\ Verifies([k \in {"ca", "cert", "key"} |-> OnDisk(auth("kubeconfig"))[k]], "ca", "cert", "key")
    <2>1. conf.caCertKey = conf.caKey
      BY <1>9, <1>11
    <2>2. /\ Verifies(APISecret, "ca.crt", "apiserver.crt", "apiserver.key")
          /\ Verifies(APISecret, "ca.crt", "apiserver-kubelet-client.crt", "apiserver-kubelet-client.key")
      BY <1>4, <1>5, <2>1 DEF Verifies
    <2>3. Verifies([k \in {"ca", "cert", "key"} |-> OnDisk(auth("kubeconfig"))[k]], "ca", "cert", "key")
      BY <1>4, <1>7, <2>1 DEF Verifies
    <2>4. CMSecret["ca.key"].key = CMSecret["ca.crt"].key
      BY <1>4, <1>6, <2>1
    <2> QED BY <2>2, <2>3, <2>4
  <1>12. /\ Verifies(APISecret, "front-proxy-ca.crt", "front-proxy-client.crt", "front-proxy-client.key")
         /\ APISecret["service-account.pub"].key = CMSecret["service-account.key"].key
         /\ CMSecret["ca.crt"] = APISecret["ca.crt"]
         /\ OnDisk(auth("kubeconfig")).ca = APISecret["ca.crt"]
    BY <1>4, <1>5, <1>6, <1>7 DEF Verifies, FrontProxyCert
  <1> QED BY <1>10, <1>11, <1>12 DEF ChainsVerify

\* Every certificate handed out by bootkube render verifies at its peer, apart
\* from those that rest on one of the user's that does not fit its key.
THEOREM ChainsAlwaysVerify == Spec => []ChainsVerify
  <1>1. RenderInv /\ ConfigInv => ChainsVerify
    BY CompleteChains DEF RenderInv, ConfigInv
  <1> QED BY <1>1, RenderInvariant, ConfigInvariant, PTL

\* bootkube render rejects all networks that are too many, too small or have an
\* address in common, and on their account no others: the masks, the comparisons
\* and the counting of flagsToAssetConfig agree with the numbers, for bytes of
\* any size and addresses of any length.  Address families make no difference.
THEOREM SeparateNetworksAccepted == Spec => []AcceptsSeparateNetworks
  <1>1. ConfigInv => AcceptsSeparateNetworks
    <2> SUFFICES ASSUME ConfigInv PROVE AcceptsSeparateNetworks
      OBVIOUS
    <2>1. FlagsAccepted(renderOpts) <=> renderOpts.malformed = {} /\ NetworksSeparate(renderOpts)
      BY FlagsAcceptedAreSeparate DEF ConfigInv
    <2> QED BY <2>1 DEF ConfigInv, AcceptsSeparateNetworks
  <1> QED BY <1>1, ConfigInvariant, PTL

\* Whatever the networks, the services' addresses are the ones at their offsets
\* in each service network, serve one service, are no pod's, and the api
\* server's certificate that is written is good for its own.
THEOREM ServiceIPsAreReachable == Spec => []ServiceIPsReachable
  <1>1. ConfigInv => ServiceIPsReachable
    <2> SUFFICES ASSUME ConfigInv, conf # NoConf
                 PROVE  /\ \A net \in Elems(conf.serviceCIDRs) :
                             /\ \E ip \in conf.apiServiceIPs : In(ip, net) /\ Val(ip) = Val(net.ip) + apiOffset
                             /\ \E ip \in conf.dnsServiceIPs : In(ip, net) /\ Val(ip) = Val(net.ip) + dnsOffset
                        /\ conf.apiServiceIPs \cap conf.dnsServiceIPs = {}
                        /\ \A ip \in conf.apiServiceIPs \cup conf.dnsServiceIPs, net \in Elems(conf.podCIDRs) :
                             ~In(ip, net)
                        /\ \A a \in dir : a.name = tls("apiserver.crt") => conf.apiServiceIPs \subseteq a.data.ips
      BY DEF ServiceIPsReachable
    <2>1. renderOpts \in Options /\ FlagsAccepted(renderOpts) /\ conf = AssetConfig(renderOpts)
      BY DEF ConfigInv
    <2>2. \A a \in dir : a.name = tls("apiserver.crt") => conf.apiServiceIPs \subseteq a.data.ips
      BY DEF ConfigInv
    <2> QED BY <2>1, <2>2, AcceptedServiceIPs
  <1> QED BY <1>1, ConfigInvariant, PTL
=============================================================================
