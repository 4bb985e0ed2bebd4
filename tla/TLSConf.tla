------------------------------ MODULE TLSConf ------------------------------
(***************************************************************************)
(* tlsconf/tls.go: a tls.Config from the configuration of a listener or of *)
(* a transport.  Files are modelled by what reading them gives.            *)
(***************************************************************************)
EXTENDS Naturals, TLC

CipherConfig ==
  [format : {"missing", "openssl", "hex", "other"}, parses : BOOLEAN,
   runs : BOOLEAN, words : SUBSET Nat]
TLSClientConfig ==
  [given : {TRUE}, min : STRING, max : STRING, ciphers : CipherConfig,
   certs : SUBSET {"pair", "bad"}, rootCAs : SUBSET {"pem", "bad"}]
TLSServerConfig ==
  [tls : {TRUE}, min : STRING, max : STRING, ciphers : CipherConfig,
   certs : SUBSET {"pair", "bad"}, clientCAs : SUBSET {"pem", "bad"},
   auth : STRING, sni : BOOLEAN, plugin : STRING]

TLSFail == [err |-> TRUE, ciphers |-> {}]

\* The constants of crypto/tls.
Versions == "" :> 0 @@ "SSLv30" :> 768 @@ "TLSv10" :> 769
            @@ "TLSv11" :> 770 @@ "TLSv12" :> 771
versionString2version(s) ==
  IF s \in DOMAIN Versions THEN [err |-> FALSE, v |-> Versions[s]]
  ELSE [err |-> TRUE, v |-> 0]

ClientAuthTypes == {"", "NoClientCert", "RequestClientCert",
                    "RequireAnyClientCert", "VerifyClientCertIfGiven",
                    "RequireAndVerifyClientCert"}

\* Every file must be readable and hold a certificate.
getCaPool(files) == [err |-> ~(files \subseteq {"pem"})]
LoadX509KeyPair(certs) == [err |-> ~(certs \subseteq {"pair"})]

\* A word is the number it stands for: a cipher has 16 bits, what is no
\* hexadecimal number of 16 bits is larger.  What openssl prints is a cipher.
IsCipher(w) == w < 2 ^ 16
NoCiphers == [format |-> "missing", parses |-> TRUE, runs |-> TRUE,
              words |-> {}]

getCiphers(c) ==
  LET ok == /\ c.parses /\ c.words # {}
            /\ \/ c.format = "openssl" /\ c.runs
               \/ c.format = "hex" /\ \A w \in c.words : IsCipher(w)
  IN  [err |-> ~ok, ciphers |-> IF ok THEN c.words ELSE {}]

TLSError(c, ciphers, cas) ==
  \/ versionString2version(c.min).err \/ versionString2version(c.max).err
  \/ ciphers.err \/ LoadX509KeyPair(c.certs).err \/ getCaPool(cas).err

TLSConfig(c, ciphers) ==
  [err |-> FALSE, ciphers |-> ciphers.ciphers, certs |-> c.certs,
   min |-> versionString2version(c.min).v,
   max |-> versionString2version(c.max).v]

\* A client may leave the ciphers to the library, a server may not.
GetTLSClientConfig(c) ==
  LET ciphers == IF c.ciphers = NoCiphers
                 THEN [err |-> FALSE, ciphers |-> {}]
                 ELSE getCiphers(c.ciphers)
  IN  IF TLSError(c, ciphers, c.rootCAs) THEN TLSFail ELSE TLSConfig(c, ciphers)

\* Fault: a server may leave the ciphers to the library too.
GetTLSServerConfigLax(c) == GetTLSClientConfig([rootCAs |-> c.clientCAs] @@ c)

GetTLSServerConfig(c) ==
  LET ciphers == getCiphers(c.ciphers)
  IN  IF TLSError(c, ciphers, c.clientCAs) \/ c.auth \notin ClientAuthTypes
      THEN TLSFail ELSE TLSConfig(c, ciphers)

=============================================================================
