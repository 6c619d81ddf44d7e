---------------------------- MODULE Certificates ----------------------------
(***************************************************************************)
(* The TLS material of tls.py: a CA and a server key that outlive the      *)
(* launches that use them, and a certificate signed anew by each.  The     *)
(* runtime and the mobile stream have files of their own: a behaviour     *)
(* explores the launches that share the one's or the other's.  A launch    *)
(* works on the files one openssl command at a time, and may die between   *)
(* two of them, or in the middle of one and leave half a file; another     *)
(* launch may be at work on the same files: the desktop's prepare step, a  *)
(* second start, a listener that is reopened.                              *)
(*                                                                         *)
(* A key is a number, a CA certificate the number of its key, and a server *)
(* certificate [key, ca].  Of the serial file that openssl keeps next to   *)
(* the CA it matters only whether it can be read.                          *)
(***************************************************************************)
EXTENDS Integers, FiniteSets

CONSTANTS
  Launchers,    \* processes that may launch
  MaxLaunches,  \* (bound)
  MaxKeys,      \* keys generated (bound)
  MaxDues       \* CA certificates that come near their end (bound)

ASSUME CertificatesAssumption == {MaxLaunches, MaxKeys, MaxDues} \subseteq Nat

VARIABLES
  family,    \* whose files they are: the runtime's or the mobile stream's
  files,     \* caKey, caCert, serial, key, csr, cert
  due,       \* CAs with less than CA_RENEW_BEFORE_DAYS left
  launcher,  \* per process: where its launch is
  known,     \* ghost: what clients were last given to trust, with nothing to change it since
  stranded,  \* ghost: at what launches have failed that had the files to themselves
  keys, launches   \* (bounds)

certVars == <<family, files, due, launcher, known, stranded, keys, launches>>

Missing == 0
Torn == -1
Numbered == 1
Unsigned == [key |-> Missing, ca |-> Missing]
Stranger == [key |-> Missing, ca |-> Missing]
Roles == IF family = "mobile" THEN {"mobile"} ELSE {"prepare", "runtime"}
Off == [st |-> "off", role |-> "mobile", made |-> FALSE, alone |-> FALSE]

CertificatesInit ==
  /\ family \in {"runtime", "mobile"}
  /\ files = [caKey |-> Missing, caCert |-> Missing, serial |-> Missing,
              key |-> Missing, csr |-> Missing, cert |-> Unsigned]
  /\ due = {} /\ launcher = [p \in Launchers |-> Off]
  /\ known = Stranger /\ stranded = {}
  /\ keys = 0 /\ launches = 0

Busy(p) == launcher[p].st \notin {"off", "serves"}
Rivals(p) == {q \in Launchers \ {p} : launcher[q].st # "off"}

\* A launch begins: prepare() of the desktop, main() of the runtime, the opening of the mobile listener.
LaunchBegins(p, role) ==
  /\ launcher[p] = Off /\ launches < MaxLaunches
  /\ launches' = launches + 1
  /\ LET rivals == {q \in Rivals(p) : Busy(q)}
     IN  /\ launcher' = [q \in Launchers |->
              IF q = p THEN [st |-> "check", role |-> role, made |-> FALSE, alone |-> rivals = {}]
              ELSE IF q \in rivals THEN [launcher[q] EXCEPT !.alone = FALSE]
              ELSE IF q \in Rivals(p) THEN [launcher[q] EXCEPT !.last = FALSE]
              ELSE launcher[q]]
         /\ known' = IF rivals # {} THEN Stranger ELSE known
  /\ UNCHANGED <<family, files, due, stranded, keys>>

\* A command of a launch: what it leaves in the files and where it goes on.
Step(p, from, changed, to) ==
  /\ launcher[p].st = from
  /\ files' = changed
  /\ launcher' = [launcher EXCEPT ![p].st = to]
  /\ UNCHANGED <<family, due, known, stranded, launches>>

\* MutReusable(f): the two files are there.
MutReusable(f) == f.caKey # Missing /\ f.caCert # Missing /\ f.caCert \notin due

\* _ca_is_reusable(): both files can be read and belong together, and there is time left.
Reusable(f) == f.caKey > 0 /\ f.caCert = f.caKey /\ f.caCert \notin due

Checks(p) ==
  /\ Step(p, "check", files, IF Reusable(files) THEN "key" ELSE "unlink key")
  /\ UNCHANGED keys

\* _create_ca(): the old files go first.
UnlinksKey(p) == Step(p, "unlink key", [files EXCEPT !.caKey = Missing], "unlink cert") /\ UNCHANGED keys
UnlinksCert(p) == Step(p, "unlink cert", [files EXCEPT !.caCert = Missing], "unlink serial") /\ UNCHANGED keys
UnlinksSerial(p) == Step(p, "unlink serial", [files EXCEPT !.serial = Missing], "ca key") /\ UNCHANGED keys

NewKey == keys < MaxKeys /\ keys' = keys + 1

MakesCaKey(p) == NewKey /\ Step(p, "ca key", [files EXCEPT !.caKey = keys'], "ca cert")

MakesCaCert(p) ==
  /\ launcher[p].st = "ca cert" /\ files.caKey > 0
  /\ files' = [files EXCEPT !.caCert = files.caKey]
  /\ launcher' = [launcher EXCEPT ![p].st = "key", ![p].made = TRUE]
  /\ UNCHANGED <<family, due, known, stranded, keys, launches>>

\* ensure_server_key(): the runtime's is kept unless the CA is new or the file is no key; the mobile stream's is new
\* every time.
KeepsKey(p) == launcher[p].st = "key" /\ family = "runtime" /\ ~launcher[p].made /\ files.key > 0
AfterKey(p) == IF launcher[p].role = "prepare" THEN "pin" ELSE "request"

FindsKey(p) == KeepsKey(p) /\ Step(p, "key", files, AfterKey(p)) /\ UNCHANGED keys
MakesKey(p) == ~KeepsKey(p) /\ NewKey /\ Step(p, "key", [files EXCEPT !.key = keys'], AfterKey(p))

\* _issue_server_certificate(): the request for the key, then the signature.
Requests(p) ==
  /\ files.key > 0
  /\ Step(p, "request", [files EXCEPT !.csr = files.key, !.cert = Unsigned], "sign")
  /\ UNCHANGED keys

\* openssl refuses a CA whose key is not its own, and a serial file that is there but holds no number; without one
\* (-CAcreateserial) it starts with any, and it writes the next number before it signs.
MaySign(f) == f.csr > 0 /\ f.caKey > 0 /\ f.caCert = f.caKey /\ f.serial # Torn
Signs(p) ==
  /\ MaySign(files)
  /\ Step(p, "sign", [files EXCEPT !.cert = [key |-> files.csr, ca |-> files.caCert], !.serial = Numbered], "load")
  /\ UNCHANGED keys

\* What a launch that is through gives its clients to trust, next to what they were given before.
Settles(p, got, from) ==
  /\ launcher' = [launcher EXCEPT ![p] = [st |-> "serves", role |-> launcher[p].role, alone |-> launcher[p].alone,
                                          got |-> got, from |-> from, asked |-> known, last |-> TRUE]]
  /\ known' = IF from = "files" /\ launcher[p].alone /\ got.ca \notin due THEN got ELSE known

\* server_key_pin(): the shell goes on with the hash of the key.
Pins(p) ==
  /\ launcher[p].st = "pin" /\ files.key > 0
  /\ Settles(p, [key |-> files.key, ca |-> files.caCert], "files")
  /\ UNCHANGED <<family, files, due, stranded, keys, launches>>

\* load_cert_chain(): refuses a key that is not the certificate's.
MayLoad(f) == f.key > 0 /\ f.cert.key = f.key
Loads(p) ==
  /\ launcher[p].st = "load" /\ MayLoad(files)
  /\ Settles(p, files.cert, "files")
  /\ UNCHANGED <<family, files, due, stranded, keys, launches>>

\* A command fails on what it finds.  The runtime's launch ends there, and the shell goes on without a pin.
Refused(p) ==
  \/ launcher[p].st = "ca cert" /\ files.caKey <= 0
  \/ launcher[p].st \in {"request", "pin"} /\ files.key <= 0
  \/ launcher[p].st = "sign" /\ ~MaySign(files)
  \/ launcher[p].st = "load" /\ ~MayLoad(files)

Cause(p) == IF launcher[p].st = "sign" /\ files.serial = Torn THEN "serial" ELSE launcher[p].st

LaunchFails(p) ==
  /\ Refused(p) /\ (family = "runtime" \/ launcher[p].st = "load")
  /\ stranded' = IF launcher[p].alone THEN stranded \cup {Cause(p)} ELSE stranded
  /\ launcher' = [launcher EXCEPT ![p] = Off]
  /\ UNCHANGED <<family, files, due, known, keys, launches>>

\* ensure_mobile_tls(): a command that fails, or a directory that cannot be written, makes it start over in a
\* directory of its own, where nobody interferes.
FallsBack(p) ==
  /\ Busy(p) /\ family = "mobile" /\ launcher[p].st # "load"
  /\ keys + 2 <= MaxKeys /\ keys' = keys + 2
  /\ Settles(p, [key |-> keys + 2, ca |-> keys + 1], "scratch")
  /\ UNCHANGED <<family, files, due, stranded, launches>>

\* What a command that is cut short may leave.
Remains(p) ==
  {files} \cup CASE launcher[p].st = "ca key"  -> {[files EXCEPT !.caKey = Torn]}
               [] launcher[p].st = "ca cert" -> {[files EXCEPT !.caCert = Torn]}
               [] launcher[p].st = "key" /\ ~KeepsKey(p) -> {[files EXCEPT !.key = Torn]}
               [] launcher[p].st = "request" -> {[files EXCEPT !.csr = csr, !.cert = Unsigned] : csr \in {Torn, files.csr}}
               [] launcher[p].st = "sign" /\ files.serial # Torn ->
                    {[files EXCEPT !.serial = serial] : serial \in {Torn, Numbered}}
               [] OTHER -> {}

\* The process dies in its launch.
Dies(p) ==
  /\ Busy(p)
  /\ \E left \in Remains(p) :
       /\ files' = left
       /\ known' = IF family = "runtime" /\ left.key = Torn THEN Stranger ELSE known
  /\ launcher' = [launcher EXCEPT ![p] = Off]
  /\ UNCHANGED <<family, due, stranded, keys, launches>>

\* It ends, or the listener is closed.
Ends(p) ==
  /\ launcher[p].st = "serves"
  /\ launcher' = [launcher EXCEPT ![p] = Off]
  /\ UNCHANGED <<family, files, due, known, stranded, keys, launches>>

\* A CA comes within CA_RENEW_BEFORE_DAYS of its end.
ComesDue ==
  /\ files.caCert > 0 /\ files.caCert \notin due /\ Cardinality(due) < MaxDues
  /\ due' = due \cup {files.caCert}
  /\ known' = Stranger
  /\ UNCHANGED <<family, files, launcher, stranded, keys, launches>>

CertificatesNext ==
  \/ ComesDue
  \/ \E p \in Launchers :
       \/ \E role \in Roles : LaunchBegins(p, role)
       \/ Checks(p) \/ UnlinksKey(p) \/ UnlinksCert(p) \/ UnlinksSerial(p)
       \/ MakesCaKey(p) \/ MakesCaCert(p) \/ FindsKey(p) \/ MakesKey(p) \/ Requests(p) \/ Signs(p) \/ Pins(p) \/ Loads(p)
       \/ LaunchFails(p) \/ FallsBack(p) \/ Dies(p) \/ Ends(p)

CertificatesSpec == CertificatesInit /\ [][CertificatesNext]_certVars

-----------------------------------------------------------------------------
(* Properties. *)

\* Whatever an earlier launch left behind when it died, the next one that has the files to itself comes up, unless
\* what was left is half a serial file.
LaunchesRecover == stranded \subseteq {"serial"}

\* Does not hold: _ca_is_reusable() does not look at the serial file and only _create_ca() removes it, so one that was
\* cut short while openssl wrote it fails every launch of the runtime until the CA is due (the mobile stream falls
\* back to a CA that no phone knows).
EveryLaunchRecovers == stranded = {}

\* "the CA can be installed once, and the server's public key is the same from launch to launch": what clients were
\* given stays what they meet (of the mobile stream, whose key is always new, the CA), until the CA is due, a key was torn or two launches were at the files together.
TrustIsStable ==
  \A p \in Launchers :
    launcher[p].st = "serves" /\ launcher[p].from = "files" /\ launcher[p].alone /\ launcher[p].asked # Stranger =>
      /\ launcher[p].got.ca = launcher[p].asked.ca
      /\ family = "runtime" => launcher[p].got.key = launcher[p].asked.key

\* public_ca_pem() and public_mobile_ca_pem(): as long as no later launch has touched the files, the CA that is handed
\* out is the one that signed the certificate being served.
HandedOutVerifies ==
  \A p \in Launchers :
    launcher[p].st = "serves" /\ launcher[p].alone /\ launcher[p].last /\ launcher[p].from = "files" =>
      files.caCert = launcher[p].got.ca

\* The life of a CA over crashes, renewals and launches that overlap.
TrustSurvives == LaunchesRecover /\ TrustIsStable /\ HandedOutVerifies
=============================================================================
