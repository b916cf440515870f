--------------------------- MODULE RevocationList ---------------------------
(***************************************************************************)
(* The revocation list of the ground control station (GCS):                *)
(* crl_manager.py, and the two endpoints of gcs.py that look into it.      *)
(*                                                                         *)
(* The list is a set of strings.  The operations that change it, and       *)
(* verify_drone_certificate, name them serial numbers; loading takes       *)
(* whatever strings the file has; and the endpoints look up the strings    *)
(* drones send, which are the texts (PEM) of certificates.                 *)
(*                                                                         *)
(* _lock is not reentrant: add_revoked_cert and remove_cert_from_crl hold  *)
(* it when they call save_crl_to_file, which waits for it.  So the change  *)
(* is made in memory, the call never returns, nothing is written to a file,*)
(* and every later look-up waits for _lock too, until the process is       *)
(* started again.  (Nothing in the repository calls the two operations.)   *)
(***************************************************************************)
CONSTANTS
    Cert,       \* certificates, one for every drone
    Slashless,  \* those whose text has no '/': the only ones that the path
                \* /check_crl/<certificate> matches (base64 almost always has)
    Listable    \* the strings that may get on the list

Text(c) == <<"text", c>>
Serial(c) == <<"serial", c>>

ASSUME ListAssumption ==
    /\ Slashless \subseteq Cert
    /\ Listable \subseteq {Text(c) : c \in Cert} \cup {Serial(c) : c \in Cert}

VARIABLES
    listed,     \* revoked_certificates
    locked      \* a call holds _lock and waits for it

listVars == <<listed, locked>>

InitList ==
    /\ listed \in SUBSET Listable
    /\ locked = FALSE

add_revoked_cert(s) ==
    /\ ~locked
    /\ listed' = listed \cup {s}
    /\ locked' = TRUE

remove_cert_from_crl(s) ==
    /\ ~locked
    /\ s \in listed
    /\ listed' = listed \ {s}
    /\ locked' = TRUE

(* The station starts again and loads drone_crl.json, which no call has    *)
(* changed: its content is what it was at the last start, what an operator *)
(* has made of it since, or nothing: in the container pki_gen.py runs      *)
(* first and writes an empty list.                                         *)
Start(content) ==
    /\ listed' = content
    /\ locked' = FALSE

(* is_cert_revoked, for the text a drone sends; it returns if ~locked. *)
IsRevoked(c) == Text(c) \in listed

(* /bulk_check_crl, for the texts of the certificates cs. *)
BulkCheck(cs) == {c \in cs : IsRevoked(c)}

TypeOKList ==
    /\ listed \subseteq Listable
    /\ locked \in BOOLEAN
=============================================================================
