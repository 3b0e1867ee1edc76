---------------------------- MODULE Namespaces ----------------------------
(***************************************************************************)
(* The FTLs behind the I/O path.  A namespace is of one kind, fixed when   *)
(* the device is initialised (NVMEV_NAMESPACE_INIT); commands reach the    *)
(* FTL through the namespace's proc_io_cmd.  Namespaces share nothing, so  *)
(* in each behaviour the host uses one and the others stay as they are.    *)
(***************************************************************************)
EXTENDS ConvFtl, KvFtl, ZnsFtl

VARIABLE kind

nsVars == <<kind, convVars, kvVars, znsVars>>

\* An FTL that is not used starts in some fixed way.
NsInit ==
  /\ kind \in {"conv", "kv", "zns"}
  /\ ConvInit /\ KvInit /\ ZnsInit
  /\ kind # "kv" =>
       /\ kconf = CHOOSE k \in KvConfigs : TRUE
       /\ home = CHOOSE h \in kconf.homes : TRUE
       /\ \A h \in DOMAIN iter : iter[h] = NullIter
  /\ kind # "zns" => zconf = CHOOSE k \in ZnsConfigs : TRUE

NsNext ==
  \/ kind = "conv" /\ ConvNext /\ UNCHANGED <<kind, kvVars, znsVars>>
  \/ kind = "kv" /\ KvNext /\ UNCHANGED <<kind, convVars, znsVars>>
  \/ kind = "zns" /\ ZnsNext /\ UNCHANGED <<kind, convVars, kvVars>>

NsSpec == NsInit /\ [][NsNext]_nsVars

\* The state of every namespace is well formed.
NsTypeOK == ConvTypeOK /\ KvTypeOK /\ ZnsTypeOK
=============================================================================
