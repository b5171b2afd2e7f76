------------------------ MODULE MCProvisionServer ------------------------
(***************************************************************************)
(* Instances of ProvisionServer for TLC.                                   *)
(***************************************************************************)
EXTENDS ProvisionServer, TLC

CONSTANTS i1, i2, i3, p1, p2, n1, n2

Server(image, port, intf) == [image |-> image, port |-> port, intf |-> intf]

MCChecksums == (i1 :> {"md5"}) @@ (i2 :> {"sha256"}) @@ (i3 :> {})

(* With and without a provisioning interface: a new image and port; and an *)
(* image without a checksum file, given up for one that has it.            *)
MCSpecChanges ==
     (Server(i1, p1, TRUE) :> {Server(i2, p2, TRUE)})
  @@ (Server(i3, p1, TRUE) :> {Server(i2, p2, TRUE)})
  @@ (Server(i2, p2, TRUE) :> {})
  @@ (Server(i1, p1, FALSE) :> {Server(i2, p2, FALSE)})
  @@ (Server(i2, p2, FALSE) :> {})

(* A new image for a server with an interface; no change of a server       *)
(* without one.                                                            *)
NewImage == (Server(i1, p1, TRUE) :> {Server(i2, p1, TRUE)}) @@ (Server(i2, p1, TRUE) :> {})
NoInterface == Server(i1, p1, FALSE) :> {}
=============================================================================
