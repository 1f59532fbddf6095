------------------------------- MODULE MCCamera -------------------------------
(***************************************************************************)
(* Camera for TLC and for the proofs.                                      *)
(*                                                                         *)
(* The names are those of one service of the station among others here, so *)
(* that StationProofs can speak of driving (RemoteStation) as well, which  *)
(* has threads and a latest call of its own.                               *)
(***************************************************************************)
EXTENDS Naturals, FiniteSets

CONSTANTS
    Handlers,   \* threads of l1 that serve startPeripheralDevice
    NoHandler,
    Pool        \* the threads of the station's GrpcClient

ASSUME PoolAssumption == Pool # {}
ASSUME NoHandlerAssumption == NoHandler \notin Handlers

VARIABLES rpiCam, spare, pc, reply, waiting, held, compared, latestReply,
          enabled, known, quiet, undefined, alone

Cam == INSTANCE Camera WITH Threads <- Pool, latest <- latestReply

CameraSpec == Cam!Spec

\* Every variable of the camera switch has its type.
CameraTypeOK == Cam!TypeOK

\* As long as calls do not overlap, a station that was answered and applied the
\* answer last knows whether the camera is running, unless it exited since.
StationKnows == Cam!StationKnows

\* ... at most one process has the camera, or is about to have it, and none is
\* used after another handler has destroyed it.
OneCamera == Cam!OneCamera
=============================================================================
