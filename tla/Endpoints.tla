----------------------------- MODULE Endpoints -----------------------------
(***************************************************************************)
(* What the controllers ask of a caller: for each handler, the roles that  *)
(* RolesGuard lets through.  A handler behind JwtAuthGuard alone, or       *)
(* without @Roles, asks for an account and for no role in particular.  The *)
(* handlers nobody is authenticated for (login, refresh, health) are not   *)
(* here: there is nothing to be entitled to.                               *)
(***************************************************************************)

Role == {"SUPER_ADMIN", "FINANCE_ADMIN", "SUPPORT_ADMIN", "VIEWER"}

Anyone == Role
SuperAdmin == {"SUPER_ADMIN"}
Finance == {"SUPER_ADMIN", "FINANCE_ADMIN"}
Support == {"SUPER_ADMIN", "SUPPORT_ADMIN"}

(* Mutant: @Roles moved from the class to the handlers, one of which is    *)
(* forgotten.                                                              *)
UserControllerHole ==
    [findAll |-> SuperAdmin, findById |-> SuperAdmin, create |-> SuperAdmin,
     update |-> Anyone, deactivate |-> SuperAdmin, remove |-> SuperAdmin]

UserController ==
    [findAll |-> SuperAdmin, findById |-> SuperAdmin, create |-> SuperAdmin,
     update |-> SuperAdmin, deactivate |-> SuperAdmin, remove |-> SuperAdmin]

AuthController ==
    [resetPassword |-> Anyone, logout |-> Anyone, getProfile |-> Anyone]

TenantController ==
    [findAll |-> Anyone, findById |-> Anyone, create |-> Support,
     update |-> Support, lock |-> Support, unlock |-> Support,
     remove |-> SuperAdmin]

(* Mutant: settling an invoice is left to anyone with an account. *)
InvoiceControllerOpen ==
    [findAll |-> Finance, findById |-> Finance, create |-> Finance,
     pay |-> Anyone, cancel |-> Finance, sendReminder |-> Support]

InvoiceController ==
    [findAll |-> Finance, findById |-> Finance, create |-> Finance,
     pay |-> Finance, cancel |-> Finance, sendReminder |-> Support]

(* heartbeat has no @Roles. *)
PosDeviceController ==
    [findAll |-> Anyone, findById |-> Anyone, create |-> Support,
     update |-> Support, heartbeat |-> Anyone, remove |-> SuperAdmin]

NotificationController ==
    [findAll |-> Anyone, findById |-> Anyone, resend |-> SuperAdmin]

AuditLogController == [findAll |-> SuperAdmin, findById |-> SuperAdmin]

DashboardController ==
    [getSummary |-> Anyone, getTenantGrowth |-> Finance,
     getRevenueSummary |-> Finance]

RealtimeController == [stream |-> Anyone]

Controllers ==
    [users |-> UserController, auth |-> AuthController,
     tenants |-> TenantController, invoices |-> InvoiceController,
     posDevices |-> PosDeviceController,
     notifications |-> NotificationController,
     auditLogs |-> AuditLogController, dashboard |-> DashboardController,
     events |-> RealtimeController]

Endpoint ==
    UNION {{<<c, h>> : h \in DOMAIN Controllers[c]} : c \in DOMAIN Controllers}

RequiredRoles(e) == Controllers[e[1]][e[2]]

Reads == {"findAll", "findById", "getProfile", "getSummary",
          "getTenantGrowth", "getRevenueSummary", "stream"}

Writes(e) == e[2] \notin Reads
=============================================================================
