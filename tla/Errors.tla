-------------------------------- MODULE Errors --------------------------------
(***************************************************************************)
(* What an error that a handler passes to next() is answered with: the     *)
(* classes of core/errors.js, each with the status its constructor gives   *)
(* it, and errorMiddleware (error.middleware.js), which also knows some    *)
(* errors of the libraries. Codes and messages are left out.               *)
(***************************************************************************)
EXTENDS Naturals

AppErrors ==
  [BadRequestError |-> 400, ValidationError |-> 400,
   AuthenticationError |-> 401, InvalidTokenError |-> 401, InvalidCredentialsError |-> 401,
   PermissionDeniedError |-> 403, AccountLockedError |-> 403, TenantSuspendedError |-> 403,
   NotFoundError |-> 404, TenantNotFoundError |-> 404, UserNotFoundError |-> 404,
   ConflictError |-> 409, DuplicateEmailError |-> 409, DuplicateSlugError |-> 409,
   TenantCancelledError |-> 410,
   FileTooLargeError |-> 413, InvalidFileTypeError |-> 415,
   UnprocessableError |-> 422,
   RateLimitError |-> 429, QuotaExceededError |-> 429,
   ProvisioningError |-> 500,
   TenantProvisioningError |-> 503, ServiceUnavailableError |-> 503]

\* Of mongoose, of MongoDB (its code 11000) and of the body parser
LibraryErrors ==
  [MongooseValidationError |-> 400, CastError |-> 400, SyntaxError |-> 400,
   DuplicateKey |-> 409, PayloadTooLargeError |-> 413]

\* Mutant of errorMiddleware: only the program's own classes are recognised.
errorMiddlewareOwn(error) ==
  IF error \in DOMAIN AppErrors THEN AppErrors[error] ELSE 500
\* Any other error, such as a call that is rejected or a VersionError, is internal.
errorMiddleware(error) ==
  CASE error \in DOMAIN AppErrors     -> AppErrors[error]
    [] error \in DOMAIN LibraryErrors -> LibraryErrors[error]
    [] OTHER                          -> 500
=============================================================================
