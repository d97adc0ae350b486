----------------------------- MODULE CxxBodies -----------------------------
(***************************************************************************)
(* The methods of the wrapper classes as onnxruntime_cxx_inline.h defines  *)
(* them: the functions of the C interface each method calls, in order,     *)
(* every one of them inside ThrowOnError.                                  *)
(***************************************************************************)
EXTENDS CxxDeclarations, Sequences

Body(class, calls) == [m \in {class} \X DOMAIN calls |-> calls[m[2]]]

(* Strings and arrays are asked for their size first. *)
Twice(f) == <<f, f>>

(* Methods named like the function they call. *)
Likewise(names) == [f \in names |-> <<f>>]

StatusBodies ==
  Body("Status", [Status |-> <<"CreateStatus">>, GetErrorMessage |-> <<"GetErrorMessage">>,
                  GetErrorCode |-> <<"GetErrorCode">>])

AllocatorBodies ==
  Body("Allocator",
    [Alloc |-> <<"AllocatorAlloc">>, GetAllocation |-> <<"AllocatorAlloc">>,
     Free |-> <<"AllocatorFree">>, GetInfo |-> <<"AllocatorGetInfo">>,
     AllocatorWithDefaultOptions |-> <<"GetAllocatorWithDefaultOptions">>,
     Allocator |-> <<"CreateAllocator">>])

MemoryInfoBodies ==
  Body("MemoryInfo",
    [GetAllocatorName |-> <<"MemoryInfoGetName">>, GetAllocatorType |-> <<"MemoryInfoGetType">>,
     GetDeviceId |-> <<"MemoryInfoGetId">>, GetDeviceType |-> <<"MemoryInfoGetDeviceType">>,
     GetMemoryType |-> <<"MemoryInfoGetMemType">>, equals |-> <<"CompareMemoryInfo">>,
     CreateCpu |-> <<"CreateCpuMemoryInfo">>, MemoryInfo |-> <<"CreateMemoryInfo">>])

IoBindingBodies ==
  Body("IoBinding",
    [GetOutputNames |-> <<"GetBoundOutputNames">>, GetOutputValues |-> <<"GetBoundOutputValues">>,
     BindOutput_device |-> <<"BindOutputToDevice">>,
     SynchronizeInputs |-> <<"SynchronizeBoundInputs">>,
     SynchronizeOutputs |-> <<"SynchronizeBoundOutputs">>]
    @@ Likewise({"BindInput", "BindOutput", "ClearBoundInputs", "ClearBoundOutputs"}))

ArenaAndThreadingBodies ==
  Body("IoBinding", [IoBinding |-> <<"CreateIoBinding">>])
  @@ Body("ArenaCfg", [ArenaCfg |-> <<"CreateArenaCfg">>])
  @@ Body("ThreadingOptions",
       [ThreadingOptions |-> <<"CreateThreadingOptions">>]
       @@ Likewise({"SetGlobalIntraOpNumThreads", "SetGlobalInterOpNumThreads",
                    "SetGlobalSpinControl", "SetGlobalDenormalAsZero",
                    "SetGlobalCustomCreateThreadFn", "SetGlobalCustomThreadCreationOptions",
                    "SetGlobalCustomJoinThreadFn"}))

(* With a custom logger SetLanguageProjection follows as well. *)
EnvBodies ==
  Body("Env",
    [Env |-> <<"CreateEnv", "SetLanguageProjection">>,
     Env_logger |-> <<"CreateEnvWithCustomLogger", "SetLanguageProjection">>,
     Env_threads |-> <<"CreateEnvWithGlobalThreadPools", "SetLanguageProjection">>,
     Env_threads_logger |-> <<"CreateEnvWithCustomLoggerAndGlobalThreadPools",
                              "SetLanguageProjection">>]
    @@ Likewise({"EnableTelemetryEvents", "DisableTelemetryEvents",
                 "UpdateEnvWithCustomLogLevel", "CreateAndRegisterAllocator",
                 "CreateAndRegisterAllocatorV2"}))
  @@ Body("CustomOpDomain", [CustomOpDomain |-> <<"CreateCustomOpDomain">>,
                             Add |-> <<"CustomOpDomain_Add">>])

RunOptionsBodies ==
  Body("RunOptions",
    [RunOptions |-> <<"CreateRunOptions">>, AddConfigEntry |-> <<"AddRunConfigEntry">>,
     SetRunLogVerbosityLevel |-> <<"RunOptionsSetRunLogVerbosityLevel">>,
     SetRunLogSeverityLevel |-> <<"RunOptionsSetRunLogSeverityLevel">>,
     GetRunLogVerbosityLevel |-> <<"RunOptionsGetRunLogVerbosityLevel">>,
     GetRunLogSeverityLevel |-> <<"RunOptionsGetRunLogSeverityLevel">>,
     SetRunTag |-> <<"RunOptionsSetRunTag">>, GetRunTag |-> <<"RunOptionsGetRunTag">>,
     SetTerminate |-> <<"RunOptionsSetTerminate">>,
     UnsetTerminate |-> <<"RunOptionsUnsetTerminate">>])

SessionOptionsBodies ==
  Body("SessionOptions",
    [Clone |-> <<"CloneSessionOptions">>, GetConfigEntry |-> Twice("GetSessionConfigEntry"),
     HasConfigEntry |-> <<"HasSessionConfigEntry">>,
     GetConfigEntryOrDefault |-> <<"HasSessionConfigEntry">> \o Twice("GetSessionConfigEntry"),
     SetGraphOptimizationLevel |-> <<"SetSessionGraphOptimizationLevel">>,
     SetExecutionMode |-> <<"SetSessionExecutionMode">>, SetLogId |-> <<"SetSessionLogId">>,
     SetLogSeverityLevel |-> <<"SetSessionLogSeverityLevel">>,
     Add |-> <<"AddCustomOpDomain">>, AddConfigEntry |-> <<"AddSessionConfigEntry">>]
    @@ Likewise({"SetIntraOpNumThreads", "SetInterOpNumThreads", "SetOptimizedModelFilePath",
                 "EnableProfiling", "DisableProfiling", "EnableOrtCustomOps",
                 "EnableMemPattern", "DisableMemPattern", "EnableCpuMemArena",
                 "DisableCpuMemArena", "AddInitializer", "DisablePerSessionThreads"}))

Appending(provider) ==
  [m \in {"AppendExecutionProvider_" \o provider} |->
     <<"SessionOptionsAppendExecutionProvider_" \o provider>>]

(* AddExternalInitializers throws by itself if its two vectors differ in length. *)
(* RegisterCustomOpsLibrary adds an entry for every configuration first.         *)
ProviderBodies ==
  Body("SessionOptions",
    [AppendExecutionProvider |-> <<"SessionOptionsAppendExecutionProvider">>,
     SetCustomCreateThreadFn |-> <<"SessionOptionsSetCustomCreateThreadFn">>,
     SetCustomThreadCreationOptions |-> <<"SessionOptionsSetCustomThreadCreationOptions">>,
     SetCustomJoinThreadFn |-> <<"SessionOptionsSetCustomJoinThreadFn">>,
     RegisterCustomOpsLibrary |-> <<"AddSessionConfigEntry", "RegisterCustomOpsLibrary_V2">>]
    @@ Likewise({"AddExternalInitializers", "RegisterCustomOpsUsingFunction"})
    @@ Appending("CUDA") @@ Appending("CUDA_V2") @@ Appending("ROCM") @@ Appending("TensorRT")
    @@ Appending("TensorRT_V2") @@ Appending("MIGraphX") @@ Appending("CANN")
    @@ Appending("Dnnl") @@ Appending("OpenVINO"))

SessionBodies ==
  Body("Session",
    [GetInputCount |-> <<"SessionGetInputCount">>, GetOutputCount |-> <<"SessionGetOutputCount">>,
     GetOverridableInitializerCount |-> <<"SessionGetOverridableInitializerCount">>,
     GetInputNameAllocated |-> <<"SessionGetInputName">>,
     GetOutputNameAllocated |-> <<"SessionGetOutputName">>,
     GetOverridableInitializerNameAllocated |-> <<"SessionGetOverridableInitializerName">>,
     GetProfilingStartTimeNs |-> <<"SessionGetProfilingStartTimeNs">>,
     GetModelMetadata |-> <<"SessionGetModelMetadata">>,
     GetInputTypeInfo |-> <<"SessionGetInputTypeInfo">>,
     GetOutputTypeInfo |-> <<"SessionGetOutputTypeInfo">>,
     GetOverridableInitializerTypeInfo |-> <<"SessionGetOverridableInitializerTypeInfo">>,
     Run |-> <<"Run">>, Run_into |-> <<"Run">>, Run_binding |-> <<"RunWithBinding">>,
     RunAsync |-> <<"RunAsync">>, EndProfilingAllocated |-> <<"SessionEndProfiling">>])

SessionConstructors ==
  Body("Session",
    [Session |-> <<"CreateSession">>,
     Session_prepacked |-> <<"CreateSessionWithPrepackedWeightsContainer">>,
     Session_data |-> <<"CreateSessionFromArray">>,
     Session_data_prepacked |-> <<"CreateSessionFromArrayWithPrepackedWeightsContainer">>])

ModelMetadataBodies ==
  Body("ModelMetadata",
    [GetProducerNameAllocated |-> <<"ModelMetadataGetProducerName">>,
     GetGraphNameAllocated |-> <<"ModelMetadataGetGraphName">>,
     GetDomainAllocated |-> <<"ModelMetadataGetDomain">>,
     GetDescriptionAllocated |-> <<"ModelMetadataGetDescription">>,
     GetGraphDescriptionAllocated |-> <<"ModelMetadataGetGraphDescription">>,
     LookupCustomMetadataMapAllocated |-> <<"ModelMetadataLookupCustomMetadataMap">>,
     GetCustomMetadataMapKeysAllocated |-> <<"ModelMetadataGetCustomMetadataMapKeys">>,
     GetVersion |-> <<"ModelMetadataGetVersion">>])

TypeInfoBodies ==
  Body("TensorTypeAndShapeInfo",
    [GetElementType |-> <<"GetTensorElementType">>,
     GetElementCount |-> <<"GetTensorShapeElementCount">>,
     GetShape |-> <<"GetDimensionsCount", "GetDimensions">>]
    @@ Likewise({"GetDimensionsCount", "GetDimensions", "GetSymbolicDimensions"}))
  @@ Body("TypeInfo",
       [GetTensorTypeAndShapeInfo |-> <<"CastTypeInfoToTensorInfo">>,
        GetSequenceTypeInfo |-> <<"CastTypeInfoToSequenceTypeInfo">>,
        GetMapTypeInfo |-> <<"CastTypeInfoToMapTypeInfo">>,
        GetOptionalTypeInfo |-> <<"CastTypeInfoToOptionalTypeInfo">>,
        GetONNXType |-> <<"GetOnnxTypeFromTypeInfo">>])
  @@ Body("SequenceTypeInfo", Likewise({"GetSequenceElementType"}))
  @@ Body("OptionalTypeInfo", [GetOptionalElementType |-> <<"GetOptionalContainedTypeInfo">>])
  @@ Body("MapTypeInfo", Likewise({"GetMapKeyType", "GetMapValueType"}))

(* GetTensorData and GetTensorRawData cast the const away for the C interface, *)
(* and return a pointer to const.                                              *)
ConstValueBodies ==
  Body("Value",
    [GetOpaqueData |-> <<"GetOpaqueValue">>, GetCount |-> <<"GetValueCount">>,
     GetTensorData |-> <<"GetTensorMutableData">>, GetTensorRawData |-> <<"GetTensorMutableData">>,
     GetTensorTypeAndShapeInfo |-> <<"GetTensorTypeAndShape">>,
     GetStringTensorElement_buffer |-> <<"GetStringTensorElement">>,
     GetStringTensorElement |-> <<"GetStringTensorElementLength", "GetStringTensorElement">>,
     GetSparseFormat |-> <<"GetSparseTensorFormat">>,
     GetSparseTensorValuesTypeAndShapeInfo |-> <<"GetSparseTensorValuesTypeAndShape">>,
     GetSparseTensorIndicesTypeShapeInfo |-> <<"GetSparseTensorIndicesTypeShape">>,
     GetSparseTensorIndicesData |-> <<"GetSparseTensorIndices">>]
    @@ Likewise({"IsTensor", "HasValue", "GetValue", "GetStringTensorDataLength",
                 "GetStringTensorElementLength", "GetTypeInfo", "GetTensorMemoryInfo",
                 "GetStringTensorContent", "IsSparseTensor", "GetSparseTensorValues"}))

ValueBodies ==
  Body("Value",
    [GetTensorMutableRawData |-> <<"GetTensorMutableData">>, At |-> <<"TensorAt">>]
    @@ Likewise({"FillStringTensor", "FillStringTensorElement",
                 "GetResizedStringTensorElementBuffer", "GetTensorMutableData", "UseCooIndices",
                 "UseCsrIndices", "UseBlockSparseIndices", "FillSparseTensorCoo",
                 "FillSparseTensorCsr", "FillSparseTensorBlockSparse"}))

ValueFactories ==
  Body("Value",
    [CreateTensor_data |-> <<"CreateTensorWithDataAsOrtValue">>,
     CreateTensor |-> <<"CreateTensorAsOrtValue">>,
     CreateSparseTensor_data |-> <<"CreateSparseTensorWithValuesAsOrtValue">>,
     CreateSparseTensor |-> <<"CreateSparseTensorAsOrtValue">>,
     CreateMap |-> <<"CreateValue">>, CreateSequence |-> <<"CreateValue">>,
     CreateOpaque |-> <<"CreateOpaqueValue">>])

(* A Logger asks for its severity level when it is constructed. *)
KernelContextBodies ==
  Body("KernelContext",
    [GetInputCount |-> <<"KernelContext_GetInputCount">>,
     GetOutputCount |-> <<"KernelContext_GetOutputCount">>,
     GetInput |-> <<"KernelContext_GetInput">>, GetOutput |-> <<"KernelContext_GetOutput">>,
     GetGPUComputeStream |-> <<"KernelContext_GetGPUComputeStream">>,
     GetAllocator |-> <<"KernelContext_GetAllocator">>,
     GetLogger |-> <<"KernelContext_GetLogger", "Logger_GetLoggingSeverityLevel">>])
  @@ Body("OpAttr", [OpAttr |-> <<"CreateOpAttr">>])

KernelInfoBodies ==
  Body("KernelInfo",
    [Copy |-> <<"CopyKernelInfo">>, GetInputCount |-> <<"KernelInfo_GetInputCount">>,
     GetOutputCount |-> <<"KernelInfo_GetOutputCount">>,
     GetInputName |-> Twice("KernelInfo_GetInputName"),
     GetOutputName |-> Twice("KernelInfo_GetOutputName"),
     GetInputTypeInfo |-> <<"KernelInfo_GetInputTypeInfo">>,
     GetOutputTypeInfo |-> <<"KernelInfo_GetOutputTypeInfo">>,
     GetTensorAttribute |-> <<"KernelInfoGetAttribute_tensor">>,
     GetTensorConstantInput |-> <<"KernelInfoGetConstantInput_tensor">>,
     GetNodeName |-> Twice("KernelInfo_GetNodeName"),
     GetLogger |-> <<"KernelInfo_GetLogger", "Logger_GetLoggingSeverityLevel">>])

AttributeBodies ==
  Body("KernelInfo",
    [GetAttribute_float |-> <<"KernelInfoGetAttribute_float">>,
     GetAttribute_int64 |-> <<"KernelInfoGetAttribute_int64">>,
     GetAttribute_string |-> Twice("KernelInfoGetAttribute_string"),
     GetAttributes_float |-> Twice("KernelInfoGetAttributeArray_float"),
     GetAttributes_int64 |-> Twice("KernelInfoGetAttributeArray_int64")])

OpBodies == Body("Op", [Create |-> <<"CreateOp">>, Invoke |-> <<"InvokeOp">>])

Bodies ==
  StatusBodies @@ AllocatorBodies @@ MemoryInfoBodies @@ IoBindingBodies
  @@ ArenaAndThreadingBodies @@ EnvBodies @@ RunOptionsBodies @@ SessionOptionsBodies
  @@ ProviderBodies @@ Body("SessionOptions", [SessionOptions |-> <<"CreateSessionOptions">>])
  @@ SessionBodies @@ SessionConstructors @@ ModelMetadataBodies @@ TypeInfoBodies
  @@ ConstValueBodies @@ ValueBodies @@ ValueFactories @@ KernelContextBodies
  @@ KernelInfoBodies @@ AttributeBodies @@ OpBodies
  @@ Body("Logger", [LogMessage |-> <<"Logger_LogMessage">>])
=============================================================================
